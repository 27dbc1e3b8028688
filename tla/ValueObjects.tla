---------------------------- MODULE ValueObjects ----------------------------
(***************************************************************************)
(* The value objects that have a builder: the fields of each class with    *)
(* what they are when nothing is said, its metadata, its builder, and for  *)
(* those of the sales module the way to a JSON record and back.            *)
(*                                                                         *)
(* Builders.tla says what a builder does.                                  *)
(***************************************************************************)
EXTENDS Records

-----------------------------------------------------------------------------
(* Enumerations *)

AutomationStatus == {"ACTIVE", "PAUSED", "DISABLED", "ARCHIVED"}
AutomationTrigger == {"MANUAL", "SCHEDULE", "EVENT", "CONDITION"}
CapabilityExecutionStatus == {"PENDING", "RESOLVED", "COMPLETED", "FAILED", "NOT_FOUND"}
DecisionRecordPriority == {"LOW", "NORMAL", "HIGH", "CRITICAL"}
DecisionRecordStatus == {"PENDING", "IN_REVIEW", "APPROVED", "REJECTED", "ARCHIVED"}
ExecutionStatus == {"PENDING", "RUNNING", "COMPLETED", "FAILED", "CANCELLED"}
GoalPriority == {"LOW", "NORMAL", "HIGH", "CRITICAL"}
GoalStatus == {"PLANNING", "ACTIVE", "PAUSED", "COMPLETED", "ABANDONED"}
CampaignStatus == {"DRAFT", "ACTIVE", "PAUSED", "COMPLETED"}
LeadStatus ==
    {"NEW", "CONTACTED", "QUALIFIED", "NURTURING", "WON", "LOST", "DISQUALIFIED"}
LeadSyncState == {"NOT_SYNCED", "PENDING_SYNC", "SYNCED", "SYNC_FAILED"}
WorkItemStatus == {"PENDING", "IN_PROGRESS", "COMPLETED", "SKIPPED"}
WorkItemType == {"CALL", "EMAIL", "FOLLOW_UP", "RESEARCH", "OTHER"}
PolicyScope == {"GLOBAL", "WORKSPACE", "PROJECT", "GOAL", "PLAN", "TASK", "CAPABILITY"}
PolicyStatus == {"ACTIVE", "INACTIVE", "ARCHIVED"}
ProjectStatus == {"PLANNING", "ACTIVE", "PAUSED", "COMPLETED", "ARCHIVED"}
TaskStatus == {"PENDING", "READY", "COMPLETED", "FAILED", "CANCELLED"}
RelationshipType == {"PRECEDES", "FOLLOWS", "RELATED", "BLOCKS"}
WorkspaceStatus == {"ACTIVE", "INACTIVE", "ARCHIVED"}

-----------------------------------------------------------------------------
(* Metadata *)

\* What every metadata class is stamped with at its construction.
Stamp == {"created_at", "version", "correlation_id"}

AutomationMetadata == Stamp \union {"owner", "tags", "extra"}
CapabilityMetadata == Stamp \union {"extra"}
CapabilityContextMetadata == Stamp \union {"extra"}
CapabilityExecutionMetadata == Stamp \union {"extra"}
ContextMetadata == Stamp \union {"extra"}
DecisionRecordMetadata == Stamp \union {"owner", "tags", "extra"}
ExecutionMetadata == Stamp \union {"extra"}
GoalMetadata == Stamp \union {"owner", "tags", "extra"}
CampaignMetadata == Stamp \union {"extra"}
CompanyMetadata == Stamp \union {"extra"}
ContactMetadata == Stamp \union {"extra"}
LeadMetadata == Stamp \union {"extra"}
WorkItemMetadata == Stamp \union {"extra"}
PlanningMetadata == Stamp \union {"extra"}
PolicyMetadata == Stamp \union {"owner", "tags", "extra"}
ProjectMetadata == Stamp \union {"owner", "tags", "extra"}
TaskMetadata == Stamp \union {"extra"}
RelationshipMetadata == Stamp \union {"extra"}
TraceMetadata == Stamp \union {"extra"}
WorkspaceMetadata == Stamp \union {"owner", "tags", "extra"}

-----------------------------------------------------------------------------
(* The classes: field |-> its default *)

Automation ==
    [automation_id |-> New, name |-> Blank, description |-> Blank, status |-> "ACTIVE",
     trigger |-> "MANUAL", metadata |-> Made]
Capability ==
    [name |-> Mandatory, description |-> Mandatory, intent_types |-> Mandatory,
     action_kind |-> Mandatory, id |-> New, workflow_id |-> NotSet, enabled |-> "True",
     version |-> "1.0", metadata |-> Mapped, capability_metadata |-> Made]
CapabilityContext ==
    [context_id |-> New, task |-> NotSet, plan |-> NotSet, execution_trace |-> NotSet,
     metadata |-> Made]
CapabilityExecutionResult ==
    [execution_id |-> New, task |-> NotSet, capability |-> NotSet, status |-> "PENDING",
     metadata |-> Made]
CognitiveContext ==
    [context_id |-> New, conversation_id |-> NotSet, memory_references |-> Listed,
     knowledge_references |-> Listed, reasoning_results |-> Listed,
     decision_references |-> Listed, metadata |-> Made]
DecisionRecord ==
    [decision_id |-> New, title |-> Blank, question |-> Blank, status |-> "PENDING",
     priority |-> "NORMAL", metadata |-> Made]
ExecutionResult ==
    [execution_id |-> New, plan |-> NotSet, completed_tasks |-> Listed,
     failed_tasks |-> Listed, status |-> "PENDING", metadata |-> Made]
Goal ==
    [goal_id |-> New, name |-> Blank, description |-> Blank, status |-> "PLANNING",
     priority |-> "NORMAL", metadata |-> Made]
PlanningSession ==
    [session_id |-> New, cognitive_context |-> NotSet, goals |-> Listed,
     constraints |-> Listed, tasks |-> Listed, metadata |-> Made]
Policy ==
    [policy_id |-> New, name |-> Blank, description |-> Blank, status |-> "ACTIVE",
     scope |-> "GLOBAL", metadata |-> Made]
Project ==
    [project_id |-> New, name |-> Blank, description |-> Blank, status |-> "PLANNING",
     metadata |-> Made]
Task ==
    [task_id |-> New, name |-> Blank, description |-> Blank, status |-> "PENDING",
     relationships |-> Listed, metadata |-> Made]
TaskRelationship ==
    [relationship_id |-> New, source_task |-> NotSet, target_task |-> NotSet,
     relationship_type |-> "RELATED", metadata |-> Made]
ExecutionTrace == [trace_id |-> New, steps |-> Listed, metadata |-> Made]
Workspace ==
    [workspace_id |-> New, name |-> Blank, description |-> Blank, status |-> "ACTIVE",
     metadata |-> Made]
Company ==
    [company_id |-> New, name |-> Blank, industry |-> Blank, website |-> Blank, territory |-> Blank,
     notes |-> Blank, metadata |-> Made]
Contact ==
    [contact_id |-> New, company_id |-> Blank, first_name |-> Blank, last_name |-> Blank,
     email |-> Blank, phone |-> Blank, title |-> Blank, notes |-> Blank, metadata |-> Made]
Campaign ==
    [campaign_id |-> New, name |-> Blank, description |-> Blank, status |-> "DRAFT",
     territory |-> Blank, start_date |-> NotSet, end_date |-> NotSet, notes |-> Blank,
     metadata |-> Made]
Lead ==
    [lead_id |-> New, company_id |-> Blank, contact_id |-> Blank, campaign_id |-> Blank,
     status |-> "NEW", territory |-> Blank, source |-> Blank, next_touch_date |-> NotSet,
     last_touch_date |-> NotSet, dynamics_record_id |-> Blank, sync_state |-> "NOT_SYNCED",
     notes |-> Blank, metadata |-> Made]
WorkItem ==
    [work_item_id |-> New, lead_id |-> Blank, work_type |-> "OTHER", status |-> "PENDING",
     due_date |-> NotSet, completed_at |-> NotSet, notes |-> Blank, metadata |-> Made]
Objects ==
    [automation |-> Automation, capability |-> Capability,
     capability_context |-> CapabilityContext,
     capability_execution |-> CapabilityExecutionResult, context |-> CognitiveContext,
     decision_record |-> DecisionRecord, execution_result |-> ExecutionResult,
     goal |-> Goal, planning_session |-> PlanningSession, policy |-> Policy,
     project |-> Project, task |-> Task, task_relationship |-> TaskRelationship,
     trace |-> ExecutionTrace, workspace |-> Workspace, company |-> Company,
     contact |-> Contact, campaign |-> Campaign, lead |-> Lead, work_item |-> WorkItem]

MetadataOf ==
    [automation |-> AutomationMetadata, capability |-> CapabilityMetadata,
     capability_context |-> CapabilityContextMetadata,
     capability_execution |-> CapabilityExecutionMetadata, context |-> ContextMetadata,
     decision_record |-> DecisionRecordMetadata, execution_result |-> ExecutionMetadata,
     goal |-> GoalMetadata, planning_session |-> PlanningMetadata,
     policy |-> PolicyMetadata, project |-> ProjectMetadata, task |-> TaskMetadata,
     task_relationship |-> RelationshipMetadata, trace |-> TraceMetadata,
     workspace |-> WorkspaceMetadata, company |-> CompanyMetadata,
     contact |-> ContactMetadata, campaign |-> CampaignMetadata, lead |-> LeadMetadata,
     work_item |-> WorkItemMetadata]
Enumerated ==
    [automation |-> [status |-> AutomationStatus, trigger |-> AutomationTrigger],
     capability_execution |-> [status |-> CapabilityExecutionStatus],
     decision_record |-> [status |-> DecisionRecordStatus, priority |-> DecisionRecordPriority],
     execution_result |-> [status |-> ExecutionStatus],
     goal |-> [status |-> GoalStatus, priority |-> GoalPriority],
     policy |-> [status |-> PolicyStatus, scope |-> PolicyScope],
     project |-> [status |-> ProjectStatus], task |-> [status |-> TaskStatus],
     task_relationship |-> [relationship_type |-> RelationshipType],
     workspace |-> [status |-> WorkspaceStatus],
     campaign |-> [status |-> CampaignStatus],
     lead |-> [status |-> LeadStatus, sync_state |-> LeadSyncState],
     work_item |-> [work_type |-> WorkItemType, status |-> WorkItemStatus]]

\* The two fields that no builder fills with a value of its own.
IdField(k) == CHOOSE f \in DOMAIN Objects[k] : Objects[k][f] = New
ExtraField(k) == IF k = "capability" THEN "capability_metadata" ELSE "metadata"

-----------------------------------------------------------------------------
(* The builders: the defaults of their fields of one value, their lists,   *)
(* those that can be added to by the sequence and cleared, and those that  *)
(* refuse an item they have.                                               *)

Builder(single, several, cleared, unique) ==
    [single |-> single, several |-> several, cleared |-> cleared, unique |-> unique]

AutomationBuilder ==
    Builder([name |-> Blank, description |-> Blank, status |-> "ACTIVE", trigger |-> "MANUAL"],
            {}, {}, {})
CapabilityBuilder ==
    Builder([id |-> NotSet, name |-> Blank, description |-> Blank, action_kind |-> Blank,
     workflow_id |-> NotSet, enabled |-> "True", version |-> "1.0"],
            {"intent_types"}, {"intent_types"}, {})
CapabilityContextBuilder ==
    Builder([task |-> NotSet, plan |-> NotSet, execution_trace |-> NotSet], {}, {}, {})
CapabilityExecutionResultBuilder ==
    Builder([task |-> NotSet, capability |-> NotSet, status |-> "PENDING"], {}, {}, {})
ContextBuilder ==
    Builder([conversation_id |-> NotSet],
            {"memory_references", "knowledge_references", "reasoning_results", "decision_references"}, {}, {})
DecisionRecordBuilder ==
    Builder([title |-> Blank, question |-> Blank, status |-> "PENDING", priority |-> "NORMAL"],
            {}, {}, {})
ExecutionResultBuilder ==
    Builder([plan |-> NotSet, status |-> "PENDING"],
            {"completed_tasks", "failed_tasks"}, {"completed_tasks", "failed_tasks"}, {})
GoalBuilder ==
    Builder([name |-> Blank, description |-> Blank, status |-> "PLANNING",
     priority |-> "NORMAL"], {}, {}, {})
PlanningSessionBuilder ==
    Builder([cognitive_context |-> NotSet],
            {"goals", "constraints", "tasks"}, {"tasks"}, {"tasks"})
PolicyBuilder ==
    Builder([name |-> Blank, description |-> Blank, status |-> "ACTIVE", scope |-> "GLOBAL"],
            {}, {}, {})
ProjectBuilder ==
    Builder([name |-> Blank, description |-> Blank, status |-> "PLANNING"], {}, {}, {})
TaskBuilder ==
    Builder([name |-> Blank, description |-> Blank, status |-> "PENDING"],
            {"relationships"}, {"relationships"}, {"relationships"})
RelationshipBuilder ==
    Builder([source_task |-> NotSet, target_task |-> NotSet,
     relationship_type |-> "RELATED"], {}, {}, {})
TraceBuilder ==
    Builder([trace_id |-> Own], {"steps"}, {}, {})
WorkspaceBuilder ==
    Builder([name |-> Blank, description |-> Blank, status |-> "ACTIVE"], {}, {}, {})
CompanyBuilder ==
    Builder([name |-> Blank, industry |-> Blank, website |-> Blank, territory |-> Blank,
     notes |-> Blank], {}, {}, {})
ContactBuilder ==
    Builder([company_id |-> Blank, first_name |-> Blank, last_name |-> Blank, email |-> Blank,
     phone |-> Blank, title |-> Blank, notes |-> Blank], {}, {}, {})
CampaignBuilder ==
    Builder([name |-> Blank, description |-> Blank, status |-> "DRAFT", territory |-> Blank,
     start_date |-> NotSet, end_date |-> NotSet, notes |-> Blank], {}, {}, {})
LeadBuilder ==
    Builder([company_id |-> Blank, contact_id |-> Blank, campaign_id |-> Blank, status |-> "NEW",
     territory |-> Blank, source |-> Blank, next_touch_date |-> NotSet,
     last_touch_date |-> NotSet, dynamics_record_id |-> Blank, sync_state |-> "NOT_SYNCED",
     notes |-> Blank], {}, {}, {})
WorkItemBuilder ==
    Builder([lead_id |-> Blank, work_type |-> "OTHER", status |-> "PENDING",
     due_date |-> NotSet, completed_at |-> NotSet, notes |-> Blank], {}, {}, {})
Builds ==
    [automation |-> AutomationBuilder, capability |-> CapabilityBuilder,
     capability_context |-> CapabilityContextBuilder,
     capability_execution |-> CapabilityExecutionResultBuilder,
     context |-> ContextBuilder, decision_record |-> DecisionRecordBuilder,
     execution_result |-> ExecutionResultBuilder, goal |-> GoalBuilder,
     planning_session |-> PlanningSessionBuilder, policy |-> PolicyBuilder,
     project |-> ProjectBuilder, task |-> TaskBuilder,
     task_relationship |-> RelationshipBuilder, trace |-> TraceBuilder,
     workspace |-> WorkspaceBuilder, company |-> CompanyBuilder,
     contact |-> ContactBuilder, campaign |-> CampaignBuilder, lead |-> LeadBuilder,
     work_item |-> WorkItemBuilder]

\* A builder knows every field of its class but the identifier (and the one other
\* metadata of a capability), and what it puts there when nothing is said is what the
\* class puts there, a member of the field's enumeration.
DefaultsAgree(k) ==
    LET known == DOMAIN Builds[k].single \union Builds[k].several \union {ExtraField(k)} IN
    /\ known \subseteq DOMAIN Objects[k]
    /\ DOMAIN Objects[k] \ known \subseteq {IdField(k), "metadata"}
    /\ \A f \in DOMAIN Builds[k].single :
           \/ Objects[k][f] \in {Mandatory, New}
           \/ Builds[k].single[f] = Objects[k][f]
    /\ \A f \in Builds[k].several : Objects[k][f] \in {Mandatory, Listed}
    /\ k \in DOMAIN Enumerated =>
           \A f \in DOMAIN Enumerated[k] : Objects[k][f] \in Enumerated[k][f]
    /\ Stamp \union {"extra"} \subseteq MetadataOf[k]

-----------------------------------------------------------------------------
(* The JSON records of the sales module: field |-> how it is written, and  *)
(* how it is read; and what codecs do, these and those of Records.         *)

company_to_dict ==
    [company_id |-> "same", name |-> "same", industry |-> "same", website |-> "same",
     territory |-> "same", notes |-> "same", metadata |-> "metadata"]
company_from_dict ==
    [company_id |-> "same", name |-> "same", industry |-> "same", website |-> "same",
     territory |-> "same", notes |-> "same", metadata |-> "metadata"]
contact_to_dict ==
    [contact_id |-> "same", company_id |-> "same", first_name |-> "same",
     last_name |-> "same", email |-> "same", phone |-> "same", title |-> "same",
     notes |-> "same", metadata |-> "metadata"]
contact_from_dict ==
    [contact_id |-> "same", company_id |-> "same", first_name |-> "same",
     last_name |-> "same", email |-> "same", phone |-> "same", title |-> "same",
     notes |-> "same", metadata |-> "metadata"]
campaign_to_dict ==
    [campaign_id |-> "same", name |-> "same", description |-> "same",
     status |-> "value", territory |-> "same", start_date |-> "iso", end_date |-> "iso",
     notes |-> "same", metadata |-> "metadata"]
campaign_from_dict ==
    [campaign_id |-> "same", name |-> "same", description |-> "same",
     status |-> "value", territory |-> "same", start_date |-> "iso", end_date |-> "iso",
     notes |-> "same", metadata |-> "metadata"]
lead_to_dict ==
    [lead_id |-> "same", company_id |-> "same", contact_id |-> "same",
     campaign_id |-> "same", status |-> "value", territory |-> "same",
     source |-> "same", next_touch_date |-> "iso", last_touch_date |-> "iso",
     dynamics_record_id |-> "same", sync_state |-> "value", notes |-> "same",
     metadata |-> "metadata"]
lead_from_dict ==
    [lead_id |-> "same", company_id |-> "same", contact_id |-> "same",
     campaign_id |-> "same", status |-> "value", territory |-> "same",
     source |-> "same", next_touch_date |-> "iso", last_touch_date |-> "iso",
     dynamics_record_id |-> "same", sync_state |-> "value", notes |-> "same",
     metadata |-> "metadata"]
work_item_to_dict ==
    [work_item_id |-> "same", lead_id |-> "same", work_type |-> "value",
     status |-> "value", due_date |-> "iso", completed_at |-> "iso", notes |-> "same",
     metadata |-> "metadata"]
work_item_from_dict ==
    [work_item_id |-> "same", lead_id |-> "same", work_type |-> "value",
     status |-> "value", due_date |-> "iso", completed_at |-> "iso", notes |-> "same",
     metadata |-> "metadata"]

ToDict ==
    [company |-> company_to_dict, contact |-> contact_to_dict, campaign |-> campaign_to_dict,
     lead |-> lead_to_dict, work_item |-> work_item_to_dict,
     knowledge_record |-> knowledge_to_dict, memory_record |-> memory_to_dict,
     intent |-> _intent_to_payload]
FromDict ==
    [company |-> company_from_dict, contact |-> contact_from_dict,
     campaign |-> campaign_from_dict, lead |-> lead_from_dict,
     work_item |-> work_item_from_dict, knowledge_record |-> knowledge_from_dict,
     memory_record |-> memory_from_dict, intent |-> _intent_from_payload]

_metadata_to_dict ==
    [created_at |-> "iso", version |-> "same", correlation_id |-> "same", extra |-> "json"]
_metadata_from_dict ==
    [created_at |-> "iso", version |-> "same", correlation_id |-> "same", extra |-> "json"]

\* What becomes of a datum that has no form of its own in JSON: json.dumps writes a tuple
\* as an array, which json.load makes a list, and keys that are numbers as texts.
JsonForms == [tuple |-> "array", numbered |-> "named"]
JsonForm(x) == IF x \in DOMAIN JsonForms THEN JsonForms[x] ELSE x

\* The entries of a list or dictionary after json.dumps and json.load, which go through
\* what is in them.
AfterJson(entries) ==
    [i \in DOMAIN entries |->
        [entries[i] EXCEPT !.items = [j \in DOMAIN @ |-> JsonForm(@[j])]]]

\* Something in these entries does not come back as it was.
Lossy(entries) ==
    \E i \in DOMAIN entries : \E j \in DOMAIN entries[i].items :
        JsonForm(entries[i].items[j]) # entries[i].items[j]

\* What stands in the record: the value itself, the value of an enumeration, the text
\* of a time, or null; and for arbitrary data its form in JSON.
Written(codec, x) ==
    IF codec = "iso" /\ x = NotSet THEN [as |-> "null", of |-> x]
    ELSE [as |-> codec, of |-> IF codec = "json" THEN AfterJson(x) ELSE x]

\* fromisoformat and the enumerations refuse what they do not know; null is no time.
Malformed == "malformed"
Read(codec, json) ==
    IF json.as = codec \/ (json.as = "null" /\ codec = "iso") THEN json.of ELSE Malformed

Recorded(codecs, view) == [f \in DOMAIN codecs |-> Written(codecs[f], view[f])]
Loaded(codecs, json) == [f \in DOMAIN codecs |-> Read(codecs[f], json[f])]

\* An object of kind k as it is found again; its metadata is a record in the record.
Restored(k, view) ==
    IF "metadata" \notin DOMAIN ToDict[k]
    THEN Loaded(FromDict[k], Recorded(ToDict[k], view))
    ELSE LET inner == Recorded(_metadata_to_dict, view.metadata)
             json == Recorded(ToDict[k], [view EXCEPT !.metadata = inner])
         IN [Loaded(FromDict[k], json) EXCEPT !.metadata = Loaded(_metadata_from_dict, @)]

\* The arbitrary data of an object that is written as JSON: the dictionary of its
\* metadata, or the value of a record.  An intent has none, its payload is no JSON.
DataOf(k, view) ==
    IF "metadata" \in DOMAIN ToDict[k] THEN view.metadata.extra
    ELSE IF "value" \in DOMAIN ToDict[k] THEN view.value
    ELSE << >>
WithData(k, view, data) ==
    IF "metadata" \in DOMAIN ToDict[k]
    THEN [view EXCEPT !.metadata = [@ EXCEPT !.extra = data]]
    ELSE IF "value" \in DOMAIN ToDict[k] THEN [view EXCEPT !.value = data]
    ELSE view
=============================================================================
