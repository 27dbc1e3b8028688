SPECIFICATION MCSpec
CONSTANTS
    Depth = 3
    Steps = 2
    Workflow = {w1}
    NoWorkflow = NoWorkflow
    None = None
    MaxSessions = 2
    MaxMessages = 2
    CompanyKeys = {1}
    ContactKeys = {1}
    CampaignKeys = {}
    DueDates = {1}
    MaxMade = 8
    MaxItems = 2
    Handlers = {h1, h2}
    Intents = {i1}
    IntentNames = {i1, i2}
    Callbacks = {c}
    MaxSubscriptions = 3
    Offered <- MCOffered
    MaxDispatches = 2
    NoCapability = NoCapability
    EntityIds = {k1, k2}
    Contents = {0, 1, 2}
    RelationshipIds = {r1}
    RelationshipTypes = {"related_to"}
    Related <- MCRelated
    MaxStored = 2
INVARIANTS
    WorkflowsRunOnce DispatchesAreServed
PROPERTIES
    FinishedIsFinal ConversationIsOne EventsArrive MemoryIsMirrored
    FilesStayWhole WorkStaysInOrder
\* The bounds on calls, messages and records end the behaviours.
CHECK_DEADLOCK FALSE
