SPECIFICATION MCSpec
CONSTANTS
    Depth = 4
    Offered <- MCOffered
    Required <- MCRequired
    MaxPlans = 2
    MaxSteps = 3
    MaxGoals = 2
    MaxRequests = 2
    EntityIds = {e1, e2, e3}
    Contents = {t1, t2}
    RelationshipIds = {r1, r2}
    RelationshipTypes = {x, y}
    Unset = Unset
    MaxDepth = 2
    ConnectorIds = {c1, c2}
    Implementations = {m1}
    PluginIds = {p}
    MaxInvocations = 3
    Kinds = {"task", "trace", "capability", "lead", "work_item",
             "event", "intent", "knowledge_record", "memory_record", "workflow"}
    Touched = {"id", "due_date", "sync_state"}
    Values = {v}
    Items = {a, b}
    Data = {"tuple"}
    MaxLength = 2
    MaxObjects = 2
    Rules <- MCRules
    Managed = {"workflow_engine", "intent_router"}
    Modules = {"sales"}
INVARIANTS
    GraphIsSound SearchesAreRight ChainIsSound BooksAgree DecisionsAreSound
PROPERTIES
    BuiltIsFrozen FailuresEnd ProgramIsSound
\* The bounds end the behaviours, and so does main().
CHECK_DEADLOCK FALSE
