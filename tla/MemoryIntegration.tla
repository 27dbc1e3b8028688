------------------------- MODULE MemoryIntegration -------------------------
(***************************************************************************)
(* The memory integration (argus/memory_integration) over the knowledge    *)
(* graph: synchronize_memory() copies a memory record into the graph as an *)
(* entity, and links it to the entities of the keys the record names.      *)
(* Every change of the graph is published, so host code runs between the   *)
(* removal of the old entity and the insertion of the new one, and between *)
(* any two of the links; what it raises may end the call anywhere.         *)
(***************************************************************************)
EXTENDS KnowledgeGraph, CallStack

CONSTANTS
    Related,    \* the sequences of related keys that a record may name
    MaxStored   \* bound: memory records written

VARIABLES
    integration,   \* MemoryIntegration._state
    memory,        \* the memory service: key -> [edition, related]
    stored,        \* number of records written: the edition of the next one
    synchronized,  \* keys of MemoryIntegration._synchronized
    failed,        \* keys of MemoryIntegration._failed
    disturbed      \* history: keys touched by others during a synchronization

\* The id of an entity is derived from the key of its memory and stands for it; what
\* the entity holds is the edition of the record, 0 when it is none of a memory.
MemoryKeys == EntityIds

integrationVars == <<stack, graphVars, integration, memory, stored,
                     synchronized, failed, disturbed>>

IntegrationInit ==
    /\ GraphInit
    /\ stack = << >>
    /\ integration = "CREATED"
    /\ memory = << >>
    /\ stored = 0
    /\ synchronized = {} /\ failed = {} /\ disturbed = {}

Remembers(k) == k \in DOMAIN memory
Working(k) == \E i \in DOMAIN stack : stack[i].call \in {"sync", "forget"} /\ stack[i].key = k

\* The entity or the entry of k is changed from outside the call that works on it.
Disturb(k) == disturbed' = disturbed \union {k}
DisturbIfWorking(k) == IF Working(k) THEN Disturb(k) ELSE UNCHANGED disturbed

Outside == UNCHANGED <<integration, memory, stored>>
Books == <<synchronized, failed, disturbed>>

-----------------------------------------------------------------------------
(* Lifecycle, the memory service and direct use of the graph *)

ShiftIntegration(from, to) ==
    /\ HostRuns
    /\ integration = from
    /\ integration' = to
    /\ UNCHANGED <<stack, graphVars, memory, stored, Books>>

InitializeIntegration == ShiftIntegration("CREATED", "INITIALIZING")
StartIntegration == ShiftIntegration("INITIALIZING", "RUNNING")
StopIntegration == ShiftIntegration("RUNNING", "STOPPED")

Remember(k, related) ==
    /\ HostRuns
    /\ stored < MaxStored
    /\ stored' = stored + 1
    /\ memory' = [j \in DOMAIN memory \union {k} |->
                     IF j = k THEN [edition |-> stored', related |-> related] ELSE memory[j]]
    /\ UNCHANGED <<stack, graphVars, integration, Books>>

ForgetRecord(k) ==
    /\ HostRuns
    /\ Remembers(k)
    /\ memory' = [j \in DOMAIN memory \ {k} |-> memory[j]]
    /\ UNCHANGED <<stack, graphVars, integration, stored, Books>>

\* Host code that removes the entity of a memory, or adds one of the same id.
ChangeGraph(k) ==
    /\ HostRuns
    /\ RemoveEntity(k) \/ AddEntity(k, 0)
    /\ Disturb(k)
    /\ Outside
    /\ UNCHANGED <<stack, synchronized, failed>>

Reset ==
    /\ HostRuns
    /\ synchronized' = {} /\ failed' = {}
    /\ disturbed' = disturbed \union Present
    /\ Outside
    /\ UNCHANGED <<stack, graphVars>>

-----------------------------------------------------------------------------
(* synchronize_memory *)

CanSync(k) == integration = "RUNNING" /\ Remembers(k)

SyncFrame(k, point) ==
    [call |-> "sync", key |-> k, edition |-> memory[k].edition,
     left |-> memory[k].related, at |-> point]

\* The record is read here; an entity that is there already is removed first.
BeginSync(k, below) ==
    /\ CanSync(k)
    /\ DisturbIfWorking(k)
    /\ IF k \in Present
       THEN /\ RemoveEntity(k)
            /\ stack' = Append(below, SyncFrame(k, "ENTITY_REMOVED"))
       ELSE /\ AddEntity(k, memory[k].edition)
            /\ stack' = Append(below, SyncFrame(k, "ENTITY_ADDED"))
    /\ Outside
    /\ UNCHANGED <<synchronized, failed>>

SynchronizeMemory(k) == MayCall /\ BeginSync(k, stack)

AddUpdated ==
    /\ TopIs("sync", {"ENTITY_REMOVED"})
    /\ AddEntity(Top.key, Top.edition)
    /\ Goto("ENTITY_ADDED")
    /\ Outside
    /\ UNCHANGED Books

\* Mutant of MappingFails: the key stays among the synchronized ones.
MappingFailsQuietly ==
    /\ \/ TopIs("sync", {"ENTITY_REMOVED"}) /\ Top.key \in Present /\ UNCHANGED disturbed
       \/ TopIs("sync", {"ENTITY_ADDED"}) /\ Disturb(Top.key)
    /\ failed' = failed \union {Top.key}
    /\ Goto("MEMORY_MAPPING_FAILED")
    /\ Outside
    /\ UNCHANGED <<graphVars, synchronized>>

\* The graph refuses the entity, since a handler has put one in its place; or a
\* handler of ENTITY_ADDED raises an error of the graph, which is taken for a refusal.
MappingFails ==
    /\ \/ TopIs("sync", {"ENTITY_REMOVED"}) /\ Top.key \in Present /\ UNCHANGED disturbed
       \/ TopIs("sync", {"ENTITY_ADDED"}) /\ Disturb(Top.key)
    /\ failed' = failed \union {Top.key}
    /\ synchronized' = synchronized \ {Top.key}
    /\ Goto("MEMORY_MAPPING_FAILED")
    /\ Outside
    /\ UNCHANGED graphVars

MappingSucceeds ==
    /\ TopIs("sync", {"ENTITY_ADDED"})
    /\ synchronized' = synchronized \union {Top.key}
    /\ failed' = failed \ {Top.key}
    /\ Goto("MEMORY_SYNCHRONIZED")
    /\ Outside
    /\ UNCHANGED <<graphVars, disturbed>>

Linking == {"MEMORY_SYNCHRONIZED", "RELATIONSHIP_ADDED", "LINK_FAILED"}

NextLink == [stack EXCEPT ![Len(stack)].left = Tail(@)]

\* The next link, with a fresh id.  A refusal is announced, and so is an error
\* that a handler of RELATIONSHIP_ADDED raises although the link is made.
Link ==
    /\ TopIs("sync", Linking)
    /\ Top.left # << >>
    /\ LET ends == {Top.key, Head(Top.left)}
           free == RelationshipIds \ RelatedIds
       IN IF ends \subseteq Present
          THEN /\ free # {}
               /\ AddRelationship([id |-> CHOOSE id \in free : TRUE, source |-> Top.key,
                                   target |-> Head(Top.left), type |-> "related_to"])
               /\ \E point \in {"RELATIONSHIP_ADDED", "LINK_FAILED"} :
                      stack' = [NextLink EXCEPT ![Len(stack)].at = point]
          ELSE /\ stack' = [NextLink EXCEPT ![Len(stack)].at = "LINK_FAILED"]
               /\ UNCHANGED graphVars
    /\ Outside
    /\ UNCHANGED Books

SyncReturns ==
    /\ TopIs("sync", Linking)
    /\ Top.left = << >>
    /\ Return
    /\ Outside
    /\ UNCHANGED <<graphVars, Books>>

\* MemoryMappingError leaves the call; synchronize_all goes on with the next key.
SyncRaises ==
    /\ TopIs("sync", {"MEMORY_MAPPING_FAILED"})
    /\ Return
    /\ Outside
    /\ UNCHANGED <<graphVars, Books>>

\* A handler raises something else, and the call ends where it is.
Cut ==
    /\ Busy
    /\ HostRuns
    /\ Unwind
    /\ Disturb(Top.key)
    /\ Outside
    /\ UNCHANGED <<graphVars, synchronized, failed>>

-----------------------------------------------------------------------------
(* synchronize_all and remove_memory *)

SynchronizeAll ==
    /\ MayCall /\ Len(stack) + 1 < Depth
    /\ integration = "RUNNING"
    /\ Enter([call |-> "all", keys |-> DOMAIN memory, at |-> "calling"])
    /\ Outside
    /\ UNCHANGED <<graphVars, Books>>

\* The keys of the list that was taken at the start, in any order.  A record that
\* is gone, or a stopped service, is passed over like any error of the integration.
SyncNext(k) ==
    /\ TopIs("all", {"calling", "raised"})
    /\ k \in Top.keys
    /\ LET here == [stack EXCEPT ![Len(stack)].keys = @ \ {k}, ![Len(stack)].at = "calling"] IN
       IF CanSync(k)
       THEN BeginSync(k, here)
       ELSE stack' = here /\ Outside /\ UNCHANGED <<graphVars, Books>>

AllReturns ==
    /\ \/ TopIs("all", {"calling", "raised"}) /\ Top.keys = {} /\ Return
       \/ TopIs("all", {"raised"}) /\ Unwind
    /\ Outside
    /\ UNCHANGED <<graphVars, Books>>

DropFromBooks(k) == synchronized' = synchronized \ {k} /\ failed' = failed \ {k}

RemoveMemory(k) ==
    /\ MayCall
    /\ integration = "RUNNING"
    /\ k \in synchronized
    /\ DisturbIfWorking(k)
    /\ IF k \in Present
       THEN /\ RemoveEntity(k)
            /\ Enter([call |-> "forget", key |-> k, at |-> "ENTITY_REMOVED"])
            /\ UNCHANGED <<synchronized, failed>>
       ELSE DropFromBooks(k) /\ UNCHANGED <<graphVars, stack>>
    /\ Outside

\* Nothing but MEMORY_DESYNCHRONIZED follows.
EntityForgotten ==
    /\ TopIs("forget", {"ENTITY_REMOVED"})
    /\ DropFromBooks(Top.key)
    /\ Return
    /\ Outside
    /\ UNCHANGED <<graphVars, disturbed>>

IntegrationNext ==
    \/ InitializeIntegration \/ StartIntegration \/ StopIntegration \/ Reset
    \/ \E k \in MemoryKeys :
           \/ \E related \in Related : Remember(k, related)
           \/ ForgetRecord(k) \/ ChangeGraph(k) \/ SynchronizeMemory(k)
           \/ SyncNext(k) \/ RemoveMemory(k)
    \/ AddUpdated \/ MappingFails \/ MappingSucceeds \/ Link \/ SyncReturns
    \/ SyncRaises \/ Cut \/ SynchronizeAll \/ AllReturns \/ EntityForgotten

IntegrationSpec == IntegrationInit /\ [][IntegrationNext]_integrationVars

-----------------------------------------------------------------------------
(* Properties *)

\* Types of the integration.
IntegrationTypeOK ==
    /\ GraphTypeOK
    /\ integration \in {"CREATED", "INITIALIZING", "RUNNING", "STOPPED"}
    /\ DOMAIN memory \subseteq MemoryKeys /\ stored \in 0 .. MaxStored
    /\ synchronized \union failed \union disturbed \subseteq MemoryKeys

\* synchronization_status() tells the truth about a key that nobody touched while
\* a call was working on it: it is listed as synchronized exactly while its
\* entity is in the graph, and never as synchronized and failed.
StatusIsTrue ==
    \A k \in MemoryKeys :
        /\ k \notin synchronized \intersect failed
        /\ ~Working(k) /\ k \notin disturbed => (k \in synchronized <=> k \in Present)

\* A synchronization that lost time in its handlers does not overwrite what a
\* later one has put into the graph: an entity is never replaced by an older
\* edition, and never in place.
NeverOlder ==
    [][\A k \in Present : k \in DOMAIN entities' => entities'[k] = entities[k]]_integrationVars

\* What the status tells and what the graph holds of a memory is what the last
\* synchronization that nobody disturbed has left.
MemoryIsMirrored == [](IntegrationTypeOK /\ StatusIsTrue) /\ NeverOlder
=============================================================================
