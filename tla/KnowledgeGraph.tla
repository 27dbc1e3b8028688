--------------------------- MODULE KnowledgeGraph ---------------------------
(***************************************************************************)
(* The knowledge graph (argus/knowledge_graph): entities, and typed        *)
(* relationships between them.  An entity is an id with what it holds; a   *)
(* relationship is a record with an id of its own.                         *)
(***************************************************************************)
EXTENDS Naturals, FiniteSets

CONSTANTS
    EntityIds,        \* ids of entities
    Contents,         \* what an entity may hold: its type, name and attributes
    RelationshipIds,  \* ids of relationships
    RelationshipTypes

VARIABLES
    entities,       \* KnowledgeGraph._entities: id -> content
    relationships   \* KnowledgeGraph._relationships

graphVars == <<entities, relationships>>

Relationship ==
    [id : RelationshipIds, source : EntityIds, target : EntityIds, type : RelationshipTypes]

Present == DOMAIN entities
RelatedIds == {r.id : r \in relationships}

\* Whether add_relationship accepts r: a new id, and both ends are registered.
Accepted(r) == r.id \notin RelatedIds /\ {r.source, r.target} \subseteq Present

Touches(r, e) == e \in {r.source, r.target}

GraphInit == entities = << >> /\ relationships = {}

AddEntity(e, content) ==
    /\ e \notin Present
    /\ entities' = [f \in Present \union {e} |-> IF f = e THEN content ELSE entities[f]]
    /\ UNCHANGED relationships

\* Mutant of RemoveEntity: the relationships stay.
RemoveEntityOnly(e) ==
    /\ e \in Present
    /\ entities' = [f \in Present \ {e} |-> entities[f]]
    /\ UNCHANGED relationships

\* The relationships of the entity go with it.
RemoveEntity(e) ==
    /\ e \in Present
    /\ relationships' = {r \in relationships : ~Touches(r, e)}
    /\ entities' = [f \in Present \ {e} |-> entities[f]]

AddRelationship(r) ==
    /\ Accepted(r)
    /\ relationships' = relationships \union {r}
    /\ UNCHANGED entities

RemoveRelationship(r) ==
    /\ r \in relationships
    /\ relationships' = relationships \ {r}
    /\ UNCHANGED entities

GraphNext ==
    \/ \E e \in EntityIds : RemoveEntity(e) \/ \E content \in Contents : AddEntity(e, content)
    \/ \E r \in Relationship : AddRelationship(r) \/ RemoveRelationship(r)

GraphSpec == GraphInit /\ [][GraphNext]_graphVars

-----------------------------------------------------------------------------
(* Properties *)

\* Types of the graph.
GraphTypeOK ==
    /\ Present \subseteq EntityIds
    /\ entities \in [Present -> Contents]
    /\ relationships \subseteq Relationship

\* Both ends of every relationship are registered entities, whatever was removed
\* and whenever: neighbors() and the searches of the reasoning engine look the
\* ends up without a check.
NoDangling == \A r \in relationships : {r.source, r.target} \subseteq Present

\* No two relationships share an id (they are the keys of a dict).
IdsUnique == \A r, s \in relationships : r.id = s.id => r = s

\* The graph is one after every order of operations: the cascade of remove_entity
\* is complete, and the keys of its relationships are keys.
GraphIsSound == GraphTypeOK /\ NoDangling /\ IdsUnique
=============================================================================
