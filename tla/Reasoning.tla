----------------------------- MODULE Reasoning -----------------------------
(***************************************************************************)
(* The searches of the reasoning engine (argus/reasoning/engine.py) over   *)
(* the knowledge graph.  They read the graph and change nothing, so they   *)
(* are operators, and their properties are invariants of the graph: they   *)
(* are checked in every graph that additions and removals can build.       *)
(* What an operator returns is a set where only the order of registration  *)
(* orders the tuple that the code returns.                                 *)
(***************************************************************************)
EXTENDS KnowledgeGraph, SequencesExt

CONSTANTS
    Unset,     \* None: no entity, no entity type or no relationship type asked for
    MaxDepth   \* bound: hops of a query, edges of a path

\* None is no entity, no type, and the depths are numbers.
ASSUME UnsetAssumption == Unset \notin EntityIds \union Contents \union RelationshipTypes
ASSUME HopsAssumption == MaxDepth \in Nat

\* What an entity holds is its entity_type here; the filters of a query are the
\* set of the entities and relationships whose attributes match them.
Wanted(type) == {r \in relationships : type \in {Unset, r.type}}
Touching(e, type) == {r \in Wanted(type) : Touches(r, e)}
OtherEnd(r, e) == IF r.source = e THEN r.target ELSE r.source

\* neighbors() and related_entities(): with a loop an entity is its own neighbor.
Neighbors(e, type) == {OtherEnd(r, e) : r \in Touching(e, type)}

FindByType(kind) == {e \in Present : entities[e] = kind}

\* KnowledgeGraph.neighbors has a search of its own.
GraphNeighbors(e) ==
    {f \in Present : \E r \in relationships :
        \/ r.source = e /\ r.target = f
        \/ r.source # e /\ r.target = e /\ r.source = f}

-----------------------------------------------------------------------------
(* Breadth-first search: _bfs_reachable and _induced_relationships *)

EndsOf(found) == UNION {{r.source, r.target} : r \in found}

\* The entities visited after each hop, and those that the hop discovered.  The
\* loop ends early when it discovers none, and then no hop discovers any.
Hops(root, type) ==
    LET hop[n \in Nat] ==
            IF n = 0 THEN [visited |-> {root}, frontier |-> {root}]
            ELSE LET last == hop[n - 1]
                     found == EndsOf(UNION {Touching(e, type) : e \in last.frontier}) \ last.visited
                 IN [visited |-> last.visited \union found, frontier |-> found]
    IN hop

Reachable(root, depth, type) == Hops(root, type)[depth].visited

Induced(visited, type) ==
    {r \in Wanted(type) : r.source \in visited /\ r.target \in visited}

-----------------------------------------------------------------------------
(* find_paths: _enumerate_simple_paths *)

\* A path is the entities it visits, and the relationships it follows.
Extended(path, r) ==
    [ids |-> Append(path.ids, OtherEnd(r, Last(path.ids))), rels |-> Append(path.rels, r.id)]

\* The calls of dfs() with n relationships behind them: paths from the source
\* that have not met the target.  It looks at no entity of the path again.
Extensions(path) ==
    {Extended(path, r) : r \in {s \in Touching(Last(path.ids), Unset) :
                                    OtherEnd(s, Last(path.ids)) \notin ToSet(path.ids)}}

Searches(source, target) ==
    LET dfs[n \in Nat] ==
            IF n = 0 THEN {[ids |-> <<source>>, rels |-> << >>]}
            ELSE {p \in UNION {Extensions(q) : q \in dfs[n - 1]} : Last(p.ids) # target}
    IN dfs

\* Mutant of SimplePaths: paths of one relationship too many.
SimplePathsLonger(source, target, depth) ==
    {p \in UNION {Extensions(q) : q \in UNION {Searches(source, target)[n] : n \in 0 .. depth}} :
        Last(p.ids) = target}

SimplePaths(source, target, depth) ==
    {p \in UNION {Extensions(q) : q \in UNION {Searches(source, target)[n] : n \in 0 .. depth - 1}} :
        Last(p.ids) = target}

FindPaths(source, target, depth) ==
    IF source = target THEN {[ids |-> <<source>>, rels |-> << >>]}
    ELSE SimplePaths(source, target, depth)

-----------------------------------------------------------------------------
(* query: four branches, by what the query asks for *)

QueryByEntity(root, kind, type, depth, matching) ==
    LET visited == Reachable(root, depth, type) IN
    [entities |-> {e \in visited : kind \in {Unset, entities[e]} /\ e \in matching},
     relationships |-> Induced(visited, type)]

QueryByType(kind, matching) ==
    [entities |-> FindByType(kind) \intersect matching, relationships |-> {}]

QueryByRelationship(type, matching) ==
    [entities |-> {}, relationships |-> {r \in Wanted(type) : r.id \in matching}]

\* The relationships of the type that touch the kind; filters are about the
\* relationships, and entities go with the last of theirs.
QueryByPattern(kind, type, matching) ==
    LET touched == {r \in Wanted(type) : kind \in {entities[r.source], entities[r.target]}}
        kept == {r \in touched : r.id \in matching}
    IN [entities |-> {e \in EndsOf(kept) : entities[e] = kind}, relationships |-> kept]

EntitySummary(e) ==
    LET touching == Touching(e, Unset) IN
    [outgoing |-> Cardinality({r \in touching : r.source = e}),
     incoming |-> Cardinality({r \in touching : r.target = e}),
     neighbors |-> Cardinality(Neighbors(e, Unset))]

\* query(): an entity id goes first, then a pattern, then either half of one.
Query(root, kind, type, depth, matching) ==
    CASE root # Unset                                    -> QueryByEntity(root, kind, type, depth, matching)
      [] root = Unset /\ Unset \notin {kind, type}          -> QueryByPattern(kind, type, matching)
      [] root = Unset /\ kind # Unset /\ type = Unset       -> QueryByType(kind, matching)
      [] root = Unset /\ kind = Unset /\ type # Unset       -> QueryByRelationship(type, matching)

RelationshipSummary(type) == [entities |-> EndsOf(Wanted(type)), relationships |-> Wanted(type)]

-----------------------------------------------------------------------------
(* The calls: no answer when an entity that is asked about is not there.   *)

Answer(found, touching) == [entities |-> found, relationships |-> touching]
RequireEntities(asked, answer) == IF asked \subseteq Present THEN {answer} ELSE {}

AskQuery(root, kind, type, depth, matching) ==
    RequireEntities({root} \ {Unset}, Query(root, kind, type, depth, matching))
AskNeighbors(e) == RequireEntities({e}, Answer(Neighbors(e, Unset), Touching(e, Unset)))
AskRelated(e, type) == RequireEntities({e}, Answer(Neighbors(e, type), Touching(e, type)))
AskSummary(e) == RequireEntities({e}, Answer({e}, Touching(e, Unset)))

\* The entities and relationships of the paths.
AskPaths(source, target, depth) ==
    LET paths == FindPaths(source, target, depth) IN
    RequireEntities({source, target},
        Answer(UNION {ToSet(p.ids) : p \in paths},
               {r \in relationships : \E p \in paths : r.id \in ToSet(p.rels)}))

\* What a call publishes.  The entities of an answer are fetched from the graph by
\* their ids: one that is missing there raises what nothing catches.
Execute(answers) ==
    IF answers = {} THEN <<"REASONING_QUERY_FAILED">>
    ELSE IF \E a \in answers : ~(a.entities \union EndsOf(a.relationships) \subseteq Present)
    THEN << >>
    ELSE <<"REASONING_QUERY_EXECUTED", "REASONING_RESULT_CREATED">>

-----------------------------------------------------------------------------
(* Properties *)

AllTypes == RelationshipTypes \union {Unset}

\* Two searches that share no code agree: the breadth-first search reaches an
\* entity within a number of hops exactly when the depth-first one finds a
\* path of at most as many relationships to it.
SearchesAgree ==
    \A e, f \in Present, depth \in 1 .. MaxDepth :
        f \in Reachable(e, depth, Unset) <=> FindPaths(e, f, depth) # {}

\* By definition a path visits no entity twice, follows one relationship from
\* each entity to the next, in either direction, and is not longer than asked.
IsPath(ids, rels, source, target) ==
    /\ ids[1] = source /\ Last(ids) = target
    /\ Cardinality(ToSet(ids)) = Len(ids)
    /\ \A i \in DOMAIN rels :
           {ids[i], ids[i + 1]} = {rels[i].source, rels[i].target}

\* The ways from source to target over n relationships.
Ways(source, target, n) ==
    {w \in [ids : [1 .. n + 1 -> Present], rels : [1 .. n -> relationships]] :
        IsPath(w.ids, w.rels, source, target)}

\* find_paths returns exactly the simple paths, parallel relationships giving
\* paths of their own, and loops none.
PathsAreAll ==
    \A e, f \in Present, depth \in 1 .. MaxDepth : e # f =>
        FindPaths(e, f, depth) =
            UNION {{[ids |-> w.ids, rels |-> [i \in 1 .. n |-> w.rels[i].id]] : w \in Ways(e, f, n)} :
                       n \in 1 .. depth}

\* Both searches for neighbors agree, and one hop of the breadth-first search
\* adds exactly the neighbors, for every type of relationship.
OneHopIsNeighbors ==
    \A e \in Present :
        /\ Neighbors(e, Unset) = GraphNeighbors(e)
        /\ \A type \in AllTypes : Reachable(e, 1, type) = {e} \union Neighbors(e, type)

\* The branches of query() agree where two of them answer the same question:
\* every entity of a pattern answer has its kind and an end of an answered
\* relationship, and the ends of the answered relationships are what the
\* summary of their type names, restricted to those that touch the kind.
PatternAgrees ==
    \A kind \in Contents, type \in RelationshipTypes, matching \in SUBSET RelationshipIds :
        LET answer == Query(Unset, kind, type, 1, matching)
            ends == EndsOf(answer.relationships)
        IN
        /\ answer.entities = Query(Unset, kind, Unset, 1, ends).entities
        /\ answer.relationships \subseteq Query(Unset, Unset, type, 1, matching).relationships
        /\ ends \subseteq RelationshipSummary(type).entities

\* The summary of an entity counts a loop in both directions, and once as a
\* neighbor, so that it never counts more neighbors than relationships.
SummaryCounts ==
    \A e \in Present :
        LET summary == EntitySummary(e)
            loops == Cardinality({r \in relationships : r.source = e /\ r.target = e})
        IN /\ summary.outgoing + summary.incoming = Cardinality(Touching(e, Unset)) + loops
           /\ summary.neighbors <= summary.outgoing + summary.incoming - loops

\* A call fails when an entity that it asks about is not in the graph, and else it
\* announces its execution and its result: no call ends without an announcement, as
\* it would if a search came to an entity that was removed.
CallsAreAnnounced ==
    LET Announced(answers, asked) ==
            /\ Execute(answers) = <<"REASONING_QUERY_FAILED">> <=> ~(asked \subseteq Present)
            /\ Execute(answers) # << >>
    IN \A e \in EntityIds, depth \in 1 .. MaxDepth :
           /\ Announced(AskNeighbors(e), {e}) /\ Announced(AskSummary(e), {e})
           /\ \A type \in AllTypes : /\ Announced(AskRelated(e, type), {e})
                                    /\ Announced(AskQuery(e, Unset, type, depth, EntityIds), {e})
           /\ \A f \in EntityIds : Announced(AskPaths(e, f, depth), {e, f})

\* The searches find what they are asked for, in every graph with its loops,
\* cycles and parallel relationships.
SearchesAreRight ==
    /\ SearchesAgree /\ PathsAreAll /\ OneHopIsNeighbors /\ PatternAgrees /\ SummaryCounts
    /\ CallsAreAnnounced
=============================================================================
