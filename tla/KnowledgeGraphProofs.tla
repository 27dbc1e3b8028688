------------------------- MODULE KnowledgeGraphProofs -------------------------
(***************************************************************************)
(* The knowledge graph keeps its invariants for every set of ids, whatever *)
(* the order of its operations; the memory integration, which is one of    *)
(* its users, keeps its books true for every depth of nested calls; and    *)
(* the searches of the reasoning engine find what they are asked for in    *)
(* every graph.                                                            *)
(***************************************************************************)
EXTENDS MemoryIntegration, Reasoning, SequenceTheorems, FiniteSetTheorems,
        WellFoundedInduction, TLAPS

-----------------------------------------------------------------------------
(* The graph *)

\* No relationship is left without an end once the ones that touch the entity
\* are gone: what remove_entity relies on.
LEMMA CascadeIsComplete ==
    ASSUME NEW e, NoDangling,
           NEW r \in {s \in relationships : ~Touches(s, e)}
    PROVE  {r.source, r.target} \subseteq Present \ {e}
BY DEF NoDangling, Touches

\* The types hold in every reachable state.
THEOREM TypeCorrect == GraphSpec => []GraphTypeOK
<1>1. GraphInit => GraphTypeOK
  BY DEF GraphInit, GraphTypeOK, Present
<1>2. GraphTypeOK /\ [GraphNext]_graphVars => GraphTypeOK'
  <2> SUFFICES ASSUME GraphTypeOK, [GraphNext]_graphVars PROVE GraphTypeOK'
    OBVIOUS
  <2> USE DEF GraphTypeOK, Present
  <2>1. ASSUME NEW e \in EntityIds, NEW content \in Contents, AddEntity(e, content)
        PROVE  GraphTypeOK'
    BY <2>1 DEF AddEntity
  <2>2. ASSUME NEW e \in EntityIds, RemoveEntity(e)
        PROVE  GraphTypeOK'
    BY <2>2 DEF RemoveEntity
  <2>3. ASSUME NEW r \in Relationship, AddRelationship(r)
        PROVE  GraphTypeOK'
    BY <2>3 DEF AddRelationship
  <2>4. ASSUME NEW r \in Relationship, RemoveRelationship(r)
        PROVE  GraphTypeOK'
    BY <2>4 DEF RemoveRelationship
  <2>5. CASE UNCHANGED graphVars
    BY <2>5 DEF graphVars
  <2> QED BY <2>1, <2>2, <2>3, <2>4, <2>5 DEF GraphNext
<1> QED BY <1>1, <1>2, PTL DEF GraphSpec

\* Both ends of every relationship are registered, after any removals.
THEOREM EndsArePresent == GraphSpec => []NoDangling
<1>1. GraphInit => NoDangling
  BY DEF GraphInit, NoDangling
<1>2. NoDangling /\ [GraphNext]_graphVars => NoDangling'
  <2> SUFFICES ASSUME NoDangling, [GraphNext]_graphVars PROVE NoDangling'
    OBVIOUS
  <2>1. ASSUME NEW e \in EntityIds, NEW content \in Contents, AddEntity(e, content)
        PROVE  NoDangling'
    <3>1. relationships' = relationships /\ Present \subseteq Present'
      BY <2>1 DEF AddEntity, Present
    <3> QED BY <3>1 DEF NoDangling
  <2>2. ASSUME NEW e \in EntityIds, RemoveEntity(e)
        PROVE  NoDangling'
    <3>1. /\ relationships' = {r \in relationships : ~Touches(r, e)}
          /\ Present' = Present \ {e}
      BY <2>2 DEF RemoveEntity, Present
    <3> QED BY <3>1, CascadeIsComplete DEF NoDangling
  <2>3. ASSUME NEW r \in Relationship, AddRelationship(r)
        PROVE  NoDangling'
    BY <2>3 DEF AddRelationship, Accepted, NoDangling, Present
  <2>4. ASSUME NEW r \in Relationship, RemoveRelationship(r)
        PROVE  NoDangling'
    BY <2>4 DEF RemoveRelationship, NoDangling, Present
  <2>5. CASE UNCHANGED graphVars
    BY <2>5 DEF graphVars, NoDangling, Present
  <2> QED BY <2>1, <2>2, <2>3, <2>4, <2>5 DEF GraphNext
<1> QED BY <1>1, <1>2, PTL DEF GraphSpec

\* No two relationships share an id.
THEOREM IdsAreKeys == GraphSpec => []IdsUnique
<1>1. GraphInit => IdsUnique
  BY DEF GraphInit, IdsUnique
<1>2. IdsUnique /\ [GraphNext]_graphVars => IdsUnique'
  <2> SUFFICES ASSUME IdsUnique, [GraphNext]_graphVars PROVE IdsUnique'
    OBVIOUS
  <2>1. ASSUME relationships' \subseteq relationships PROVE IdsUnique'
    BY <2>1 DEF IdsUnique
  <2>2. ASSUME NEW r \in Relationship, AddRelationship(r)
        PROVE  IdsUnique'
    <3>1. /\ relationships' = relationships \union {r}
          /\ \A s \in relationships : s.id # r.id
      BY <2>2 DEF AddRelationship, Accepted, RelatedIds
    <3> QED BY <3>1 DEF IdsUnique
  <2>3. CASE UNCHANGED graphVars
    BY <2>1, <2>3 DEF graphVars
  <2> QED BY <2>1, <2>2, <2>3
          DEF GraphNext, AddEntity, RemoveEntity, RemoveRelationship
<1> QED BY <1>1, <1>2, PTL DEF GraphSpec

\* The graph is sound after every order of operations: the cascade of remove_entity()
\* leaves no relationship with an end missing, and ids stay keys.
THEOREM GraphStaysSound == GraphSpec => []GraphIsSound
<1>1. GraphTypeOK /\ NoDangling /\ IdsUnique <=> GraphIsSound
  BY DEF GraphIsSound
<1> QED BY <1>1, TypeCorrect, EndsArePresent, IdsAreKeys, PTL

-----------------------------------------------------------------------------
(* The memory integration: its calls and its data *)

\* The editions of memory records are contents of entities, related keys are keys, and
\* links are of a type of the graph.
ConstantsFit ==
    /\ MaxStored \in Nat /\ 0 .. MaxStored \subseteq Contents
    /\ Related \subseteq Seq(EntityIds)
    /\ "related_to" \in RelationshipTypes

SyncFrames ==
    [call : {"sync"}, key : EntityIds, edition : Contents, left : Seq(EntityIds),
     at : {"ENTITY_REMOVED", "ENTITY_ADDED", "MEMORY_MAPPING_FAILED"} \union Linking]
ForgetFrames == [call : {"forget"}, key : EntityIds, at : {"ENTITY_REMOVED"}]
AllFrames == [call : {"all"}, keys : SUBSET EntityIds, at : {"calling", "raised"}]
Frame == SyncFrames \union ForgetFrames \union AllFrames

StackOK == stack \in Seq(Frame)

DataOK ==
    /\ Present \subseteq EntityIds
    /\ integration \in {"CREATED", "INITIALIZING", "RUNNING", "STOPPED"}
    /\ memory \in [DOMAIN memory -> [edition : 0 .. MaxStored, related : Related]]
    /\ DOMAIN memory \subseteq EntityIds
    /\ stored \in 0 .. MaxStored
    /\ synchronized \union failed \union disturbed \subseteq EntityIds

\* What an action does to the stack: calls that work on a key stay as they are but for
\* the innermost one; a synchronize_all around them may go on.
SameWork(f, g) == f = g \/ (f.call = "all" /\ g.call = "all")

Pushed(f) ==
    /\ Len(stack') = Len(stack) + 1
    /\ stack'[Len(stack) + 1] = f
    /\ \A i \in 1 .. Len(stack) : SameWork(stack[i], stack'[i])

Changed(f) ==
    /\ Len(stack') = Len(stack) /\ Len(stack) \in Nat \ {0}
    /\ stack'[Len(stack)] = f
    /\ \A i \in 1 .. Len(stack) - 1 : stack'[i] = stack[i]

Popped ==
    /\ Len(stack') = Len(stack) - 1 /\ Len(stack) \in Nat \ {0}
    /\ \A i \in 1 .. Len(stack) - 1 : SameWork(stack[i], stack'[i])

\* Lemma: the innermost call is a frame.
LEMMA TopIsFrame ==
    ASSUME StackOK, Busy
    PROVE  Len(stack) \in Nat \ {0} /\ Top \in Frame /\ Top = stack[Len(stack)]
  BY DEF StackOK, Busy, Top, Last

\* Lemma: calls at the points of synchronize_memory are calls of it, and so on.
LEMMA FrameKinds ==
    ASSUME NEW f \in Frame
    PROVE  /\ f.call = "sync" => f \in SyncFrames
           /\ f.call = "forget" => f \in ForgetFrames
           /\ f.call = "all" => f \in AllFrames
           /\ f.at \notin Direct => f.call \in {"sync", "forget"} /\ f.key \in EntityIds
           /\ f.call \in {"sync", "forget", "all"}
  BY DEF Frame, SyncFrames, ForgetFrames, AllFrames, Linking, Direct

\* Lemma: a new call is pushed.
LEMMA PushFrame ==
    ASSUME StackOK, NEW f \in Frame, stack' = Append(stack, f)
    PROVE  StackOK' /\ Pushed(f)
  BY DEF StackOK, Pushed, SameWork

\* Lemma: the innermost call is replaced.
LEMMA ChangeFrame ==
    ASSUME StackOK, Busy, NEW f \in Frame, stack' = [stack EXCEPT ![Len(stack)] = f]
    PROVE  StackOK' /\ Changed(f)
  BY TopIsFrame DEF StackOK, Changed

\* Lemma: the innermost call ends, whether it returns or raises.
LEMMA PopFrame ==
    ASSUME StackOK, Busy, Return \/ Unwind
    PROVE  StackOK' /\ Popped
<1> DEFINE n == Len(stack) - 1
<1>1. Len(stack) \in Nat \ {0} /\ n \in Nat /\ Front(stack) = SubSeq(stack, 1, n)
  BY TopIsFrame DEF Front
<1>2. /\ Front(stack) \in Seq(Frame) /\ Len(Front(stack)) = n
      /\ \A i \in 1 .. n : Front(stack)[i] = stack[i]
  <2>1. \A i \in 1 .. n : stack[i] \in Frame
    BY <1>1 DEF StackOK
  <2> HIDE DEF n
  <2>2. SubSeq(stack, 1, n) \in Seq(Frame)
    BY <1>1, <2>1, SubSeqProperties
  <2>3. Len(SubSeq(stack, 1, n)) = IF 1 <= n THEN n - 1 + 1 ELSE 0
    BY <1>1, <2>1, SubSeqProperties
  <2>4. \A i \in 1 .. n - 1 + 1 : SubSeq(stack, 1, n)[i] = stack[1 + i - 1]
    BY <1>1, <2>1, SubSeqProperties
  <2> QED BY <1>1, <2>1, <2>2, <2>3, <2>4
<1>3. CASE stack' = Front(stack)
  BY <1>1, <1>2, <1>3 DEF StackOK, Popped, SameWork
<1>4. ASSUME Front(stack) # << >>, Last(Front(stack)).at = "calling",
             stack' = [Front(stack) EXCEPT ![n].at = "raised"]
      PROVE  StackOK' /\ Popped
  <2>1. n \in 1 .. n /\ Last(Front(stack)) = stack[n] /\ stack[n] \in Frame
    BY <1>1, <1>2, <1>4 DEF Last
  <2>2. stack[n] \in AllFrames
    BY <1>4, <2>1 DEF Frame, SyncFrames, ForgetFrames, Linking
  <2> DEFINE f == [stack[n] EXCEPT !.at = "raised"]
  <2>3. f \in AllFrames /\ f.call = "all" /\ stack[n].call = "all"
    BY <2>2 DEF AllFrames
  <2>4. stack' = [Front(stack) EXCEPT ![n] = f]
    BY <1>2, <1>4, <2>1
  <2> HIDE DEF f, n
  <2>5. stack' \in Seq(Frame) /\ Len(stack') = n
    BY <1>1, <1>2, <2>1, <2>3, <2>4 DEF Frame
  <2>6. \A i \in 1 .. n : SameWork(stack[i], stack'[i])
    <3>1. stack'[n] = f /\ \A i \in 1 .. n : i # n => stack'[i] = Front(stack)[i]
      <4>1. DOMAIN Front(stack) = 1 .. n
        BY <1>1, <1>2
      <4> QED BY <2>1, <2>4, <4>1
    <3> QED BY <1>2, <2>3, <3>1 DEF SameWork
  <2> QED BY <1>1, <2>5, <2>6 DEF StackOK, Popped, n
<1> QED BY <1>2, <1>3, <1>4 DEF Return, Unwind, Unwound

-----------------------------------------------------------------------------
(* Types, and what the integration does to the graph *)

TypeInv == StackOK /\ DataOK

\* Lemma: beginning to synchronise k, from outside or from synchronize_all, opens a
\* call, after one change of the graph.
LEMMA BeginSyncStep ==
    ASSUME ConstantsFit, TypeInv, NEW k \in EntityIds, NEW below, BeginSync(k, below),
           below \in Seq(Frame), Len(below) = Len(stack),
           \A i \in 1 .. Len(stack) : SameWork(stack[i], below[i])
    PROVE  /\ TypeInv' /\ GraphNext
           /\ \E f \in SyncFrames :
                 /\ Pushed(f) /\ f.key = k
                 /\ \/ f.at = "ENTITY_REMOVED" /\ RemoveEntity(k)
                    \/ \E content \in Contents : f.at = "ENTITY_ADDED" /\ AddEntity(k, content)
<1>1. /\ memory[k].edition \in Contents /\ memory[k].related \in Seq(EntityIds)
  BY DEF BeginSync, CanSync, Remembers, TypeInv, DataOK, ConstantsFit
<1>2. SyncFrame(k, "ENTITY_REMOVED") \in SyncFrames /\ SyncFrame(k, "ENTITY_ADDED") \in SyncFrames
  BY <1>1 DEF SyncFrame, SyncFrames
<1>3. PICK point \in {"ENTITY_REMOVED", "ENTITY_ADDED"} :
         /\ stack' = Append(below, SyncFrame(k, point))
         /\ \/ point = "ENTITY_REMOVED" /\ RemoveEntity(k)
            \/ point = "ENTITY_ADDED" /\ AddEntity(k, memory[k].edition)
  BY DEF BeginSync
<1> DEFINE f == SyncFrame(k, point)
<1>4. f \in SyncFrames /\ f \in Frame /\ f.key = k /\ f.at = point
  BY <1>2 DEF SyncFrame, Frame
<1> HIDE DEF f
<1>5. StackOK' /\ Pushed(f)
  BY <1>3, <1>4 DEF StackOK, Pushed, TypeInv, f
<1>6. DataOK'
  BY <1>3 DEF BeginSync, TypeInv, DataOK, Outside, DisturbIfWorking, Disturb, RemoveEntity,
     AddEntity, Present
<1>7. GraphNext
  BY <1>1, <1>3 DEF GraphNext
<1> QED BY <1>1, <1>3, <1>4, <1>5, <1>6, <1>7 DEF TypeInv

\* Lemma: a synchronization moves on to a point.
LEMMA MoveSync ==
    ASSUME StackOK, NEW points, TopIs("sync", points), NEW f \in SyncFrames,
           f.key = Top.key, stack' = [stack EXCEPT ![Len(stack)] = f]
    PROVE  StackOK' /\ Changed(f) /\ Top \in SyncFrames
<1>1. Busy /\ Top.call = "sync" /\ f \in Frame
  BY DEF TopIs, Frame
<1> QED BY <1>1, ChangeFrame, TopIsFrame, FrameKinds

LEMMA GotoSync ==
    ASSUME StackOK, NEW points, TopIs("sync", points), NEW point, Goto(point),
           point \in {"ENTITY_REMOVED", "ENTITY_ADDED", "MEMORY_MAPPING_FAILED"} \union Linking
    PROVE  \E f \in SyncFrames : /\ f.key = Top.key /\ f.at = point
                                 /\ StackOK' /\ Changed(f) /\ Top \in SyncFrames
<1> DEFINE f == [Top EXCEPT !.at = point]
<1>1. Top \in SyncFrames /\ Len(stack) \in Nat \ {0} /\ Top = stack[Len(stack)]
  BY TopIsFrame, FrameKinds DEF TopIs
<1>2. f \in SyncFrames /\ f.key = Top.key /\ f.at = point
  BY <1>1 DEF SyncFrames
<1>3. stack' = [stack EXCEPT ![Len(stack)] = f]
  BY <1>1 DEF Goto
<1> HIDE DEF f
<1> QED BY <1>2, <1>3, MoveSync

\* Lemma: it makes its next link, or fails to.
LEMMA LinkStep ==
    ASSUME ConstantsFit, TypeInv, Link
    PROVE  /\ TypeInv' /\ [GraphNext]_graphVars /\ UNCHANGED entities
           /\ \E f \in SyncFrames : /\ f.key = Top.key /\ f.at \in Linking
                                   /\ Changed(f) /\ Top \in SyncFrames
<1>1. /\ Top \in SyncFrames /\ Len(stack) \in Nat \ {0} /\ Top = stack[Len(stack)]
      /\ TopIs("sync", Linking) /\ Top.left # << >>
  BY TopIsFrame, FrameKinds DEF Link, TopIs, TypeInv
<1>2. Head(Top.left) \in EntityIds /\ Tail(Top.left) \in Seq(EntityIds) /\ Top.key \in EntityIds
  BY <1>1 DEF SyncFrames
<1>3. PICK point \in Linking : stack' = [NextLink EXCEPT ![Len(stack)].at = point]
  BY DEF Link, Linking
<1> DEFINE g == [Top EXCEPT !.left = Tail(@)]
           f == [g EXCEPT !.at = point]
<1>4. g \in SyncFrames /\ g.key = Top.key
  BY <1>1, <1>2 DEF SyncFrames
<1>5. f \in SyncFrames /\ f.key = Top.key /\ f.at = point
  <2> HIDE DEF g
  <2> QED BY <1>4 DEF SyncFrames
<1>6. stack' = [stack EXCEPT ![Len(stack)] = f]
  <2>1. NextLink = [stack EXCEPT ![Len(stack)] = g]
    BY <1>1 DEF NextLink
  <2>2. Len(stack) \in DOMAIN stack
    BY <1>1 DEF TypeInv, StackOK
  <2> HIDE DEF g
  <2> QED BY <1>3, <2>1, <2>2
<1> HIDE DEF f, g
<1>7. StackOK' /\ Changed(f)
  BY <1>1, <1>5, <1>6, MoveSync DEF TypeInv
<1>8. UNCHANGED entities /\ [GraphNext]_graphVars
  <2>1. CASE UNCHANGED graphVars
    BY <2>1 DEF graphVars
  <2>2. ASSUME NEW free, free = RelationshipIds \ RelatedIds, free # {},
               AddRelationship([id |-> CHOOSE id \in free : TRUE, source |-> Top.key,
                                target |-> Head(Top.left), type |-> "related_to"])
        PROVE  UNCHANGED entities /\ GraphNext
    <3>1. (CHOOSE id \in free : TRUE) \in RelationshipIds
      BY <2>2
    <3> DEFINE r == [id |-> CHOOSE id \in free : TRUE, source |-> Top.key,
                     target |-> Head(Top.left), type |-> "related_to"]
    <3>2. r \in Relationship
      BY <1>2, <3>1 DEF Relationship, ConstantsFit
    <3>3. AddRelationship(r)
      BY <2>2
    <3> HIDE DEF r
    <3> QED BY <3>2, <3>3 DEF GraphNext, AddRelationship
  <2> QED BY <2>1, <2>2 DEF Link
<1>9. DataOK'
  BY <1>8 DEF Link, Books, Outside, TypeInv, DataOK, Present
<1> QED BY <1>1, <1>5, <1>7, <1>8, <1>9 DEF TypeInv

\* Lemma: synchronize_all takes its next key.
LEMMA SyncNextStep ==
    ASSUME ConstantsFit, TypeInv, NEW k \in EntityIds, SyncNext(k)
    PROVE  LET here == [stack EXCEPT ![Len(stack)].keys = @ \ {k}, ![Len(stack)].at = "calling"]
           IN  /\ here \in Seq(Frame) /\ Len(here) = Len(stack)
               /\ \A i \in 1 .. Len(stack) : SameWork(stack[i], here[i])
<1> DEFINE here == [stack EXCEPT ![Len(stack)].keys = @ \ {k}, ![Len(stack)].at = "calling"]
           g == [Top EXCEPT !.keys = @ \ {k}]
           f == [g EXCEPT !.at = "calling"]
<1>1. Top \in AllFrames /\ Len(stack) \in Nat \ {0} /\ Top = stack[Len(stack)]
  BY TopIsFrame, FrameKinds DEF SyncNext, TopIs, TypeInv
<1>2. g \in AllFrames
  BY <1>1 DEF AllFrames
<1>3. f \in AllFrames /\ f \in Frame
  <2> HIDE DEF g
  <2> QED BY <1>2 DEF AllFrames, Frame
<1>4. here = [stack EXCEPT ![Len(stack)] = f]
  BY <1>1 DEF TypeInv, StackOK
<1>5. f.call = "all" /\ Top.call = "all"
  BY <1>1, <1>3 DEF AllFrames
<1> HIDE DEF f, g, here
<1>6. /\ here \in Seq(Frame) /\ Len(here) = Len(stack) /\ here[Len(stack)] = f
      /\ \A i \in 1 .. Len(stack) : i # Len(stack) => here[i] = stack[i]
  BY <1>1, <1>3, <1>4 DEF TypeInv, StackOK
<1>7. \A i \in 1 .. Len(stack) : SameWork(stack[i], here[i])
  BY <1>1, <1>5, <1>6 DEF SameWork
<1> QED BY <1>6, <1>7 DEF here

\* Lemma: every step keeps the types, and uses the graph by its operations.
LEMMA TypeStep ==
    ASSUME ConstantsFit, TypeInv, [IntegrationNext]_integrationVars
    PROVE  TypeInv' /\ [GraphNext]_graphVars
<1> USE DEF TypeInv
<1>1. ASSUME NEW from, NEW to \in {"INITIALIZING", "RUNNING", "STOPPED"},
             ShiftIntegration(from, to)
      PROVE  TypeInv' /\ [GraphNext]_graphVars
  BY <1>1 DEF ShiftIntegration, Books, graphVars, StackOK, DataOK, Present
<1>2. ASSUME NEW k \in EntityIds, NEW related \in Related, Remember(k, related)
      PROVE  TypeInv' /\ [GraphNext]_graphVars
  <2> DEFINE new == [edition |-> stored', related |-> related]
  <2>1. stored' \in 0 .. MaxStored
    BY <1>2 DEF Remember, DataOK, ConstantsFit
  <2>2. new \in [edition : 0 .. MaxStored, related : Related]
    BY <2>1
  <2>3. memory' = [j \in DOMAIN memory \union {k} |-> IF j = k THEN new ELSE memory[j]]
    BY <1>2 DEF Remember
  <2> HIDE DEF new
  <2>4. /\ memory' \in [DOMAIN memory' -> [edition : 0 .. MaxStored, related : Related]]
        /\ DOMAIN memory' \subseteq EntityIds
    BY <2>2, <2>3 DEF DataOK
  <2> QED BY <1>2, <2>1, <2>4 DEF Remember, Books, graphVars, StackOK, DataOK, Present
<1>3. ASSUME NEW k \in EntityIds, ForgetRecord(k)
      PROVE  TypeInv' /\ [GraphNext]_graphVars
  <2>1. /\ memory' \in [DOMAIN memory' -> [edition : 0 .. MaxStored, related : Related]]
        /\ DOMAIN memory' \subseteq EntityIds
    BY <1>3 DEF ForgetRecord, DataOK
  <2> QED BY <1>3, <2>1 DEF ForgetRecord, Books, graphVars, StackOK, DataOK, Present
<1>4. ASSUME NEW k \in EntityIds, ChangeGraph(k)
      PROVE  TypeInv' /\ [GraphNext]_graphVars
  <2>1. GraphNext
    BY <1>4 DEF ChangeGraph, GraphNext, ConstantsFit
  <2> QED BY <1>4, <2>1 DEF ChangeGraph, Disturb, Outside, StackOK, DataOK, Present,
             AddEntity, RemoveEntity
<1>5. CASE Reset
  BY <1>5 DEF Reset, Outside, graphVars, StackOK, DataOK, Present
<1>6. ASSUME NEW k \in EntityIds, SynchronizeMemory(k)
      PROVE  TypeInv' /\ [GraphNext]_graphVars
  BY <1>6, BeginSyncStep DEF SynchronizeMemory, StackOK, SameWork
<1>7. ASSUME NEW k \in EntityIds, SyncNext(k)
      PROVE  TypeInv' /\ [GraphNext]_graphVars
  <2> DEFINE here == [stack EXCEPT ![Len(stack)].keys = @ \ {k}, ![Len(stack)].at = "calling"]
  <2>1. /\ here \in Seq(Frame) /\ Len(here) = Len(stack)
        /\ \A i \in 1 .. Len(stack) : SameWork(stack[i], here[i])
    BY <1>7, SyncNextStep
  <2>2. \/ BeginSync(k, here)
        \/ stack' = here /\ Outside /\ UNCHANGED <<graphVars, Books>>
    BY <1>7 DEF SyncNext
  <2> HIDE DEF here
  <2>3. CASE BeginSync(k, here)
    BY <2>1, <2>3, BeginSyncStep
  <2>4. CASE stack' = here /\ Outside /\ UNCHANGED <<graphVars, Books>>
    BY <2>1, <2>4 DEF StackOK, DataOK, Outside, graphVars, Books, Present
  <2> QED BY <2>2, <2>3, <2>4
<1>8. ASSUME NEW k \in EntityIds, RemoveMemory(k)
      PROVE  TypeInv' /\ [GraphNext]_graphVars
  <2>1. [call |-> "forget", key |-> k, at |-> "ENTITY_REMOVED"] \in Frame
    BY DEF Frame, ForgetFrames
  <2>2. StackOK'
    BY <1>8, <2>1, PushFrame DEF RemoveMemory, Enter, Opened, StackOK
  <2>3. [GraphNext]_graphVars
    BY <1>8 DEF RemoveMemory, GraphNext
  <2> QED BY <1>8, <2>2, <2>3 DEF RemoveMemory, DropFromBooks, DisturbIfWorking, Disturb,
             RemoveEntity, Outside, DataOK, Present, graphVars
<1>9. CASE AddUpdated
  <2>1. StackOK' /\ Top \in SyncFrames
    BY <1>9, GotoSync DEF AddUpdated
  <2>2. GraphNext
    BY <1>9, <2>1 DEF AddUpdated, GraphNext, SyncFrames
  <2> QED BY <1>9, <2>1, <2>2 DEF AddUpdated, AddEntity, Outside, Books, DataOK, Present,
             SyncFrames
<1>10. CASE MappingFails
  <2>1. StackOK' /\ Top \in SyncFrames
    BY <1>10, GotoSync DEF MappingFails
  <2> QED BY <1>10, <2>1 DEF MappingFails, Disturb, Outside, DataOK, Present, SyncFrames, graphVars
<1>11. CASE MappingSucceeds
  <2>1. StackOK' /\ Top \in SyncFrames
    BY <1>11, GotoSync DEF MappingSucceeds, Linking
  <2> QED BY <1>11, <2>1 DEF MappingSucceeds, Outside, DataOK, Present, SyncFrames, graphVars
<1>12. CASE Link
  BY <1>12, LinkStep
<1>13. CASE SyncReturns \/ SyncRaises
  BY <1>13, PopFrame DEF SyncReturns, SyncRaises, TopIs, Outside, Books, DataOK, Present, graphVars
<1>14. CASE Cut
  <2>1. StackOK' /\ Top.key \in EntityIds
    BY <1>14, PopFrame, TopIsFrame, FrameKinds DEF Cut, HostRuns
  <2> QED BY <1>14, <2>1 DEF Cut, Disturb, Outside, DataOK, Present, graphVars
<1>15. CASE SynchronizeAll
  <2>1. [call |-> "all", keys |-> DOMAIN memory, at |-> "calling"] \in Frame
    BY DEF Frame, AllFrames, DataOK
  <2>2. StackOK'
    BY <1>15, <2>1, PushFrame DEF SynchronizeAll, Enter, Opened
  <2> QED BY <1>15, <2>2 DEF SynchronizeAll, Outside, Books, DataOK, Present, graphVars
<1>16. CASE AllReturns
  <2>1. StackOK'
    BY <1>16, PopFrame DEF AllReturns, TopIs
  <2> QED BY <1>16, <2>1 DEF AllReturns, Outside, Books, DataOK, Present, graphVars
<1>17. CASE EntityForgotten
  <2>1. StackOK'
    BY <1>17, PopFrame DEF EntityForgotten, TopIs
  <2> QED BY <1>17, <2>1 DEF EntityForgotten, DropFromBooks, Outside, DataOK, Present, graphVars
<1>18. CASE UNCHANGED integrationVars
  BY <1>18 DEF integrationVars, graphVars, StackOK, DataOK, Present
<1> QED BY <1>1, <1>2, <1>3, <1>4, <1>5, <1>6, <1>7, <1>8, <1>9, <1>10, <1>11, <1>12, <1>13,
           <1>14, <1>15, <1>16, <1>17, <1>18
        DEF IntegrationNext, InitializeIntegration, StartIntegration, StopIntegration, MemoryKeys

LEMMA TypeHolds == ASSUME ConstantsFit PROVE IntegrationSpec => []TypeInv
<1>1. IntegrationInit => TypeInv
  BY DEF IntegrationInit, GraphInit, TypeInv, StackOK, DataOK, Present, ConstantsFit
<1> QED BY <1>1, TypeStep, PTL DEF IntegrationSpec

\* Theorem: the integration touches the graph by the graph's own operations only, one
\* in a step, so whatever is proved of the graph holds under it.
THEOREM IntegrationUsesGraph == ASSUME ConstantsFit PROVE IntegrationSpec => GraphSpec
<1>1. IntegrationInit => GraphInit
  BY DEF IntegrationInit
<1> QED BY <1>1, TypeHolds, TypeStep, PTL DEF IntegrationSpec, GraphSpec

\* Theorem: in particular, the relationships of an entity that a synchronization replaces
\* go before the entity comes back, and every link it makes has both of its ends.
THEOREM SynchronizedGraphIsSound ==
    ASSUME ConstantsFit PROVE IntegrationSpec => []GraphIsSound
BY IntegrationUsesGraph, GraphStaysSound, PTL

-----------------------------------------------------------------------------
(* The books of the integration *)

Works(i, k) ==
    i \in DOMAIN stack /\ stack[i].call \in {"sync", "forget"} /\ stack[i].key = k

\* What a call that nobody disturbs has brought about, by the point it has reached.
InPlace(f, k) ==
    /\ f.at = "ENTITY_REMOVED" => k \notin Present
    /\ f.at = "ENTITY_ADDED" => k \in Present
    /\ f.at \in Linking => k \in Present /\ k \in synchronized
    /\ f.at # "MEMORY_MAPPING_FAILED"

\* A key that nobody disturbed has one call at most that works on it, and that one has
\* done what its point says; without a call, books and graph agree on the key.
BookOK(k) ==
    k \notin disturbed =>
        /\ \A i, j \in DOMAIN stack : Works(i, k) /\ Works(j, k) => i = j
        /\ \A i \in DOMAIN stack : Works(i, k) => InPlace(stack[i], k)
        /\ (\A i \in DOMAIN stack : ~ Works(i, k)) => (k \in synchronized <=> k \in Present)

BooksOK ==
    /\ synchronized \intersect failed = {}
    /\ \A k \in EntityIds : BookOK(k)

\* Lemma: a key keeps its books in a step that is not about it.
LEMMA BookKept ==
    ASSUME NEW k, BookOK(k), disturbed \subseteq disturbed',
           k \in Present' <=> k \in Present, k \in synchronized' <=> k \in synchronized,
           \A i \in DOMAIN stack' : Works(i, k)' => Works(i, k) /\ stack'[i] = stack[i],
           \A i \in DOMAIN stack : Works(i, k) => Works(i, k)'
    PROVE  BookOK(k)'
<1> SUFFICES ASSUME k \notin disturbed'
             PROVE  /\ \A i, j \in DOMAIN stack' : Works(i, k)' /\ Works(j, k)' => i = j
                    /\ \A i \in DOMAIN stack' : Works(i, k)' => InPlace(stack[i], k)'
                    /\ (\A i \in DOMAIN stack' : ~ Works(i, k)') =>
                           (k \in synchronized' <=> k \in Present')
  BY DEF BookOK
<1>1. k \notin disturbed
  OBVIOUS
<1>2. \A i, j \in DOMAIN stack' : Works(i, k)' /\ Works(j, k)' => i = j
  BY <1>1 DEF BookOK, Works
<1>3. \A i \in DOMAIN stack' : Works(i, k)' => InPlace(stack[i], k)'
  BY <1>1 DEF BookOK, Works, InPlace
<1>4. (\A i \in DOMAIN stack' : ~ Works(i, k)') => (\A i \in DOMAIN stack : ~ Works(i, k))
  BY DEF Works
<1> QED BY <1>1, <1>2, <1>3, <1>4 DEF BookOK

\* Lemma: and when the calls that work on keys do not change.
LEMMA WorkStays ==
    ASSUME StackOK, StackOK', Len(stack') = Len(stack),
           \A i \in 1 .. Len(stack) : SameWork(stack[i], stack'[i]), NEW k
    PROVE  /\ \A i \in DOMAIN stack' : Works(i, k)' => Works(i, k) /\ stack'[i] = stack[i]
           /\ \A i \in DOMAIN stack : Works(i, k) => Works(i, k)'
<1>1. DOMAIN stack = 1 .. Len(stack) /\ DOMAIN stack' = 1 .. Len(stack)
  BY DEF StackOK
<1> QED BY <1>1 DEF Works, SameWork

\* Lemma: what a new call means for the calls that work on a key ...
LEMMA WorkPushed ==
    ASSUME StackOK, StackOK', NEW f, Pushed(f), NEW k
    PROVE  /\ Len(stack') \in DOMAIN stack' /\ stack'[Len(stack')] = f
           /\ \A i \in DOMAIN stack' : Works(i, k)' =>
                  i = Len(stack') \/ (Works(i, k) /\ stack'[i] = stack[i])
           /\ \A i \in DOMAIN stack : Works(i, k) => Works(i, k)'
           /\ f.call \in {"sync", "forget"} /\ f.key = k => Works(Len(stack), k)'
           /\ Works(Len(stack), k)' => f.key = k
<1>1. /\ Len(stack) \in Nat /\ DOMAIN stack = 1 .. Len(stack)
      /\ DOMAIN stack' = 1 .. Len(stack') /\ Len(stack') = Len(stack) + 1
  BY DEF StackOK, Pushed
<1> QED BY <1>1 DEF Works, SameWork, Pushed

\* ... a move of the innermost one ...
LEMMA WorkMoved ==
    ASSUME StackOK, StackOK', NEW f, Changed(f), Top.call \in {"sync", "forget"},
           f.call = Top.call, f.key = Top.key, NEW k
    PROVE  /\ Len(stack) \in DOMAIN stack' /\ stack'[Len(stack)] = f
           /\ Len(stack) \in DOMAIN stack /\ Top = stack[Len(stack)]
           /\ \A i : Works(i, k)' <=> Works(i, k)
           /\ \A i \in DOMAIN stack' : i # Len(stack) => stack'[i] = stack[i]
           /\ Works(Len(stack), k) <=> Top.key = k
<1>1. /\ Len(stack) \in Nat \ {0} /\ DOMAIN stack = 1 .. Len(stack)
      /\ DOMAIN stack' = 1 .. Len(stack)
  BY DEF StackOK, Changed
<1>2. Top = stack[Len(stack)] /\ stack'[Len(stack)] = f
  BY DEF Top, Last, Changed
<1>3. \A i \in DOMAIN stack' : i # Len(stack) => stack'[i] = stack[i]
  BY <1>1 DEF Changed
<1> QED BY <1>1, <1>2, <1>3 DEF Works

\* ... and its end.
LEMMA WorkPopped ==
    ASSUME StackOK, StackOK', Popped, NEW k
    PROVE  /\ Len(stack) \in DOMAIN stack /\ Top = stack[Len(stack)]
           /\ \A i \in DOMAIN stack' : Works(i, k)' =>
                  Works(i, k) /\ stack'[i] = stack[i] /\ i # Len(stack)
           /\ \A i \in DOMAIN stack : Works(i, k) /\ i # Len(stack) => Works(i, k)'
           /\ Works(Len(stack), k) <=> Top.call \in {"sync", "forget"} /\ Top.key = k
<1>1. /\ Len(stack) \in Nat \ {0} /\ DOMAIN stack = 1 .. Len(stack)
      /\ DOMAIN stack' = 1 .. Len(stack) - 1
  BY DEF StackOK, Popped
<1> QED BY <1>1 DEF Works, SameWork, Popped, Top, Last

\* What a step about k leaves alone.
OnlyAbout(k) ==
    /\ disturbed \subseteq disturbed'
    /\ \A j \in EntityIds : j # k =>
          (j \in Present' <=> j \in Present) /\ (j \in synchronized' <=> j \in synchronized)

\* Lemma: a call that begins to work on a key is alone, or the key is disturbed.
LEMMA BooksBegin ==
    ASSUME TypeInv, TypeInv', BooksOK, NEW k \in EntityIds, OnlyAbout(k),
           synchronized' \intersect failed' = {},
           NEW f, Pushed(f), f.call \in {"sync", "forget"}, f.key = k, InPlace(f, k)',
           k \in disturbed' \/ \A i \in DOMAIN stack : ~ Works(i, k)
    PROVE  BooksOK'
<1>1. PICK m : m = Len(stack')
  OBVIOUS
<1>2. ASSUME NEW j \in EntityIds
      PROVE  /\ m \in DOMAIN stack' /\ stack'[m] = f
             /\ \A i \in DOMAIN stack' : Works(i, j)' =>
                    i = m \/ (Works(i, j) /\ stack'[i] = stack[i])
             /\ \A i \in DOMAIN stack : Works(i, j) => Works(i, j)'
             /\ f.key = j => Works(m, j)'
             /\ Works(m, j)' => f.key = j
  BY <1>1, WorkPushed DEF TypeInv
<1>3. ASSUME NEW j \in EntityIds, j # k
      PROVE  BookOK(j)'
  BY <1>2, <1>3, BookKept DEF OnlyAbout, BooksOK
<1>4. BookOK(k)'
  <2> SUFFICES ASSUME k \notin disturbed'
               PROVE  /\ \A i, j \in DOMAIN stack' : Works(i, k)' /\ Works(j, k)' => i = j
                      /\ \A i \in DOMAIN stack' : Works(i, k)' => InPlace(stack[i], k)'
                      /\ ~ \A i \in DOMAIN stack' : ~ Works(i, k)'
    BY DEF BookOK
  <2>1. \A i \in DOMAIN stack' : Works(i, k)' => i = m
    BY <1>2 DEF Works
  <2>2. stack[m]' = f /\ Works(m, k)' /\ m \in DOMAIN stack'
    BY <1>2
  <2>3. InPlace(stack[m], k)'
    BY <2>2 DEF InPlace
  <2> QED BY <2>1, <2>2, <2>3
<1> QED BY <1>3, <1>4 DEF BooksOK

\* Lemma: the innermost call moves on, and has done what its new point says.
LEMMA BooksMove ==
    ASSUME TypeInv, TypeInv', BooksOK, NEW k \in EntityIds, OnlyAbout(k),
           synchronized' \intersect failed' = {},
           NEW f, Changed(f), f.call = Top.call, f.call \in {"sync", "forget"},
           f.key = k, Top.key = k, k \in disturbed' \/ InPlace(f, k)'
    PROVE  BooksOK'
<1>1. PICK m : m = Len(stack)
  OBVIOUS
<1>2. \A j \in EntityIds :
         /\ m \in DOMAIN stack' /\ stack'[m] = f
         /\ m \in DOMAIN stack /\ Top = stack[m]
         /\ \A i : Works(i, j)' <=> Works(i, j)
         /\ \A i \in DOMAIN stack' : i # m => stack'[i] = stack[i]
         /\ Works(m, j) <=> Top.key = j
  BY <1>1, WorkMoved DEF TypeInv
<1>3. ASSUME NEW j \in EntityIds, j # k
      PROVE  BookOK(j)'
  <2>1. \A i \in DOMAIN stack' : Works(i, j)' => Works(i, j) /\ stack'[i] = stack[i]
    BY <1>2, <1>3
  <2> QED BY <1>2, <1>3, <2>1, BookKept DEF OnlyAbout, BooksOK
<1>4. BookOK(k)'
  <2> SUFFICES ASSUME k \notin disturbed'
               PROVE  /\ \A i, j \in DOMAIN stack' : Works(i, k)' /\ Works(j, k)' => i = j
                      /\ \A i \in DOMAIN stack' : Works(i, k)' => InPlace(stack[i], k)'
                      /\ ~ \A i \in DOMAIN stack' : ~ Works(i, k)'
    BY DEF BookOK
  <2>1. Works(m, k)' /\ Works(m, k) /\ m \in DOMAIN stack' /\ stack[m]' = f
    BY <1>2
  <2>2. \A i \in DOMAIN stack' : Works(i, k)' => i = m
    BY <1>2, <2>1 DEF BooksOK, BookOK, OnlyAbout, Works
  <2>3. InPlace(stack[m], k)'
    BY <2>1 DEF InPlace
  <2> QED BY <2>1, <2>2, <2>3
<1> QED BY <1>3, <1>4 DEF BooksOK

\* Lemma: a call that ends leaves books and graph in agreement.
LEMMA BooksEnd ==
    ASSUME TypeInv, TypeInv', BooksOK, NEW k \in EntityIds, OnlyAbout(k),
           synchronized' \intersect failed' = {},
           Popped, Top.call \in {"sync", "forget"}, Top.key = k,
           k \in disturbed' \/ (k \in synchronized' <=> k \in Present')
    PROVE  BooksOK'
<1>1. PICK m : m = Len(stack)
  OBVIOUS
<1>2. \A j \in EntityIds :
         /\ m \in DOMAIN stack /\ Top = stack[m]
         /\ \A i \in DOMAIN stack' : Works(i, j)' =>
                  Works(i, j) /\ stack'[i] = stack[i] /\ i # m
         /\ \A i \in DOMAIN stack : Works(i, j) /\ i # m => Works(i, j)'
         /\ Works(m, j) <=> Top.call \in {"sync", "forget"} /\ Top.key = j
  BY <1>1, WorkPopped DEF TypeInv
<1>3. ASSUME NEW j \in EntityIds, j # k
      PROVE  BookOK(j)'
  <2>1. \A i \in DOMAIN stack : Works(i, j) => Works(i, j)'
    BY <1>2, <1>3
  <2> QED BY <1>2, <1>3, <2>1, BookKept DEF OnlyAbout, BooksOK
<1>4. BookOK(k)'
  <2> SUFFICES ASSUME k \notin disturbed'
               PROVE  \A i \in DOMAIN stack' : ~ Works(i, k)'
    BY DEF BookOK
  <2>1. Works(m, k) /\ m \in DOMAIN stack
    BY <1>2
  <2> QED BY <1>2, <2>1 DEF BooksOK, BookOK, OnlyAbout, Works
<1> QED BY <1>3, <1>4 DEF BooksOK

\* Lemma: what operations on the entity of k do to the entities there are.
LEMMA EntityOfOne ==
    ASSUME NEW k, NEW content
    PROVE  /\ RemoveEntity(k) => Present' = Present \ {k}
           /\ AddEntity(k, content) => k \notin Present /\ Present' = Present \union {k}
  BY DEF RemoveEntity, AddEntity, Present

LEMMA BooksBeginSync ==
    ASSUME ConstantsFit, TypeInv, TypeInv', BooksOK, NEW k \in EntityIds, NEW below,
           BeginSync(k, below), below \in Seq(Frame), Len(below) = Len(stack),
           \A i \in 1 .. Len(stack) : SameWork(stack[i], below[i])
    PROVE  BooksOK'
<1>1. PICK f \in SyncFrames :
         /\ Pushed(f) /\ f.key = k
         /\ \/ f.at = "ENTITY_REMOVED" /\ RemoveEntity(k)
            \/ \E content \in Contents : f.at = "ENTITY_ADDED" /\ AddEntity(k, content)
  BY BeginSyncStep
<1>2. /\ f.call \in {"sync", "forget"}
      /\ \/ f.at = "ENTITY_REMOVED" /\ Present' = Present \ {k}
         \/ f.at = "ENTITY_ADDED" /\ Present' = Present \union {k}
  BY <1>1, EntityOfOne DEF SyncFrames
<1>3. UNCHANGED <<synchronized, failed>> /\ DisturbIfWorking(k)
  BY DEF BeginSync
<1>4. k \in disturbed' \/ \A i \in DOMAIN stack : ~ Works(i, k)
  BY <1>3 DEF DisturbIfWorking, Disturb, Working, Works
<1>5. OnlyAbout(k)
  BY <1>2, <1>3 DEF OnlyAbout, DisturbIfWorking, Disturb
<1>6. InPlace(f, k)'
  BY <1>2 DEF InPlace, Linking
<1>7. synchronized' \intersect failed' = {}
  BY <1>3 DEF BooksOK
<1> QED BY <1>1, <1>2, <1>4, <1>5, <1>6, <1>7, BooksBegin

LEMMA BooksSync ==
    ASSUME ConstantsFit, TypeInv, TypeInv', BooksOK,
           AddUpdated \/ MappingFails \/ MappingSucceeds \/ Link
    PROVE  BooksOK'
<1> DEFINE k == Top.key
<1>1. /\ Top \in SyncFrames /\ Top = stack[Len(stack)] /\ Len(stack) \in DOMAIN stack
      /\ Top.call = "sync" /\ k \in EntityIds
  <2>1. Top \in SyncFrames /\ Len(stack) \in Nat \ {0} /\ Top = stack[Len(stack)]
    BY TopIsFrame, FrameKinds
       DEF AddUpdated, MappingFails, MappingSucceeds, Link, TopIs, TypeInv
  <2> QED BY <2>1 DEF SyncFrames, TypeInv, StackOK
<1>2. k \notin disturbed => InPlace(Top, k)
  BY <1>1 DEF BooksOK, BookOK, Works
<1>3. PICK e \in EntityIds : e = k
  BY <1>1
<1> HIDE DEF k
<1>4. CASE AddUpdated
  <2>1. PICK f \in SyncFrames : f.key = Top.key /\ f.at = "ENTITY_ADDED" /\ Changed(f)
    BY <1>4, GotoSync DEF AddUpdated, TypeInv
  <2>2. Present' = Present \union {e} /\ UNCHANGED <<synchronized, failed, disturbed>>
    BY <1>3, <1>4, EntityOfOne DEF AddUpdated, Books, k
  <2>3. OnlyAbout(e) /\ InPlace(f, e)' /\ synchronized' \intersect failed' = {}
    BY <2>1, <2>2 DEF OnlyAbout, InPlace, Linking, BooksOK
  <2>4. f.call = Top.call /\ f.call \in {"sync", "forget"} /\ f.key = e /\ Top.key = e
    BY <1>1, <1>3, <2>1 DEF SyncFrames, k
  <2> QED BY <2>1, <2>3, <2>4, BooksMove
<1>5. CASE MappingFails
  <2>1. PICK f \in SyncFrames : f.key = Top.key /\ Changed(f)
    BY <1>5, GotoSync DEF MappingFails, TypeInv
  <2>2. /\ synchronized' = synchronized \ {e} /\ failed' = failed \union {e}
        /\ disturbed \subseteq disturbed' /\ Present' = Present
    BY <1>3, <1>5 DEF MappingFails, Disturb, graphVars, Present, k
  <2>3. e \in disturbed'
    BY <1>2, <1>3, <1>5 DEF MappingFails, Disturb, TopIs, InPlace, k
  <2>4. OnlyAbout(e) /\ synchronized' \intersect failed' = {}
    BY <2>2 DEF OnlyAbout, BooksOK
  <2>5. f.call = Top.call /\ f.call \in {"sync", "forget"} /\ f.key = e /\ Top.key = e
    BY <1>1, <1>3, <2>1 DEF SyncFrames, k
  <2> QED BY <2>1, <2>3, <2>4, <2>5, BooksMove
<1>6. CASE MappingSucceeds
  <2>1. PICK f \in SyncFrames : f.key = Top.key /\ f.at = "MEMORY_SYNCHRONIZED" /\ Changed(f)
    BY <1>6, GotoSync DEF MappingSucceeds, TypeInv, Linking
  <2>2. /\ synchronized' = synchronized \union {e} /\ failed' = failed \ {e}
        /\ disturbed' = disturbed /\ Present' = Present
    BY <1>3, <1>6 DEF MappingSucceeds, graphVars, Present, k
  <2>3. e \notin disturbed => e \in Present
    BY <1>2, <1>3, <1>6 DEF MappingSucceeds, TopIs, InPlace
  <2>4. OnlyAbout(e) /\ synchronized' \intersect failed' = {}
    BY <2>2 DEF OnlyAbout, BooksOK
  <2>5. e \in disturbed' \/ InPlace(f, e)'
    BY <2>1, <2>2, <2>3 DEF InPlace
  <2>6. f.call = Top.call /\ f.call \in {"sync", "forget"} /\ f.key = e /\ Top.key = e
    BY <1>1, <1>3, <2>1 DEF SyncFrames, k
  <2> QED BY <2>1, <2>4, <2>5, <2>6, BooksMove
<1>7. CASE Link
  <2>1. PICK f \in SyncFrames : f.key = Top.key /\ f.at \in Linking /\ Changed(f)
    BY <1>7, LinkStep
  <2>2. UNCHANGED <<synchronized, failed, disturbed>> /\ Present' = Present
    BY <1>7, LinkStep DEF Link, Books, Present
  <2>3. e \notin disturbed => e \in Present /\ e \in synchronized
    BY <1>2, <1>3, <1>7 DEF Link, TopIs, InPlace
  <2>4. OnlyAbout(e) /\ synchronized' \intersect failed' = {}
    BY <2>2 DEF OnlyAbout, BooksOK
  <2>5. e \in disturbed' \/ InPlace(f, e)'
    BY <2>1, <2>2, <2>3 DEF InPlace, Linking
  <2>6. f.call = Top.call /\ f.call \in {"sync", "forget"} /\ f.key = e /\ Top.key = e
    BY <1>1, <1>3, <2>1 DEF SyncFrames, k
  <2> QED BY <2>1, <2>4, <2>5, <2>6, BooksMove
<1> QED BY <1>4, <1>5, <1>6, <1>7

LEMMA BooksReturn ==
    ASSUME ConstantsFit, TypeInv, TypeInv', BooksOK,
           SyncReturns \/ SyncRaises \/ Cut \/ EntityForgotten
    PROVE  BooksOK'
<1> DEFINE k == Top.key
<1>1. Busy /\ (Return \/ Unwind)
  BY DEF SyncReturns, SyncRaises, Cut, EntityForgotten, TopIs
<1>2. /\ Top \in Frame /\ Top = stack[Len(stack)] /\ Len(stack) \in DOMAIN stack
  BY <1>1, TopIsFrame DEF TypeInv, StackOK
<1>3. Top.call \in {"sync", "forget"} /\ k \in EntityIds
  BY <1>1, <1>2, FrameKinds
     DEF SyncReturns, SyncRaises, Cut, EntityForgotten, TopIs, HostRuns, SyncFrames, ForgetFrames
<1>4. k \notin disturbed => InPlace(Top, k)
  BY <1>2, <1>3 DEF BooksOK, BookOK, Works
<1>5. Popped
  BY <1>1, PopFrame DEF TypeInv
<1>6. PICK e \in EntityIds : e = Top.key
  BY <1>3
<1>7. Present' = Present
  BY DEF SyncReturns, SyncRaises, Cut, EntityForgotten, graphVars, Present
<1> HIDE DEF k
<1>8. CASE SyncReturns \/ SyncRaises \/ Cut
  <2>1. UNCHANGED <<synchronized, failed>> /\ disturbed \subseteq disturbed'
    BY <1>8 DEF SyncReturns, SyncRaises, Cut, Books, Disturb
  <2>2. e \in disturbed' \/ (e \in synchronized' <=> e \in Present')
    BY <1>4, <1>6, <1>7, <1>8, <2>1
       DEF SyncReturns, SyncRaises, Cut, TopIs, InPlace, Disturb, k
  <2>3. OnlyAbout(e) /\ synchronized' \intersect failed' = {}
    BY <1>7, <2>1 DEF OnlyAbout, BooksOK
  <2> QED BY <1>3, <1>5, <1>6, <2>2, <2>3, BooksEnd
<1>9. CASE EntityForgotten
  <2>1. /\ synchronized' = synchronized \ {e} /\ failed' = failed \ {e} /\ disturbed' = disturbed
    BY <1>6, <1>9 DEF EntityForgotten, DropFromBooks
  <2>2. e \in disturbed' \/ (e \in synchronized' <=> e \in Present')
    BY <1>4, <1>6, <1>7, <1>9, <2>1 DEF EntityForgotten, TopIs, InPlace, k
  <2>3. OnlyAbout(e) /\ synchronized' \intersect failed' = {}
    BY <1>7, <2>1 DEF OnlyAbout, BooksOK
  <2> QED BY <1>3, <1>5, <1>6, <2>2, <2>3, BooksEnd
<1> QED BY <1>8, <1>9

\* Lemma: a step that changes neither books nor graph nor the calls that work on keys.
LEMMA BooksStay ==
    ASSUME TypeInv, TypeInv', BooksOK, UNCHANGED <<synchronized, failed>>, Present' = Present,
           disturbed \subseteq disturbed', Len(stack') = Len(stack),
           \A i \in 1 .. Len(stack) : SameWork(stack[i], stack'[i])
    PROVE  BooksOK'
<1>1. ASSUME NEW k \in EntityIds
      PROVE  BookOK(k)'
  BY WorkStays, BookKept DEF TypeInv, BooksOK
<1> QED BY <1>1 DEF BooksOK

LEMMA BooksStep ==
    ASSUME ConstantsFit, TypeInv, BooksOK, [IntegrationNext]_integrationVars
    PROVE  BooksOK'
<1>1. TypeInv'
  BY TypeStep
<1>2. CASE \/ InitializeIntegration \/ StartIntegration \/ StopIntegration
           \/ UNCHANGED integrationVars
  BY <1>1, <1>2, BooksStay DEF InitializeIntegration, StartIntegration, StopIntegration,
     ShiftIntegration, integrationVars, Books, graphVars, Present, SameWork
<1>3. ASSUME NEW k \in EntityIds, ForgetRecord(k) \/ \E related \in Related : Remember(k, related)
      PROVE  BooksOK'
  BY <1>1, <1>3, BooksStay DEF ForgetRecord, Remember, Books, graphVars, Present, SameWork
<1>4. ASSUME NEW k \in EntityIds, ChangeGraph(k)
      PROVE  BooksOK'
  <2>1. /\ Present' = Present \ {k} \/ Present' = Present \union {k}
        /\ disturbed' = disturbed \union {k} /\ UNCHANGED <<stack, synchronized, failed>>
    BY <1>4, EntityOfOne DEF ChangeGraph, Disturb
  <2>2. ASSUME NEW j \in EntityIds, j # k
        PROVE  BookOK(j)'
    BY <2>1, <2>2, BookKept DEF BooksOK, Works
  <2>3. BookOK(k)'
    BY <2>1 DEF BookOK
  <2> QED BY <2>1, <2>2, <2>3 DEF BooksOK
<1>5. CASE Reset
  <2>1. /\ synchronized' = {} /\ failed' = {} /\ disturbed' = disturbed \union Present
        /\ Present' = Present /\ UNCHANGED stack
    BY <1>5 DEF Reset, graphVars, Present
  <2>2. ASSUME NEW k \in EntityIds
        PROVE  BookOK(k)'
    BY <2>1 DEF BooksOK, BookOK, Works, InPlace
  <2> QED BY <2>1, <2>2 DEF BooksOK
<1>6. ASSUME NEW k \in EntityIds, SynchronizeMemory(k)
      PROVE  BooksOK'
  BY <1>1, <1>6, BooksBeginSync DEF SynchronizeMemory, TypeInv, StackOK, SameWork
<1>7. ASSUME NEW k \in EntityIds, SyncNext(k)
      PROVE  BooksOK'
  <2> DEFINE here == [stack EXCEPT ![Len(stack)].keys = @ \ {k}, ![Len(stack)].at = "calling"]
  <2>1. /\ here \in Seq(Frame) /\ Len(here) = Len(stack)
        /\ \A i \in 1 .. Len(stack) : SameWork(stack[i], here[i])
    BY <1>7, SyncNextStep
  <2>2. \/ BeginSync(k, here)
        \/ stack' = here /\ Outside /\ UNCHANGED <<graphVars, Books>>
    BY <1>7 DEF SyncNext
  <2> HIDE DEF here
  <2>3. CASE BeginSync(k, here)
    BY <1>1, <2>1, <2>3, BooksBeginSync
  <2>4. CASE stack' = here /\ Outside /\ UNCHANGED <<graphVars, Books>>
    BY <1>1, <2>1, <2>4, BooksStay DEF Books, graphVars, Present
  <2> QED BY <2>2, <2>3, <2>4
<1>8. ASSUME NEW k \in EntityIds, RemoveMemory(k)
      PROVE  BooksOK'
  <2>1. k \in disturbed' \/ \A i \in DOMAIN stack : ~ Works(i, k)
    BY <1>8 DEF RemoveMemory, DisturbIfWorking, Disturb, Working, Works
  <2>2. disturbed' = disturbed \/ disturbed' = disturbed \union {k}
    BY <1>8 DEF RemoveMemory, DisturbIfWorking, Disturb
  <2>3. CASE k \in Present
    <3> DEFINE f == [call |-> "forget", key |-> k, at |-> "ENTITY_REMOVED"]
    <3>1. f.call \in {"sync", "forget"} /\ f.key = k /\ f.at = "ENTITY_REMOVED" /\ f \in Frame
      BY DEF Frame, ForgetFrames
    <3>2. /\ Present' = Present \ {k} /\ stack' = Append(stack, f)
          /\ UNCHANGED <<synchronized, failed>>
      BY <1>8, <2>3, EntityOfOne DEF RemoveMemory, Enter, Opened
    <3> HIDE DEF f
    <3>3. Pushed(f)
      BY <3>1, <3>2, PushFrame DEF TypeInv
    <3>4. OnlyAbout(k) /\ synchronized' \intersect failed' = {}
      BY <2>2, <3>2 DEF OnlyAbout, BooksOK
    <3>5. PICK g : g = f
      OBVIOUS
    <3>6. InPlace(g, k)'
      BY <3>1, <3>2, <3>5 DEF InPlace, Linking
    <3> QED BY <1>1, <2>1, <3>1, <3>3, <3>4, <3>5, <3>6, BooksBegin
  <2>4. CASE k \notin Present
    <3>1. /\ synchronized' = synchronized \ {k} /\ failed' = failed \ {k}
          /\ Present' = Present /\ stack' = stack
      BY <1>8, <2>4 DEF RemoveMemory, DropFromBooks, graphVars, Present
    <3>2. ASSUME NEW j \in EntityIds, j # k
          PROVE  BookOK(j)'
      BY <2>2, <3>1, <3>2, BookKept DEF BooksOK, Works
    <3>3. BookOK(k)'
      BY <2>1, <2>4, <3>1 DEF BookOK, Works
    <3> QED BY <3>1, <3>2, <3>3 DEF BooksOK
  <2> QED BY <2>3, <2>4
<1>9. CASE AddUpdated \/ MappingFails \/ MappingSucceeds \/ Link
  BY <1>1, <1>9, BooksSync
<1>10. CASE SyncReturns \/ SyncRaises \/ Cut \/ EntityForgotten
  BY <1>1, <1>10, BooksReturn
<1>11. CASE SynchronizeAll
  <2> DEFINE f == [call |-> "all", keys |-> DOMAIN memory, at |-> "calling"]
  <2>1. f \in Frame /\ f.call = "all"
    BY DEF Frame, AllFrames, TypeInv, DataOK
  <2>2. stack' = Append(stack, f) /\ UNCHANGED <<synchronized, failed, disturbed>> /\ Present' = Present
    BY <1>11 DEF SynchronizeAll, Enter, Opened, Books, graphVars, Present
  <2> HIDE DEF f
  <2>3. Pushed(f)
    BY <2>1, <2>2, PushFrame DEF TypeInv
  <2>4. ASSUME NEW k \in EntityIds
        PROVE  BookOK(k)'
    <3>1. /\ Len(stack') \in DOMAIN stack' /\ stack'[Len(stack')] = f
          /\ \A i \in DOMAIN stack' : Works(i, k)' =>
                 i = Len(stack') \/ (Works(i, k) /\ stack'[i] = stack[i])
          /\ \A i \in DOMAIN stack : Works(i, k) => Works(i, k)'
      BY <1>1, <2>3, WorkPushed DEF TypeInv
    <3>2. \A i \in DOMAIN stack' : Works(i, k)' => Works(i, k) /\ stack'[i] = stack[i]
      BY <2>1, <3>1 DEF Works
    <3> QED BY <2>2, <3>1, <3>2, BookKept DEF BooksOK
  <2> QED BY <2>2, <2>4 DEF BooksOK
<1>12. CASE AllReturns
  <2>1. Popped /\ Top \in Frame /\ Top.call = "all"
    BY <1>12, PopFrame, TopIsFrame DEF AllReturns, TopIs, TypeInv
  <2>2. UNCHANGED <<synchronized, failed, disturbed>> /\ Present' = Present
    BY <1>12 DEF AllReturns, Books, graphVars, Present
  <2>3. ASSUME NEW k \in EntityIds
        PROVE  BookOK(k)'
    <3>1. /\ Len(stack) \in DOMAIN stack /\ Top = stack[Len(stack)]
          /\ \A i \in DOMAIN stack' : Works(i, k)' =>
                 Works(i, k) /\ stack'[i] = stack[i] /\ i # Len(stack)
          /\ \A i \in DOMAIN stack : Works(i, k) /\ i # Len(stack) => Works(i, k)'
      BY <1>1, <2>1, WorkPopped DEF TypeInv
    <3>2. \A i \in DOMAIN stack : Works(i, k) => Works(i, k)'
      BY <2>1, <3>1 DEF Works
    <3> QED BY <2>2, <3>1, <3>2, BookKept DEF BooksOK
  <2> QED BY <2>2, <2>3 DEF BooksOK
<1> QED BY <1>2, <1>3, <1>4, <1>5, <1>6, <1>7, <1>8, <1>9, <1>10, <1>11, <1>12
        DEF IntegrationNext, MemoryKeys

\* Theorem: synchronization_status() is true of every key that nobody touched behind
\* the back of a call, however synchronizations and removals nest in each other's
\* publications: while no call works on it, it is listed as synchronized exactly when
\* its entity is in the graph, and it is never listed as failed as well.
THEOREM StatusStaysTrue ==
    ASSUME ConstantsFit PROVE IntegrationSpec => [](IntegrationTypeOK /\ StatusIsTrue)
<1>1. IntegrationInit => BooksOK
  BY DEF IntegrationInit, GraphInit, BooksOK, BookOK, Works, Present
<1>2. TypeInv /\ GraphIsSound => IntegrationTypeOK
  BY DEF TypeInv, DataOK, GraphIsSound, IntegrationTypeOK, MemoryKeys
<1>3. BooksOK => StatusIsTrue
  <2> SUFFICES ASSUME BooksOK, NEW k \in EntityIds
               PROVE  /\ k \notin synchronized \intersect failed
                      /\ ~ Working(k) /\ k \notin disturbed =>
                             (k \in synchronized <=> k \in Present)
    BY DEF StatusIsTrue, MemoryKeys
  <2>1. ~ Working(k) => \A i \in DOMAIN stack : ~ Works(i, k)
    BY DEF Working, Works
  <2> QED BY <2>1 DEF BooksOK, BookOK
<1> QED BY <1>1, <1>2, <1>3, TypeHolds, BooksStep, SynchronizedGraphIsSound, PTL
        DEF IntegrationSpec

\* Theorem: what the graph and the status tell of a memory is what the last synchronization
\* that nobody disturbed has left, and no entity is replaced in place: a synchronization
\* that lost time in its handlers never puts an older edition over a newer one.
THEOREM MemoryStaysMirrored == ASSUME ConstantsFit PROVE IntegrationSpec => MemoryIsMirrored
<1>1. [GraphNext]_graphVars =>
          \A k \in Present : k \in DOMAIN entities' => entities'[k] = entities[k]
  BY DEF GraphNext, AddEntity, RemoveEntity, AddRelationship, RemoveRelationship, graphVars, Present
<1>2. TypeInv /\ [IntegrationNext]_integrationVars =>
          [\A k \in Present : k \in DOMAIN entities' => entities'[k] = entities[k]]_integrationVars
  BY <1>1, TypeStep
<1> QED BY <1>2, StatusStaysTrue, TypeHolds, PTL DEF MemoryIsMirrored, NeverOlder, IntegrationSpec

-----------------------------------------------------------------------------
(* The searches of the reasoning engine: counting and iterating *)

\* Lemma: induction over the numbers, for a set of them.
LEMMA AllNumbers ==
    ASSUME NEW T, T \subseteq Nat, 0 \in T, \A n \in T : n + 1 \in T
    PROVE  \A n \in Nat : n \in T
<1>1. SUFFICES ASSUME NEW k \in Nat \ T PROVE FALSE
  OBVIOUS
<1>2. PICK m \in Nat \ T : \A n \in Nat \ T : ~(<<n, m>> \in OpToRel(<, Nat))
  <2>1. Nat \ T \subseteq Nat /\ Nat \ T # {}
    OBVIOUS
  <2> QED BY <2>1, NatLessThanWellFounded, WFMin, Zenon
<1>3. m \in Nat /\ m \notin T /\ m # 0
  BY <1>2
<1>4. m - 1 \in Nat /\ m - 1 < m /\ (m - 1) + 1 = m
  BY <1>3
<1>5. m - 1 \in T
  <2>1. <<m - 1, m>> \in OpToRel(<, Nat)
    BY <1>3, <1>4 DEF OpToRel
  <2> QED BY <1>2, <1>4, <2>1
<1> QED BY <1>3, <1>4, <1>5

\* Lemma: a step from a set into itself can be taken any number of times, so that the
\* function that a recursive definition names exists.
LEMMA Iterated ==
    ASSUME NEW X, NEW a \in X, NEW step \in [X -> X]
    PROVE  \E h \in [Nat -> X] : h[0] = a /\ \A n \in Nat : h[n + 1] = step[h[n]]
<1> DEFINE Upto(h, m) == h[0] = a /\ \A n \in Nat : n < m => h[n + 1] = step[h[n]]
           T == {m \in Nat : \E h \in [Nat -> X] : Upto(h, m)}
           U == {i \in Nat : \A m, n \in Nat, g, h \in [Nat -> X] :
                                i <= m /\ i <= n /\ Upto(g, m) /\ Upto(h, n) => g[i] = h[i]}
<1>1. 0 \in T
  <2> DEFINE h == [n \in Nat |-> a]
  <2>1. h \in [Nat -> X] /\ Upto(h, 0)
    OBVIOUS
  <2> QED BY <2>1
<1>2. ASSUME NEW m \in T PROVE m + 1 \in T
  <2>1. PICK h \in [Nat -> X] : Upto(h, m)
    OBVIOUS
  <2> DEFINE g == [n \in Nat |-> IF n = m + 1 THEN step[h[m]] ELSE h[n]]
  <2>2. g \in [Nat -> X]
    OBVIOUS
  <2>3. g[0] = a
    BY <2>1
  <2>4. ASSUME NEW n \in Nat, n < m + 1 PROVE g[n + 1] = step[g[n]]
    <3>1. CASE n = m
      BY <3>1
    <3>2. CASE n < m
      <4>1. g[n + 1] = h[n + 1] /\ g[n] = h[n]
        BY <3>2
      <4> QED BY <2>1, <3>2, <4>1
    <3> QED BY <2>4, <3>1, <3>2
  <2> HIDE DEF g
  <2>5. \E k \in [Nat -> X] : Upto(k, m + 1)
    BY <2>2, <2>3, <2>4
  <2>6. m + 1 \in Nat
    OBVIOUS
  <2> QED BY <2>5, <2>6
<1>3. \A m \in Nat : m \in T
  BY <1>1, <1>2, AllNumbers
<1>4. 0 \in U
  OBVIOUS
<1>5. ASSUME NEW i \in U PROVE i + 1 \in U
  <2> SUFFICES ASSUME NEW m \in Nat, NEW n \in Nat, NEW g \in [Nat -> X], NEW h \in [Nat -> X],
                      i + 1 <= m, i + 1 <= n, Upto(g, m), Upto(h, n)
               PROVE  g[i + 1] = h[i + 1]
    <3>1. i + 1 \in Nat
      OBVIOUS
    <3> HIDE DEF Upto
    <3> QED BY <3>1
  <2>1. i <= m /\ i <= n /\ i < m /\ i < n
    OBVIOUS
  <2>2. g[i] = h[i]
    BY <2>1
  <2>3. g[i + 1] = step[g[i]] /\ h[i + 1] = step[h[i]]
    BY <2>1
  <2> QED BY <2>2, <2>3
<1>6. \A i \in Nat : i \in U
  BY <1>4, <1>5, AllNumbers
<1> DEFINE One(m) == CHOOSE h \in [Nat -> X] : Upto(h, m)
           f == [m \in Nat |-> One(m)[m]]
<1>7. \A m \in Nat : One(m) \in [Nat -> X] /\ Upto(One(m), m)
  BY <1>3
<1> HIDE DEF One
<1>8. f \in [Nat -> X] /\ f[0] = a
  BY <1>7
<1>9. ASSUME NEW n \in Nat PROVE f[n + 1] = step[f[n]]
  <2>1. One(n + 1)[n + 1] = step[One(n + 1)[n]]
    BY <1>7
  <2>2. One(n + 1)[n] = One(n)[n]
    <3>0. n \in U
      BY <1>6
    <3>1. n + 1 \in Nat /\ n <= n + 1 /\ n <= n
      OBVIOUS
    <3>2. Upto(One(n), n) /\ Upto(One(n + 1), n + 1) /\ One(n) \in [Nat -> X]
          /\ One(n + 1) \in [Nat -> X]
      BY <1>7, <3>1
    <3> HIDE DEF Upto
    <3> QED BY <3>0, <3>1, <3>2
  <2> QED BY <2>1, <2>2
<1> QED BY <1>8, <1>9

-----------------------------------------------------------------------------
(* The breadth-first search *)

\* Lemma: a relationship that touches an entity leads to one that is there.
LEMMA TouchingLeads ==
    ASSUME GraphIsSound, NEW type, NEW e, NEW r \in Touching(e, type)
    PROVE  /\ r \in Wanted(type) /\ r \in relationships /\ r \in Relationship
           /\ e \in Present /\ OtherEnd(r, e) \in Present
           /\ {r.source, r.target} = {e, OtherEnd(r, e)}
BY DEF GraphIsSound, GraphTypeOK, NoDangling, Touching, Touches, Wanted, OtherEnd

\* What the next hop finds.
Found(last, type) == EndsOf(UNION {Touching(e, type) : e \in last.frontier}) \ last.visited

\* Lemma: the loop of _bfs_reachable has the values that its recursive definition asks for.
LEMMA HopsUnfold ==
    ASSUME GraphIsSound, NEW root \in Present, NEW type
    PROVE  LET hop == Hops(root, type) IN
           /\ hop[0] = [visited |-> {root}, frontier |-> {root}]
           /\ \A n \in Nat : hop[n + 1] = [visited |-> hop[n].visited \union Found(hop[n], type),
                                           frontier |-> Found(hop[n], type)]
<1> DEFINE X == [visited : SUBSET Present, frontier : SUBSET Present]
           start == [visited |-> {root}, frontier |-> {root}]
           Onward(last) == [visited |-> last.visited \union Found(last, type),
                           frontier |-> Found(last, type)]
           step == [last \in X |-> Onward(last)]
           Is(hop) == hop = [n \in Nat |-> IF n = 0 THEN start ELSE Onward(hop[n - 1])]
<1>1. start \in X
  OBVIOUS
<1>2. ASSUME NEW last \in X PROVE Found(last, type) \in SUBSET Present
  <2>1. \A e \in last.frontier : \A r \in Touching(e, type) : {r.source, r.target} \subseteq Present
    BY TouchingLeads
  <2> QED BY <2>1 DEF Found, EndsOf
<1>3. step \in [X -> X]
  <2> SUFFICES ASSUME NEW last \in X PROVE Onward(last) \in X
    OBVIOUS
  <2> QED BY <1>2
<1> HIDE DEF X, start, step
<1>4. PICK h \in [Nat -> X] : h[0] = start /\ \A n \in Nat : h[n + 1] = step[h[n]]
  BY <1>1, <1>3, Iterated
<1>5. \A n \in Nat : h[n + 1] = Onward(h[n])
  BY <1>4 DEF step
<1> HIDE DEF Onward
<1>6. Is(h)
  <2>1. \A n \in Nat : n # 0 => h[n] = Onward(h[n - 1])
    <3> SUFFICES ASSUME NEW n \in Nat, n # 0 PROVE h[n] = Onward(h[n - 1])
      OBVIOUS
    <3>1. n - 1 \in Nat /\ (n - 1) + 1 = n
      OBVIOUS
    <3> QED BY <1>5, <3>1
  <2> QED BY <1>4, <2>1
<1>7. Hops(root, type) = CHOOSE hop : Is(hop)
  BY DEF Hops, Onward, start, Found
<1> DEFINE H == Hops(root, type)
<1>8. Is(H)
  BY <1>6, <1>7
<1> HIDE DEF H
<1>9. H[0] = start
  BY <1>8
<1>10. ASSUME NEW n \in Nat PROVE H[n + 1] = Onward(H[n])
  <2>1. n + 1 \in Nat /\ n + 1 # 0 /\ (n + 1) - 1 = n
    OBVIOUS
  <2> QED BY <1>8, <2>1
<1> QED BY <1>9, <1>10 DEF H, start, Onward

\* Lemma: what one hop is made of.
LEMMA HopIsPair ==
    ASSUME NEW x, NEW v, NEW f, x = [visited |-> v, frontier |-> f]
    PROVE  x.visited = v /\ x.frontier = f
OBVIOUS

Visited(root, type, n) == Hops(root, type)[n].visited
Frontier(root, type, n) == Hops(root, type)[n].frontier

\* Lemma: hop by hop, what is found are the neighbors of what was found before, but for the
\* entities that were already visited.
LEMMA HopByHop ==
    ASSUME GraphIsSound, NEW root \in Present, NEW type
    PROVE  /\ Visited(root, type, 0) = {root} /\ Frontier(root, type, 0) = {root}
           /\ \A n \in Nat :
                  LET visited == Visited(root, type, n)
                      frontier == Frontier(root, type, n)
                  IN /\ frontier \subseteq visited /\ visited \subseteq Present
                     /\ Frontier(root, type, n + 1) =
                            (UNION {Neighbors(e, type) : e \in frontier}) \ visited
                     /\ Visited(root, type, n + 1) = visited \union Frontier(root, type, n + 1)
<1> DEFINE V(n) == Visited(root, type, n)
           F(n) == Frontier(root, type, n)
           T == {n \in Nat : F(n) \subseteq V(n) /\ V(n) \subseteq Present}
<1> DEFINE H == Hops(root, type)
<1>0. /\ H[0] = [visited |-> {root}, frontier |-> {root}]
      /\ \A n \in Nat : H[n + 1] = [visited |-> H[n].visited \union Found(H[n], type),
                                    frontier |-> Found(H[n], type)]
  BY HopsUnfold
<1> HIDE DEF H
<1>a. \A n : V(n) = H[n].visited /\ F(n) = H[n].frontier
  BY DEF Visited, Frontier, H
<1> HIDE DEF V, F
<1>1. V(0) = {root} /\ F(0) = {root}
  BY <1>0, <1>a
<1>2. ASSUME NEW n \in Nat
      PROVE  /\ F(n + 1) = EndsOf(UNION {Touching(e, type) : e \in F(n)}) \ V(n)
             /\ V(n + 1) = V(n) \union F(n + 1)
  <2>1. H[n + 1] = [visited |-> H[n].visited \union Found(H[n], type), frontier |-> Found(H[n], type)]
    BY <1>0
  <2>2. Found(H[n], type) = EndsOf(UNION {Touching(e, type) : e \in F(n)}) \ V(n)
    BY <1>a DEF Found
  <2>3. V(n + 1) = H[n + 1].visited /\ F(n + 1) = H[n + 1].frontier /\ V(n) = H[n].visited
    BY <1>a
  <2> DEFINE found == Found(H[n], type)
  <2> HIDE DEF found
  <2>4. H[n + 1] = [visited |-> H[n].visited \union found, frontier |-> found]
    BY <2>1 DEF found
  <2>5. F(n + 1) = found /\ V(n + 1) = H[n].visited \union found
    BY <2>3, <2>4, HopIsPair
  <2> QED BY <2>2, <2>3, <2>5 DEF found
<1>3. \A e : \A r \in Touching(e, type) :
          {r.source, r.target} = {e, OtherEnd(r, e)} /\ {r.source, r.target} \subseteq Present
  BY TouchingLeads
<1>4. 0 \in T
  BY <1>1
<1>5. ASSUME NEW n \in T PROVE n + 1 \in T
  <2>1. F(n + 1) \subseteq V(n + 1)
    BY <1>2
  <2>2. F(n + 1) \subseteq Present
    BY <1>2, <1>3 DEF EndsOf
  <2> QED BY <1>2, <2>1, <2>2
<1>6. \A n \in Nat : n \in T
  BY <1>4, <1>5, AllNumbers
<1>7. ASSUME NEW n \in Nat PROVE F(n + 1) = (UNION {Neighbors(e, type) : e \in F(n)}) \ V(n)
  <2>1. F(n) \subseteq V(n)
    BY <1>6
  <2>2. ASSUME NEW f \in F(n + 1) PROVE \E e \in F(n) : f \in Neighbors(e, type)
    <3>0. PICK e \in F(n) : \E r \in Touching(e, type) : f \in {r.source, r.target}
      <4>1. f \in EndsOf(UNION {Touching(e, type) : e \in F(n)})
        BY <1>2, <2>2
      <4>2. PICK r \in UNION {Touching(e, type) : e \in F(n)} : f \in {r.source, r.target}
        BY <4>1 DEF EndsOf
      <4> QED BY <4>2
    <3>1. PICK r \in Touching(e, type) : f \in {r.source, r.target}
      BY <3>0
    <3>2. f # e
      BY <1>2, <2>1, <2>2
    <3>3. f = OtherEnd(r, e)
      BY <1>3, <3>1, <3>2
    <3> QED BY <3>3 DEF Neighbors
  <2>3. ASSUME NEW e \in F(n), NEW f \in Neighbors(e, type) \ V(n) PROVE f \in F(n + 1)
    <3>1. PICK r \in Touching(e, type) : f = OtherEnd(r, e)
      BY <2>3 DEF Neighbors
    <3> QED BY <1>2, <1>3, <2>3, <3>1 DEF EndsOf
  <2>4. F(n + 1) \intersect V(n) = {}
    BY <1>2
  <2> QED BY <2>2, <2>3, <2>4
<1> QED BY <1>1, <1>2, <1>6, <1>7 DEF V, F

-----------------------------------------------------------------------------
(* What follows from one hop, and from none *)

\* Lemma: both searches for neighbors agree.
LEMMA NeighborsAgree ==
    ASSUME GraphIsSound, UnsetAssumption, NEW e \in Present
    PROVE  Neighbors(e, Unset) = GraphNeighbors(e)
<1>1. \A r \in relationships : r \in Relationship /\ r.source \in Present /\ r.target \in Present
  BY DEF GraphIsSound, GraphTypeOK, NoDangling
<1>2. Wanted(Unset) = relationships
  BY DEF Wanted
<1>3. ASSUME NEW f \in Neighbors(e, Unset) PROVE f \in GraphNeighbors(e)
  <2>1. PICK r \in relationships : e \in {r.source, r.target} /\ f = OtherEnd(r, e)
    BY <1>2, <1>3 DEF Neighbors, Touching, Touches
  <2> QED BY <1>1, <2>1 DEF OtherEnd, GraphNeighbors
<1>4. ASSUME NEW f \in GraphNeighbors(e) PROVE f \in Neighbors(e, Unset)
  <2>1. PICK r \in relationships : \/ r.source = e /\ r.target = f
                                   \/ r.source # e /\ r.target = e /\ r.source = f
    BY <1>4 DEF GraphNeighbors
  <2>2. r \in Touching(e, Unset) /\ f = OtherEnd(r, e)
    BY <1>2, <2>1 DEF Touching, Touches, OtherEnd
  <2> QED BY <2>2 DEF Neighbors
<1> QED BY <1>3, <1>4

\* Lemma: one hop adds exactly the neighbors.
LEMMA OneHop ==
    ASSUME GraphIsSound, UnsetAssumption
    PROVE  OneHopIsNeighbors
<1> SUFFICES ASSUME NEW e \in Present, NEW type \in AllTypes
             PROVE  Reachable(e, 1, type) = {e} \union Neighbors(e, type)
  BY NeighborsAgree DEF OneHopIsNeighbors
<1>1. /\ Visited(e, type, 0) = {e} /\ Frontier(e, type, 0) = {e}
      /\ Visited(e, type, 0 + 1) = Visited(e, type, 0) \union Frontier(e, type, 0 + 1)
      /\ Frontier(e, type, 0 + 1) =
             (UNION {Neighbors(f, type) : f \in Frontier(e, type, 0)}) \ Visited(e, type, 0)
  BY HopByHop
<1>2. Visited(e, type, 0 + 1) = {e} \union Neighbors(e, type)
  BY <1>1
<1> QED BY <1>2 DEF Visited, Reachable

\* Lemma: the branches of a query without an entity agree.
LEMMA PatternsMatch ==
    ASSUME GraphIsSound, UnsetAssumption
    PROVE  PatternAgrees
<1> SUFFICES ASSUME NEW kind \in Contents, NEW type \in RelationshipTypes,
                    NEW matching \in SUBSET RelationshipIds
             PROVE  LET answer == Query(Unset, kind, type, 1, matching)
                        ends == EndsOf(answer.relationships)
                    IN
                    /\ answer.entities = Query(Unset, kind, Unset, 1, ends).entities
                    /\ answer.relationships \subseteq
                           Query(Unset, Unset, type, 1, matching).relationships
                    /\ ends \subseteq RelationshipSummary(type).entities
  BY DEF PatternAgrees
<1>1. kind # Unset /\ type # Unset /\ Unset \notin {kind, type}
  BY DEF UnsetAssumption
<1> DEFINE answer == QueryByPattern(kind, type, matching)
           ends == EndsOf(answer.relationships)
<1>2. Query(Unset, kind, type, 1, matching) = answer
  BY <1>1 DEF Query
<1>3. Query(Unset, kind, Unset, 1, ends) = QueryByType(kind, ends)
  BY <1>1 DEF Query
<1>4. Query(Unset, Unset, type, 1, matching) = QueryByRelationship(type, matching)
  BY <1>1 DEF Query
<1>5. /\ answer.relationships \subseteq {r \in Wanted(type) : r.id \in matching}
      /\ answer.entities = {e \in ends : entities[e] = kind}
  BY DEF QueryByPattern
<1>6. answer.relationships \subseteq QueryByRelationship(type, matching).relationships
  BY <1>5 DEF QueryByRelationship
<1>7. ends \subseteq RelationshipSummary(type).entities
  BY <1>5 DEF RelationshipSummary, EndsOf
<1>8. ends \subseteq Present
  BY <1>5 DEF EndsOf, Wanted, GraphIsSound, NoDangling
<1>9. QueryByType(kind, ends).entities = {e \in Present : entities[e] = kind} \intersect ends
  BY DEF QueryByType, FindByType
<1>10. answer.entities = QueryByType(kind, ends).entities
  BY <1>5, <1>8, <1>9
<1> HIDE DEF answer
<1> QED BY <1>2, <1>3, <1>4, <1>6, <1>7, <1>10

\* Lemma: the summary of an entity counts a loop twice, and neighbors once.
LEMMA SummaryIsRight ==
    ASSUME GraphIsSound, UnsetAssumption, IsFiniteSet(relationships)
    PROVE  SummaryCounts
<1> SUFFICES ASSUME NEW e \in Present
             PROVE  LET summary == EntitySummary(e)
                        loops == Cardinality({r \in relationships : r.source = e /\ r.target = e})
                    IN /\ summary.outgoing + summary.incoming =
                              Cardinality(Touching(e, Unset)) + loops
                       /\ summary.neighbors <= summary.outgoing + summary.incoming - loops
  BY DEF SummaryCounts
<1> DEFINE touching == Touching(e, Unset)
           out == {r \in touching : r.source = e}
           in == {r \in touching : r.target = e}
           loop == {r \in relationships : r.source = e /\ r.target = e}
           near == Neighbors(e, Unset)
<1>1. /\ touching \subseteq relationships /\ out \union in = touching /\ out \intersect in = loop
  BY DEF Touching, Touches, Wanted
<1>2. IsFiniteSet(touching) /\ IsFiniteSet(out) /\ IsFiniteSet(in)
  BY <1>1, FS_Subset
<1>3. Cardinality(out \union in) = Cardinality(out) + Cardinality(in) - Cardinality(out \intersect in)
  BY <1>2, FS_Union
<1>4. /\ Cardinality(out) \in Nat /\ Cardinality(in) \in Nat /\ Cardinality(loop) \in Nat
      /\ Cardinality(touching) \in Nat
  <2>1. IsFiniteSet(loop)
    BY <1>1, <1>2, FS_Subset
  <2> QED BY <1>2, <2>1, FS_CardinalityType
<1>5. Cardinality(near) \in Nat /\ Cardinality(near) <= Cardinality(touching)
  <2> DEFINE f == [r \in touching |-> OtherEnd(r, e)]
  <2>1. f \in Surjection(touching, near)
    <3>1. \A r \in touching : OtherEnd(r, e) \in near
      BY DEF Neighbors
    <3>2. \A x \in near : \E r \in touching : x = OtherEnd(r, e)
      BY DEF Neighbors
    <3> QED BY <3>1, <3>2 DEF Surjection
  <2>2. IsFiniteSet(near) /\ Cardinality(near) <= Cardinality(touching)
    BY <1>2, <2>1, FS_Surjection
  <2> QED BY <2>2, FS_CardinalityType
<1> DEFINE summary == EntitySummary(e)
<1>6. /\ summary.outgoing = Cardinality(out) /\ summary.incoming = Cardinality(in)
      /\ summary.neighbors = Cardinality(near)
  BY DEF EntitySummary
<1> HIDE DEF summary, out, in, near, touching, loop
<1>7. summary.outgoing + summary.incoming = Cardinality(touching) + Cardinality(loop)
  <2>1. Cardinality(touching) = Cardinality(out) + Cardinality(in) - Cardinality(loop)
    BY <1>1, <1>3
  <2> QED BY <1>4, <1>6, <2>1
<1>8. summary.neighbors <= summary.outgoing + summary.incoming - Cardinality(loop)
  BY <1>4, <1>5, <1>6, <1>7
<1> QED BY <1>7, <1>8 DEF summary, touching, loop

-----------------------------------------------------------------------------
(* Trails: what the depth-first search follows *)

\* Lemma: a function on the first numbers is a sequence.
LEMMA SequenceOf ==
    ASSUME NEW S, NEW k \in Nat, NEW f \in [1 .. k -> S]
    PROVE  f \in Seq(S) /\ Len(f) = k /\ DOMAIN f = 1 .. k
<1>1. f \in Seq(S)
  OBVIOUS
<1>2. DOMAIN f = 1 .. k /\ DOMAIN f = 1 .. Len(f) /\ Len(f) \in Nat
  BY <1>1, LenProperties
<1>3. Len(f) = k
  BY <1>2
<1> QED BY <1>1, <1>2, <1>3

\* Lemma: what Append adds.
LEMMA OneMore ==
    ASSUME NEW S, NEW k \in Nat, NEW f \in [1 .. k -> S], NEW e \in S
    PROVE  Append(f, e) = [i \in 1 .. k + 1 |-> IF i = k + 1 THEN e ELSE f[i]]
<1>1. f \in Seq(S) /\ Len(f) = k
  BY SequenceOf
<1>2. /\ Append(f, e) \in Seq(S) /\ Len(Append(f, e)) = k + 1
      /\ \A i \in 1 .. k : Append(f, e)[i] = f[i]
      /\ Append(f, e)[k + 1] = e
  BY <1>1, AppendProperties
<1>3. Append(f, e) \in [1 .. k + 1 -> S]
  BY <1>2, LenProperties
<1>4. \A i \in 1 .. k + 1 : i = k + 1 \/ i \in 1 .. k
  OBVIOUS
<1> DEFINE g == [i \in 1 .. k + 1 |-> IF i = k + 1 THEN e ELSE f[i]]
<1>5. \A i \in 1 .. k + 1 : Append(f, e)[i] = g[i]
  BY <1>2, <1>4
<1> QED BY <1>3, <1>5

\* The walks over n relationships from s that visit no entity twice.
Trails(s, n) ==
    {w \in [ids : [1 .. n + 1 -> Present], rels : [1 .. n -> relationships]] :
        /\ w.ids[1] = s
        /\ \A i, j \in 1 .. n + 1 : w.ids[i] = w.ids[j] => i = j
        /\ \A i \in 1 .. n :
               {w.ids[i], w.ids[i + 1]} = {w.rels[i].source, w.rels[i].target}}

\* The path that the code makes of a trail, and the trail without its last step.
Named(w, n) == [ids |-> w.ids, rels |-> [i \in 1 .. n |-> w.rels[i].id]]
Shorter(w, n) == [ids |-> [i \in 1 .. n + 1 |-> w.ids[i]], rels |-> [i \in 1 .. n |-> w.rels[i]]]

\* No position of the sequence repeats another one.
Distinct(f, k) == \A i, j \in 1 .. k : f[i] = f[j] => i = j

\* Lemma: a sequence without repetition has as many elements as positions, and no other has.
LEMMA CountsPositions ==
    ASSUME NEW S, NEW k \in Nat, NEW f \in [1 .. k -> S]
    PROVE  Cardinality(ToSet(f)) = Len(f) <=> Distinct(f, k)
<1>1. Len(f) = k /\ DOMAIN f = 1 .. k
  BY SequenceOf
<1>2. f \in Surjection(1 .. k, ToSet(f))
  BY <1>1 DEF Surjection, ToSet
<1>3. IsFiniteSet(1 .. k) /\ Cardinality(1 .. k) = k
  BY FS_Interval
<1>4. Cardinality(ToSet(f)) = k <=> f \in Injection(1 .. k, ToSet(f))
  BY <1>2, <1>3, FS_Surjection
<1>5. f \in [1 .. k -> ToSet(f)]
  BY <1>2 DEF Surjection
<1>6. f \in Injection(1 .. k, ToSet(f)) <=> Distinct(f, k)
  BY <1>5 DEF Injection, IsInjective, Distinct
<1> QED BY <1>1, <1>4, <1>6, Zenon

\* Lemma: what PathsAreAll calls a way is a trail that ends at the target.
LEMMA WaysAreTrails ==
    ASSUME NEW s, NEW t, NEW n \in Nat
    PROVE  Ways(s, t, n) = {w \in Trails(s, n) : w.ids[n + 1] = t}
<1> SUFFICES ASSUME NEW w \in [ids : [1 .. n + 1 -> Present], rels : [1 .. n -> relationships]]
             PROVE  IsPath(w.ids, w.rels, s, t) <=>
                        /\ w.ids[1] = s
                        /\ \A i, j \in 1 .. n + 1 : w.ids[i] = w.ids[j] => i = j
                        /\ \A i \in 1 .. n :
                               {w.ids[i], w.ids[i + 1]} = {w.rels[i].source, w.rels[i].target}
                        /\ w.ids[n + 1] = t
  BY DEF Ways, Trails
<1>1. w.ids \in [1 .. n + 1 -> Present] /\ w.rels \in [1 .. n -> relationships] /\ n + 1 \in Nat
  OBVIOUS
<1>2. Len(w.ids) = n + 1 /\ DOMAIN w.rels = 1 .. n
  BY <1>1, SequenceOf
<1>3. Cardinality(ToSet(w.ids)) = Len(w.ids) <=> Distinct(w.ids, n + 1)
  BY <1>1, CountsPositions
<1>4. Last(w.ids) = w.ids[n + 1]
  BY <1>2 DEF Last
<1> QED BY <1>2, <1>3, <1>4 DEF IsPath, Distinct

\* A relationship from the end of the trail to an entity that is new to it.
GoesOn(w, n, r, f) ==
    /\ r \in relationships /\ {r.source, r.target} = {w.ids[n + 1], f}
    /\ \A i \in 1 .. n + 1 : w.ids[i] # f

\* Lemma: a trail goes on over a relationship to an entity that it has not visited.
LEMMA TrailGoesOn ==
    ASSUME GraphIsSound, NEW s, NEW n \in Nat, NEW w \in Trails(s, n), NEW r, NEW f, GoesOn(w, n, r, f)
    PROVE  \E v \in Trails(s, n + 1) :
               /\ Shorter(v, n) = w /\ v.ids[n + 2] = f
               /\ Named(v, n + 1) = [ids |-> Append(w.ids, f),
                                     rels |-> Append(Named(w, n).rels, r.id)]
<1> DEFINE ids == [i \in 1 .. n + 2 |-> IF i = n + 2 THEN f ELSE w.ids[i]]
           rels == [i \in 1 .. n + 1 |-> IF i = n + 1 THEN r ELSE w.rels[i]]
           v == [ids |-> ids, rels |-> rels]
<1>1. /\ w.ids \in [1 .. n + 1 -> Present] /\ w.rels \in [1 .. n -> relationships]
      /\ w = [ids |-> w.ids, rels |-> w.rels]
      /\ w.ids[1] = s
      /\ \A i, j \in 1 .. n + 1 : w.ids[i] = w.ids[j] => i = j
      /\ \A i \in 1 .. n : {w.ids[i], w.ids[i + 1]} = {w.rels[i].source, w.rels[i].target}
  BY DEF Trails
<1>a. /\ r \in relationships /\ {r.source, r.target} = {w.ids[n + 1], f}
      /\ \A i \in 1 .. n + 1 : w.ids[i] # f
  BY DEF GoesOn
<1>2. f \in Present
  BY <1>a DEF GraphIsSound, NoDangling
<1>3. n + 1 \in Nat /\ (n + 1) + 1 = n + 2 /\ n + 2 # 1
  OBVIOUS
<1>4. \A i \in 1 .. n + 2 : i = n + 2 \/ i \in 1 .. n + 1
  OBVIOUS
<1>5. \A i \in 1 .. n + 1 : i = n + 1 \/ i \in 1 .. n
  OBVIOUS
<1>6. ids \in [1 .. n + 2 -> Present] /\ rels \in [1 .. n + 1 -> relationships]
  BY <1>a, <1>1, <1>2, <1>4, <1>5
<1>7. /\ \A i \in 1 .. n + 1 : ids[i] = w.ids[i]
      /\ ids[n + 2] = f
      /\ \A i \in 1 .. n : rels[i] = w.rels[i]
      /\ rels[n + 1] = r
  OBVIOUS
<1>8. Append(w.ids, f) = ids
  BY <1>1, <1>2, <1>3, OneMore
<1>9. Append([i \in 1 .. n |-> w.rels[i].id], r.id) = [i \in 1 .. n + 1 |-> rels[i].id]
  <2> DEFINE g == [i \in 1 .. n |-> w.rels[i].id]
             S == {x.id : x \in relationships}
  <2>1. g \in [1 .. n -> S] /\ r.id \in S
    BY <1>1, <1>a
  <2> HIDE DEF S
  <2>2. Append(g, r.id) = [i \in 1 .. n + 1 |-> IF i = n + 1 THEN r.id ELSE g[i]]
    BY <2>1, OneMore
  <2>3. \A i \in 1 .. n + 1 : (IF i = n + 1 THEN r.id ELSE g[i]) = rels[i].id
    BY <1>5, <1>7
  <2> QED BY <2>2, <2>3
<1> HIDE DEF ids, rels
<1>10. v \in Trails(s, n + 1)
  <2>1. v \in [ids : [1 .. (n + 1) + 1 -> Present], rels : [1 .. n + 1 -> relationships]]
    BY <1>3, <1>6
  <2>2. v.ids[1] = s
    BY <1>1, <1>7
  <2>3. ASSUME NEW i \in 1 .. (n + 1) + 1, NEW j \in 1 .. (n + 1) + 1, v.ids[i] = v.ids[j] PROVE i = j
    <3>1. (i = n + 2 \/ i \in 1 .. n + 1) /\ (j = n + 2 \/ j \in 1 .. n + 1) /\ ids[i] = ids[j]
      BY <2>3
    <3> QED BY <1>1, <1>7, <1>a, <3>1
  <2>4. ASSUME NEW i \in 1 .. n + 1
        PROVE  {v.ids[i], v.ids[i + 1]} = {v.rels[i].source, v.rels[i].target}
    <3>1. CASE i = n + 1
      <4>1. ids[i] = w.ids[n + 1] /\ ids[i + 1] = f /\ rels[i] = r
        BY <1>7, <3>1
      <4> QED BY <1>a, <4>1
    <3>2. CASE i \in 1 .. n
      <4>1. i \in 1 .. n + 1 /\ i + 1 \in 1 .. n + 1
        BY <3>2
      <4>2. ids[i] = w.ids[i] /\ ids[i + 1] = w.ids[i + 1] /\ rels[i] = w.rels[i]
        BY <1>7, <3>2, <4>1
      <4> QED BY <1>1, <3>2, <4>2
    <3> QED BY <1>5, <3>1, <3>2
  <2> HIDE DEF v
  <2> QED BY <2>1, <2>2, <2>3, <2>4 DEF Trails
<1>11. Shorter(v, n) = w
  <2>1. w.ids = [i \in 1 .. n + 1 |-> ids[i]]
    BY <1>1, <1>7
  <2>2. w.rels = [i \in 1 .. n |-> rels[i]]
    BY <1>1, <1>7
  <2>3. w = [ids |-> w.ids, rels |-> w.rels]
    BY <1>1
  <2> QED BY <2>1, <2>2, <2>3 DEF Shorter
<1>12. Named(v, n + 1) = [ids |-> Append(w.ids, f), rels |-> Append(Named(w, n).rels, r.id)]
  BY <1>8, <1>9 DEF Named
<1>13. v.ids[n + 2] = f
  BY <1>7
<1> QED BY <1>10, <1>11, <1>12, <1>13

\* Lemma: a trail without its last step is one.
LEMMA TrailIsCut ==
    ASSUME NEW s, NEW n \in Nat, NEW v \in Trails(s, n + 1)
    PROVE  /\ Shorter(v, n) \in Trails(s, n)
           /\ \A i \in 1 .. n + 1 : Shorter(v, n).ids[i] = v.ids[i]
           /\ \A i \in 1 .. n : Shorter(v, n).rels[i] = v.rels[i]
           /\ {v.ids[n + 1], v.ids[n + 2]} = {v.rels[n + 1].source, v.rels[n + 1].target}
           /\ v.rels[n + 1] \in relationships
           /\ \A i \in 1 .. n + 1 : v.ids[i] # v.ids[n + 2]
           /\ v.ids[n + 2] \in Present
<1> DEFINE w == Shorter(v, n)
<1>1. /\ v.ids \in [1 .. n + 2 -> Present] /\ v.rels \in [1 .. n + 1 -> relationships]
      /\ v.ids[1] = s
      /\ \A i, j \in 1 .. n + 2 : v.ids[i] = v.ids[j] => i = j
      /\ \A i \in 1 .. n + 1 : {v.ids[i], v.ids[i + 1]} = {v.rels[i].source, v.rels[i].target}
  <2>1. (n + 1) + 1 = n + 2
    OBVIOUS
  <2> QED BY <2>1 DEF Trails
<1>2. /\ w.ids \in [1 .. n + 1 -> Present] /\ w.rels \in [1 .. n -> relationships]
      /\ \A i \in 1 .. n + 1 : w.ids[i] = v.ids[i]
      /\ \A i \in 1 .. n : w.rels[i] = v.rels[i]
      /\ w \in [ids : [1 .. n + 1 -> Present], rels : [1 .. n -> relationships]]
  BY <1>1 DEF Shorter
<1> HIDE DEF w
<1>3. w.ids[1] = s
  BY <1>1, <1>2
<1>4. \A i, j \in 1 .. n + 1 : w.ids[i] = w.ids[j] => i = j
  BY <1>1, <1>2
<1>5. ASSUME NEW i \in 1 .. n PROVE {w.ids[i], w.ids[i + 1]} = {w.rels[i].source, w.rels[i].target}
  <2>1. i \in 1 .. n + 1 /\ i + 1 \in 1 .. n + 1
    OBVIOUS
  <2> QED BY <1>1, <1>2, <2>1
<1>6. w \in Trails(s, n)
  BY <1>2, <1>3, <1>4, <1>5 DEF Trails
<1>7. /\ {v.ids[n + 1], v.ids[n + 2]} = {v.rels[n + 1].source, v.rels[n + 1].target}
      /\ v.rels[n + 1] \in relationships /\ v.ids[n + 2] \in Present
  <2>1. n + 1 \in 1 .. n + 1 /\ (n + 1) + 1 = n + 2 /\ n + 2 \in 1 .. n + 2
    OBVIOUS
  <2> QED BY <1>1, <2>1
<1>8. ASSUME NEW i \in 1 .. n + 1 PROVE v.ids[i] # v.ids[n + 2]
  <2>1. i \in 1 .. n + 2 /\ n + 2 \in 1 .. n + 2 /\ i # n + 2
    OBVIOUS
  <2> QED BY <1>1, <2>1
<1> QED BY <1>2, <1>6, <1>7, <1>8 DEF w

\* Lemma: what dfs() makes of a path are the paths of the trails that go on from its trail.
LEMMA ExtensionsAreTrails ==
    ASSUME GraphIsSound, UnsetAssumption, NEW s, NEW n \in Nat, NEW w \in Trails(s, n)
    PROVE  Extensions(Named(w, n)) = {Named(v, n + 1) : v \in {u \in Trails(s, n + 1) : Shorter(u, n) = w}}
<1> DEFINE path == Named(w, n)
           last == w.ids[n + 1]
<1>1. w.ids \in [1 .. n + 1 -> Present] /\ n + 1 \in Nat
  BY DEF Trails
<1>2. Last(path.ids) = last /\ ToSet(path.ids) = {w.ids[i] : i \in 1 .. n + 1} /\ path.ids = w.ids
  <2>1. Len(w.ids) = n + 1 /\ DOMAIN w.ids = 1 .. n + 1
    BY <1>1, SequenceOf
  <2> QED BY <2>1 DEF Named, Last, ToSet
<1>3. ASSUME NEW p \in Extensions(path)
      PROVE  \E v \in {u \in Trails(s, n + 1) : Shorter(u, n) = w} : p = Named(v, n + 1)
  <2>1. PICK r \in Touching(last, Unset) : /\ OtherEnd(r, last) \notin ToSet(path.ids)
                                           /\ p = Extended(path, r)
    BY <1>2, <1>3 DEF Extensions
  <2> DEFINE f == OtherEnd(r, last)
  <2>2. r \in relationships /\ {r.source, r.target} = {last, f}
    BY TouchingLeads
  <2>3. \A i \in 1 .. n + 1 : w.ids[i] # f
    BY <1>2, <2>1
  <2>4. p = [ids |-> Append(w.ids, f), rels |-> Append(path.rels, r.id)]
    BY <1>2, <2>1 DEF Extended
  <2>a. GoesOn(w, n, r, f)
    BY <2>2, <2>3 DEF GoesOn
  <2> HIDE DEF f, path, last
  <2>5. \E v \in Trails(s, n + 1) :
            /\ Shorter(v, n) = w /\ v.ids[n + 2] = f
            /\ Named(v, n + 1) = [ids |-> Append(w.ids, f), rels |-> Append(Named(w, n).rels, r.id)]
    BY <2>a, TrailGoesOn
  <2> QED BY <2>4, <2>5 DEF path
<1>4. ASSUME NEW v \in Trails(s, n + 1), Shorter(v, n) = w PROVE Named(v, n + 1) \in Extensions(path)
  <2> DEFINE r == v.rels[n + 1]
             f == v.ids[n + 2]
  <2>1. /\ \A i \in 1 .. n + 1 : w.ids[i] = v.ids[i]
        /\ \A i \in 1 .. n : w.rels[i] = v.rels[i]
        /\ {v.ids[n + 1], f} = {r.source, r.target} /\ r \in relationships
        /\ \A i \in 1 .. n + 1 : v.ids[i] # f
        /\ f \in Present
    BY <1>4, TrailIsCut
  <2>2. last = v.ids[n + 1] /\ last # f /\ {last, f} = {r.source, r.target}
    <3>1. n + 1 \in 1 .. n + 1
      OBVIOUS
    <3> QED BY <2>1, <3>1
  <2>3. r \in Touching(last, Unset) /\ OtherEnd(r, last) = f
    BY <2>1, <2>2 DEF Touching, Touches, Wanted, OtherEnd
  <2>4. f \notin ToSet(path.ids)
    BY <1>2, <2>1
  <2>5. Extended(path, r) \in Extensions(path)
    BY <1>2, <2>3, <2>4 DEF Extensions
  <2>6. Extended(path, r) = [ids |-> Append(w.ids, f), rels |-> Append(path.rels, r.id)]
    BY <1>2, <2>3 DEF Extended
  <2>7. Append(w.ids, f) = v.ids
    <3>1. Append(w.ids, f) = [i \in 1 .. n + 2 |-> IF i = n + 2 THEN f ELSE w.ids[i]]
      <4>1. (n + 1) + 1 = n + 2
        OBVIOUS
      <4> QED BY <1>1, <2>1, <4>1, OneMore
    <3>2. v.ids \in [1 .. n + 2 -> Present]
      <4>1. (n + 1) + 1 = n + 2
        OBVIOUS
      <4> QED BY <4>1 DEF Trails
    <3>3. \A i \in 1 .. n + 2 : (IF i = n + 2 THEN f ELSE w.ids[i]) = v.ids[i]
      <4>1. \A i \in 1 .. n + 2 : i = n + 2 \/ i \in 1 .. n + 1
        OBVIOUS
      <4> QED BY <2>1, <4>1
    <3> QED BY <3>1, <3>2, <3>3
  <2>8. Append(path.rels, r.id) = [i \in 1 .. n + 1 |-> v.rels[i].id]
    <3> DEFINE g == [i \in 1 .. n |-> w.rels[i].id]
               S == {x.id : x \in relationships}
    <3>1. g \in [1 .. n -> S] /\ r.id \in S
      <4>1. w.rels \in [1 .. n -> relationships]
        BY DEF Trails
      <4> QED BY <2>1, <4>1
    <3> HIDE DEF S
    <3>2. Append(g, r.id) = [i \in 1 .. n + 1 |-> IF i = n + 1 THEN r.id ELSE g[i]]
      BY <3>1, OneMore
    <3>3. \A i \in 1 .. n + 1 : (IF i = n + 1 THEN r.id ELSE g[i]) = v.rels[i].id
      <4>1. \A i \in 1 .. n + 1 : i = n + 1 \/ i \in 1 .. n
        OBVIOUS
      <4> QED BY <2>1, <4>1
    <3>4. path.rels = g
      BY DEF Named
    <3> QED BY <3>2, <3>3, <3>4
  <2>9. Named(v, n + 1) = [ids |-> v.ids, rels |-> [i \in 1 .. n + 1 |-> v.rels[i].id]]
    BY DEF Named
  <2> QED BY <2>5, <2>6, <2>7, <2>8, <2>9
<1> QED BY <1>3, <1>4

-----------------------------------------------------------------------------
(* The depth-first search *)

\* Lemma: the search starts at the trail of one entity, which is the only one without a step.
LEMMA FirstTrail ==
    ASSUME NEW s \in Present
    PROVE  LET path == [ids |-> <<s>>, rels |-> << >>] IN
           Trails(s, 0) = {path} /\ Named(path, 0) = path
<1> DEFINE path == [ids |-> <<s>>, rels |-> << >>]
<1>1. 0 + 1 = 1 /\ 1 .. 0 = {} /\ 1 .. 1 = {1}
  OBVIOUS
<1>2. \A f \in [1 .. 0 -> relationships] : f = << >>
  BY <1>1
<1>3. << >> \in [1 .. 0 -> relationships] /\ [i \in 1 .. 0 |-> path.rels[i].id] = << >>
  BY <1>1
<1>4. <<s>> \in [1 .. 1 -> Present] /\ <<s>>[1] = s
  BY <1>1
<1>5. \A f \in [1 .. 1 -> Present] : f[1] = s => f = <<s>>
  BY <1>1
<1>6. path \in Trails(s, 0)
  BY <1>1, <1>3, <1>4 DEF Trails
<1>7. ASSUME NEW w \in Trails(s, 0) PROVE w = path
  <2>1. /\ w = [ids |-> w.ids, rels |-> w.rels] /\ w.ids[1] = s
        /\ w.ids \in [1 .. 1 -> Present] /\ w.rels \in [1 .. 0 -> relationships]
    BY <1>1 DEF Trails
  <2>2. w.ids = <<s>> /\ w.rels = << >>
    BY <1>2, <1>5, <2>1
  <2> QED BY <2>1, <2>2
<1>8. Named(path, 0) = path
  BY <1>3 DEF Named
<1> QED BY <1>6, <1>7, <1>8

\* Lemma: the recursion of dfs(): it has the value that its definition asks for.
LEMMA SearchesUnfold ==
    ASSUME GraphIsSound, UnsetAssumption, NEW s \in Present, NEW t
    PROVE  LET dfs == Searches(s, t) IN
           /\ dfs[0] = {[ids |-> <<s>>, rels |-> << >>]}
           /\ \A n \in Nat : dfs[n + 1] = {p \in UNION {Extensions(q) : q \in dfs[n]} : Last(p.ids) # t}
<1> DEFINE Paths == UNION {{Named(w, n) : w \in Trails(s, n)} : n \in Nat}
           X == SUBSET Paths
           start == {[ids |-> <<s>>, rels |-> << >>]}
           Onward(last) == {p \in UNION {Extensions(q) : q \in last} : Last(p.ids) # t}
           step == [last \in X |-> Onward(last)]
           Is(dfs) == dfs = [n \in Nat |-> IF n = 0 THEN start ELSE Onward(dfs[n - 1])]
<1>1. start \in X
  <2> DEFINE path == [ids |-> <<s>>, rels |-> << >>]
  <2>1. path \in Trails(s, 0) /\ Named(path, 0) = path
    BY FirstTrail
  <2> HIDE DEF path
  <2>2. path \in {Named(w, 0) : w \in Trails(s, 0)}
    BY <2>1
  <2>3. path \in Paths
    BY <2>2
  <2> QED BY <2>3 DEF path
<1>2. ASSUME NEW q \in Paths PROVE Extensions(q) \subseteq Paths
  <2>1. PICK n \in Nat : q \in {Named(w, n) : w \in Trails(s, n)}
    BY <1>2
  <2>2. PICK w \in Trails(s, n) : q = Named(w, n)
    BY <2>1
  <2>3. Extensions(q) \subseteq {Named(v, n + 1) : v \in Trails(s, n + 1)}
    BY <2>2, ExtensionsAreTrails
  <2> QED BY <2>3
<1>3. step \in [X -> X]
  <2> SUFFICES ASSUME NEW last \in X PROVE Onward(last) \in X
    OBVIOUS
  <2> HIDE DEF Paths
  <2> QED BY <1>2
<1> HIDE DEF X, start, step
<1>4. PICK h \in [Nat -> X] : h[0] = start /\ \A n \in Nat : h[n + 1] = step[h[n]]
  BY <1>1, <1>3, Iterated
<1>5. \A n \in Nat : h[n + 1] = Onward(h[n])
  BY <1>4 DEF step
<1> HIDE DEF Onward
<1>6. Is(h)
  <2>1. \A n \in Nat : n # 0 => h[n] = Onward(h[n - 1])
    <3> SUFFICES ASSUME NEW n \in Nat, n # 0 PROVE h[n] = Onward(h[n - 1])
      OBVIOUS
    <3>1. n - 1 \in Nat /\ (n - 1) + 1 = n
      OBVIOUS
    <3> QED BY <1>5, <3>1
  <2> QED BY <1>4, <2>1
<1>7. Searches(s, t) = CHOOSE dfs : Is(dfs)
  BY DEF Searches, Onward, start
<1> DEFINE D == Searches(s, t)
<1>8. Is(D)
  BY <1>6, <1>7
<1> HIDE DEF D
<1>9. D[0] = start
  BY <1>8
<1>10. ASSUME NEW n \in Nat PROVE D[n + 1] = Onward(D[n])
  <2>1. n + 1 \in Nat /\ n + 1 # 0 /\ (n + 1) - 1 = n
    OBVIOUS
  <2> QED BY <1>8, <2>1
<1> QED BY <1>9, <1>10 DEF D, start, Onward

\* The trail has not met the target.
Avoids(w, n, t) == \A i \in 1 .. n + 1 : w.ids[i] # t

\* Lemma: where the path of a trail ends.
LEMMA PathEnds ==
    ASSUME NEW s, NEW n \in Nat, NEW w \in Trails(s, n)
    PROVE  Last(Named(w, n).ids) = w.ids[n + 1]
<1>1. w.ids \in [1 .. n + 1 -> Present] /\ n + 1 \in Nat
  BY DEF Trails
<1>2. Len(w.ids) = n + 1
  BY <1>1, SequenceOf
<1> QED BY <1>2 DEF Named, Last

\* Lemma: the calls of dfs() are the paths of the trails that have not met the target.
LEMMA SearchesAreTrails ==
    ASSUME GraphIsSound, UnsetAssumption, NEW s \in Present, NEW t, s # t
    PROVE  \A n \in Nat : Searches(s, t)[n] = {Named(w, n) : w \in {u \in Trails(s, n) : Avoids(u, n, t)}}
<1> DEFINE D == Searches(s, t)
           Free(n) == {u \in Trails(s, n) : Avoids(u, n, t)}
           T == {n \in Nat : D[n] = {Named(w, n) : w \in Free(n)}}
<1>1. /\ D[0] = {[ids |-> <<s>>, rels |-> << >>]}
      /\ \A n \in Nat : D[n + 1] = {p \in UNION {Extensions(q) : q \in D[n]} : Last(p.ids) # t}
  BY SearchesUnfold
<1> HIDE DEF D
<1>2. 0 \in T
  <2> DEFINE path == [ids |-> <<s>>, rels |-> << >>]
  <2>1. Trails(s, 0) = {path} /\ Named(path, 0) = path
    BY FirstTrail
  <2>2. Avoids(path, 0, t)
    <3>1. \A i \in 1 .. 0 + 1 : i = 1
      OBVIOUS
    <3>2. path.ids[1] = s
      OBVIOUS
    <3> QED BY <3>1, <3>2 DEF Avoids
  <2>3. D[0] = {path}
    BY <1>1
  <2> HIDE DEF path
  <2> QED BY <2>1, <2>2, <2>3
<1>3. ASSUME NEW n \in T PROVE n + 1 \in T
  <2>0. n \in Nat /\ n + 1 \in Nat /\ (n + 1) + 1 = n + 2 /\ D[n] = {Named(w, n) : w \in Free(n)}
    OBVIOUS
  <2>1. ASSUME NEW p \in D[n + 1] PROVE p \in {Named(w, n + 1) : w \in Free(n + 1)}
    <3>0. D[n + 1] = {x \in UNION {Extensions(y) : y \in D[n]} : Last(x.ids) # t}
      BY <1>1, <2>0
    <3>1. PICK q \in D[n] : p \in Extensions(q)
      <4>1. p \in UNION {Extensions(y) : y \in D[n]}
        BY <2>1, <3>0, Zenon
      <4> QED BY <4>1
    <3>2. PICK w \in Free(n) : q = Named(w, n)
      BY <2>0, <3>1
    <3>3. PICK v \in Trails(s, n + 1) : Shorter(v, n) = w /\ p = Named(v, n + 1)
      BY <2>0, <3>1, <3>2, ExtensionsAreTrails
    <3>4. v.ids[n + 2] # t
      <4>1. Last(p.ids) # t
        BY <2>1, <3>0, Zenon
      <4> QED BY <2>0, <3>3, <4>1, PathEnds
    <3>5. \A i \in 1 .. n + 1 : v.ids[i] # t
      <4>1. \A i \in 1 .. n + 1 : w.ids[i] = v.ids[i]
        BY <2>0, <3>3, TrailIsCut
      <4> QED BY <3>2, <4>1 DEF Avoids
    <3>6. Avoids(v, n + 1, t)
      <4>1. \A i \in 1 .. (n + 1) + 1 : i = n + 2 \/ i \in 1 .. n + 1
        BY <2>0
      <4> QED BY <3>4, <3>5, <4>1 DEF Avoids
    <3> QED BY <3>3, <3>6
  <2>2. ASSUME NEW v \in Free(n + 1) PROVE Named(v, n + 1) \in D[n + 1]
    <3> DEFINE w == Shorter(v, n)
    <3>1. w \in Trails(s, n) /\ \A i \in 1 .. n + 1 : w.ids[i] = v.ids[i]
      BY <2>0, TrailIsCut
    <3>2. \A i \in 1 .. n + 2 : v.ids[i] # t
      BY <2>0 DEF Avoids
    <3>3. Avoids(w, n, t)
      <4>1. \A i \in 1 .. n + 1 : i \in 1 .. n + 2
        BY <2>0
      <4> QED BY <3>1, <3>2, <4>1 DEF Avoids
    <3>4. Named(w, n) \in D[n]
      BY <2>0, <3>1, <3>3
    <3>5. Named(v, n + 1) \in Extensions(Named(w, n))
      BY <2>0, <3>1, ExtensionsAreTrails
    <3>6. Last(Named(v, n + 1).ids) # t
      <4>1. v.ids[n + 2] # t
        <5>1. n + 2 \in 1 .. n + 2
          BY <2>0
        <5> QED BY <3>2, <5>1
      <4> QED BY <2>0, <4>1, PathEnds
    <3> QED BY <1>1, <2>0, <3>4, <3>5, <3>6
  <2> HIDE DEF Free
  <2>3. D[n + 1] = {Named(w, n + 1) : w \in Free(n + 1)}
    BY <2>1, <2>2
  <2> QED BY <2>0, <2>3
<1>4. \A n \in Nat : n \in T
  BY <1>2, <1>3, AllNumbers
<1> QED BY <1>4 DEF D

\* Lemma: what find_paths returns is what goes on to the target.
LEMMA PathsAreTrails ==
    ASSUME GraphIsSound, UnsetAssumption, NEW s \in Present, NEW t, s # t, NEW depth \in Nat
    PROVE  FindPaths(s, t, depth) = UNION {{Named(w, n) : w \in Ways(s, t, n)} : n \in 1 .. depth}
<1> DEFINE D == Searches(s, t)
<1>1. \A n \in Nat : D[n] = {Named(w, n) : w \in {u \in Trails(s, n) : Avoids(u, n, t)}}
  BY SearchesAreTrails
<1>2. FindPaths(s, t, depth) =
          {p \in UNION {Extensions(q) : q \in UNION {D[n] : n \in 0 .. depth - 1}} : Last(p.ids) = t}
  BY DEF FindPaths, SimplePaths
<1> HIDE DEF D
<1>3. ASSUME NEW p \in FindPaths(s, t, depth)
      PROVE  \E n \in 1 .. depth : \E w \in Ways(s, t, n) : p = Named(w, n)
  <2>1. PICK n \in 0 .. depth - 1 : \E q \in D[n] : p \in Extensions(q)
    BY <1>2, <1>3
  <2>2. PICK q \in D[n] : p \in Extensions(q)
    BY <2>1
  <2>0. n \in Nat /\ n + 1 \in Nat /\ n + 1 \in 1 .. depth
    OBVIOUS
  <2>3. PICK w \in Trails(s, n) : q = Named(w, n)
    BY <1>1, <2>0, <2>2
  <2>4. PICK v \in Trails(s, n + 1) : p = Named(v, n + 1)
    <3>1. Extensions(q) = {Named(v, n + 1) : v \in {u \in Trails(s, n + 1) : Shorter(u, n) = w}}
      BY <2>0, <2>3, ExtensionsAreTrails
    <3> QED BY <2>2, <3>1
  <2>5. v.ids[(n + 1) + 1] = t
    BY <1>2, <1>3, <2>0, <2>4, PathEnds
  <2>6. v \in Ways(s, t, n + 1)
    BY <2>0, <2>4, <2>5, WaysAreTrails
  <2> QED BY <2>0, <2>4, <2>6
<1>4. ASSUME NEW n \in 1 .. depth, NEW v \in Ways(s, t, n) PROVE Named(v, n) \in FindPaths(s, t, depth)
  <2> DEFINE m == n - 1
             w == Shorter(v, m)
  <2>0. m \in Nat /\ m + 1 = n /\ n \in Nat /\ m \in 0 .. depth - 1 /\ m + 2 = n + 1
    OBVIOUS
  <2>1. v \in Trails(s, m + 1) /\ v.ids[m + 2] = t
    BY <2>0, WaysAreTrails
  <2> HIDE DEF m
  <2>2. /\ w \in Trails(s, m)
        /\ \A i \in 1 .. m + 1 : w.ids[i] = v.ids[i]
        /\ \A i \in 1 .. m + 1 : v.ids[i] # v.ids[m + 2]
    BY <2>0, <2>1, TrailIsCut
  <2>3. Avoids(w, m, t)
    BY <2>1, <2>2 DEF Avoids
  <2>4. Named(w, m) \in D[m]
    BY <1>1, <2>0, <2>2, <2>3
  <2>5. Named(v, n) \in Extensions(Named(w, m))
    BY <2>0, <2>1, <2>2, ExtensionsAreTrails
  <2>6. Last(Named(v, n).ids) = t
    BY <2>0, <2>1, PathEnds
  <2> QED BY <1>2, <2>0, <2>4, <2>5, <2>6
<1> HIDE DEF D
<1> QED BY <1>3, <1>4

\* Lemma: find_paths returns exactly the simple paths.
LEMMA PathsAreFound ==
    ASSUME GraphIsSound, UnsetAssumption, HopsAssumption
    PROVE  PathsAreAll
<1> SUFFICES ASSUME NEW e \in Present, NEW f \in Present, NEW depth \in 1 .. MaxDepth, e # f
             PROVE  FindPaths(e, f, depth) =
                        UNION {{[ids |-> w.ids, rels |-> [i \in 1 .. n |-> w.rels[i].id]] :
                                    w \in Ways(e, f, n)} : n \in 1 .. depth}
  BY DEF PathsAreAll
<1>1. depth \in Nat
  BY DEF HopsAssumption
<1>2. FindPaths(e, f, depth) = UNION {{Named(w, n) : w \in Ways(e, f, n)} : n \in 1 .. depth}
  BY <1>1, PathsAreTrails
<1> QED BY <1>2 DEF Named

-----------------------------------------------------------------------------
(* Both searches agree *)

\* Lemma: a hop further, the neighbors of all that was visited are visited too.
LEMMA NeighborsAreVisited ==
    ASSUME GraphIsSound, NEW s \in Present, NEW type
    PROVE  \A n \in Nat : \A g \in Visited(s, type, n) : Neighbors(g, type) \subseteq Visited(s, type, n + 1)
<1> DEFINE V(n) == Visited(s, type, n)
           F(n) == Frontier(s, type, n)
           T == {n \in Nat : \A g \in V(n) : Neighbors(g, type) \subseteq V(n + 1)}
<1>1. V(0) = {s} /\ F(0) = {s}
  BY HopByHop
<1>2. \A n \in Nat : /\ F(n + 1) = (UNION {Neighbors(e, type) : e \in F(n)}) \ V(n)
                     /\ V(n + 1) = V(n) \union F(n + 1)
  BY HopByHop
<1> HIDE DEF V, F
<1>3. \A n \in Nat : \A g \in F(n) : Neighbors(g, type) \subseteq V(n + 1)
  BY <1>2
<1>4. 0 \in T
  BY <1>1, <1>3
<1>5. ASSUME NEW n \in T PROVE n + 1 \in T
  <2>1. n + 1 \in Nat
    OBVIOUS
  <2>2. ASSUME NEW g \in V(n + 1) PROVE Neighbors(g, type) \subseteq V((n + 1) + 1)
    <3>1. CASE g \in F(n + 1)
      BY <1>3, <2>1, <3>1
    <3>2. CASE g \in V(n)
      <4>1. Neighbors(g, type) \subseteq V(n + 1)
        BY <3>2
      <4>2. V(n + 1) \subseteq V((n + 1) + 1)
        BY <1>2, <2>1
      <4> QED BY <4>1, <4>2
    <3> QED BY <1>2, <2>2, <3>1, <3>2
  <2> QED BY <2>1, <2>2
<1>6. \A n \in Nat : n \in T
  BY <1>4, <1>5, AllNumbers
<1> QED BY <1>6 DEF V

\* Lemma: a trail of n relationships ends where n hops come to.
LEMMA TrailsAreVisited ==
    ASSUME GraphIsSound, UnsetAssumption, NEW s \in Present
    PROVE  \A n \in Nat : \A w \in Trails(s, n) : w.ids[n + 1] \in Visited(s, Unset, n)
<1> DEFINE V(n) == Visited(s, Unset, n)
           T == {n \in Nat : \A w \in Trails(s, n) : w.ids[n + 1] \in V(n)}
<1>1. 0 \in T
  <2> SUFFICES ASSUME NEW w \in Trails(s, 0) PROVE w.ids[0 + 1] \in V(0)
    OBVIOUS
  <2>1. w.ids[1] = s
    BY DEF Trails
  <2> QED BY <2>1, HopByHop
<1>2. ASSUME NEW n \in T PROVE n + 1 \in T
  <2>0. n \in Nat /\ n + 1 \in Nat /\ (n + 1) + 1 = n + 2
    OBVIOUS
  <2>1. ASSUME NEW v \in Trails(s, n + 1) PROVE v.ids[n + 2] \in V(n + 1)
    <3> DEFINE w == Shorter(v, n)
               r == v.rels[n + 1]
               f == v.ids[n + 2]
               g == v.ids[n + 1]
    <3>1. /\ w \in Trails(s, n)
          /\ \A i \in 1 .. n + 1 : w.ids[i] = v.ids[i]
          /\ {g, f} = {r.source, r.target} /\ r \in relationships
          /\ \A i \in 1 .. n + 1 : v.ids[i] # f
      BY <2>0, TrailIsCut
    <3> HIDE DEF w, r, f, g
    <3>2. g = w.ids[n + 1] /\ g # f
      <4>1. n + 1 \in 1 .. n + 1
        BY <2>0
      <4> QED BY <3>1, <4>1 DEF g
    <3>3. g \in V(n)
      BY <3>1, <3>2
    <3>4. f \in Neighbors(g, Unset)
      BY <3>1, <3>2 DEF Neighbors, Touching, Touches, Wanted, OtherEnd
    <3>5. f \in V(n + 1)
      BY <2>0, <3>3, <3>4, NeighborsAreVisited
    <3> QED BY <3>5 DEF f
  <2> QED BY <2>0, <2>1
<1>3. \A n \in Nat : n \in T
  BY <1>1, <1>2, AllNumbers
<1> QED BY <1>3

\* Lemma: what the n-th hop discovers is the end of a trail of n relationships.
LEMMA FrontiersAreTrails ==
    ASSUME GraphIsSound, UnsetAssumption, NEW s \in Present
    PROVE  \A n \in Nat : \A g \in Frontier(s, Unset, n) : \E w \in Trails(s, n) : w.ids[n + 1] = g
<1> DEFINE V(n) == Visited(s, Unset, n)
           F(n) == Frontier(s, Unset, n)
           Way(g, n, w) == w.ids[n + 1] = g /\ \A i \in 1 .. n + 1 : w.ids[i] \in V(n)
           T == {n \in Nat : \A g \in F(n) : \E w \in Trails(s, n) : Way(g, n, w)}
<1>1. V(0) = {s} /\ F(0) = {s}
  BY HopByHop
<1>2. \A n \in Nat : /\ F(n + 1) = (UNION {Neighbors(e, Unset) : e \in F(n)}) \ V(n)
                     /\ V(n + 1) = V(n) \union F(n + 1)
  BY HopByHop
<1> HIDE DEF V, F
<1>3. 0 \in T
  <2> DEFINE path == [ids |-> <<s>>, rels |-> << >>]
  <2>1. path \in Trails(s, 0)
    BY FirstTrail
  <2>2. \A i \in 1 .. 0 + 1 : i = 1
    OBVIOUS
  <2>3. path.ids[1] = s /\ 0 + 1 = 1
    OBVIOUS
  <2> HIDE DEF path
  <2>4. Way(s, 0, path)
    BY <1>1, <2>2, <2>3
  <2> HIDE DEF Way
  <2> QED BY <1>1, <2>1, <2>4
<1>4. ASSUME NEW n \in T PROVE n + 1 \in T
  <2>0. n \in Nat /\ n + 1 \in Nat /\ (n + 1) + 1 = n + 2
    OBVIOUS
  <2>1. ASSUME NEW f \in F(n + 1) PROVE \E v \in Trails(s, n + 1) : Way(f, n + 1, v)
    <3>0. /\ F(n + 1) = (UNION {Neighbors(e, Unset) : e \in F(n)}) \ V(n)
          /\ V(n + 1) = V(n) \union F(n + 1)
      BY <1>2, <2>0
    <3>1. PICK g \in F(n) : f \in Neighbors(g, Unset)
      <4>1. f \in UNION {Neighbors(e, Unset) : e \in F(n)}
        BY <2>1, <3>0, Zenon
      <4> QED BY <4>1
    <3>2. f \notin V(n) /\ f \in V(n + 1) /\ V(n) \subseteq V(n + 1)
      BY <2>1, <3>0
    <3>3. PICK w \in Trails(s, n) : Way(g, n, w)
      OBVIOUS
    <3>4. PICK r \in Touching(g, Unset) : f = OtherEnd(r, g)
      BY <3>1 DEF Neighbors
    <3>5. GoesOn(w, n, r, f)
      <4>1. r \in relationships /\ {r.source, r.target} = {g, f}
        BY <3>4, TouchingLeads
      <4> QED BY <3>2, <3>3, <4>1 DEF GoesOn
    <3>6. PICK v \in Trails(s, n + 1) : Shorter(v, n) = w /\ v.ids[n + 2] = f
      <4>1. \E v \in Trails(s, n + 1) :
                /\ Shorter(v, n) = w /\ v.ids[n + 2] = f
                /\ Named(v, n + 1) = [ids |-> Append(w.ids, f), rels |-> Append(Named(w, n).rels, r.id)]
        BY <2>0, <3>5, TrailGoesOn
      <4> QED BY <4>1
    <3>7. \A i \in 1 .. n + 1 : w.ids[i] = v.ids[i]
      <4>1. \A i \in 1 .. n + 1 : Shorter(v, n).ids[i] = v.ids[i]
        BY <2>0, TrailIsCut
      <4> QED BY <3>6, <4>1
    <3>8. \A i \in 1 .. (n + 1) + 1 : i = n + 2 \/ i \in 1 .. n + 1
      BY <2>0
    <3>9. \A i \in 1 .. (n + 1) + 1 : v.ids[i] \in V(n + 1)
      BY <3>2, <3>3, <3>6, <3>7, <3>8
    <3> QED BY <2>0, <3>6, <3>9
  <2> HIDE DEF Way
  <2> QED BY <2>0, <2>1
<1>5. \A n \in Nat : n \in T
  BY <1>3, <1>4, AllNumbers
<1> QED BY <1>5 DEF F

\* Lemma: what was visited was discovered by one of the hops, and stays visited.
LEMMA VisitedIsFound ==
    ASSUME GraphIsSound, NEW s \in Present, NEW type
    PROVE  \A n \in Nat : \A f \in Visited(s, type, n) \ {s} : \E m \in 1 .. n : f \in Frontier(s, type, m)
<1> DEFINE V(n) == Visited(s, type, n)
           F(n) == Frontier(s, type, n)
           T == {n \in Nat : \A f \in V(n) \ {s} : \E m \in 1 .. n : f \in F(m)}
<1>1. V(0) = {s} /\ \A n \in Nat : V(n + 1) = V(n) \union F(n + 1)
  BY HopByHop
<1> HIDE DEF V, F
<1>2. 0 \in T
  BY <1>1
<1>3. ASSUME NEW n \in T PROVE n + 1 \in T
  <2>0. n + 1 \in Nat /\ n + 1 \in 1 .. n + 1 /\ \A m \in 1 .. n : m \in 1 .. n + 1
    OBVIOUS
  <2>1. ASSUME NEW f \in V(n + 1) \ {s} PROVE \E m \in 1 .. n + 1 : f \in F(m)
    <3>1. f \in V(n) \ {s} \/ f \in F(n + 1)
      BY <1>1
    <3> QED BY <2>0, <3>1
  <2> QED BY <2>0, <2>1
<1>4. \A n \in Nat : n \in T
  BY <1>2, <1>3, AllNumbers
<1> QED BY <1>4 DEF V, F

\* Lemma: more hops visit no less.
LEMMA VisitedGrows ==
    ASSUME GraphIsSound, NEW s \in Present, NEW type, NEW m \in Nat
    PROVE  \A n \in Nat : m <= n => Visited(s, type, m) \subseteq Visited(s, type, n)
<1> DEFINE V(n) == Visited(s, type, n)
           T == {n \in Nat : m <= n => V(m) \subseteq V(n)}
<1>1. \A n \in Nat : V(n) \subseteq V(n + 1)
  BY HopByHop
<1> HIDE DEF V
<1>2. 0 \in T
  OBVIOUS
<1>3. ASSUME NEW n \in T PROVE n + 1 \in T
  <2>1. n + 1 \in Nat /\ (m <= n + 1 => m <= n \/ m = n + 1)
    OBVIOUS
  <2> QED BY <1>1, <2>1
<1>4. \A n \in Nat : n \in T
  BY <1>2, <1>3, AllNumbers
<1> QED BY <1>4 DEF V

\* Lemma: the breadth-first and the depth-first search agree.
LEMMA BothSearchesAgree ==
    ASSUME GraphIsSound, UnsetAssumption, HopsAssumption
    PROVE  SearchesAgree
<1> SUFFICES ASSUME NEW e \in Present, NEW f \in Present, NEW depth \in 1 .. MaxDepth
             PROVE  f \in Reachable(e, depth, Unset) <=> FindPaths(e, f, depth) # {}
  BY DEF SearchesAgree
<1>1. depth \in Nat /\ 0 <= depth
  BY DEF HopsAssumption
<1>2. Reachable(e, depth, Unset) = Visited(e, Unset, depth)
  BY DEF Reachable, Visited
<1>3. CASE e = f
  <2>1. e \in Visited(e, Unset, 0)
    BY HopByHop
  <2>2. e \in Visited(e, Unset, depth)
    BY <1>1, <2>1, VisitedGrows
  <2>3. FindPaths(e, f, depth) # {}
    BY <1>3 DEF FindPaths
  <2> QED BY <1>2, <1>3, <2>2, <2>3
<1>4. CASE e # f
  <2>1. FindPaths(e, f, depth) = UNION {{Named(w, n) : w \in Ways(e, f, n)} : n \in 1 .. depth}
    BY <1>1, <1>4, PathsAreTrails
  <2>2. ASSUME f \in Visited(e, Unset, depth) PROVE FindPaths(e, f, depth) # {}
    <3>1. PICK n \in 1 .. depth : f \in Frontier(e, Unset, n)
      BY <1>1, <1>4, <2>2, VisitedIsFound
    <3>2. n \in Nat
      BY <1>1
    <3>3. PICK w \in Trails(e, n) : w.ids[n + 1] = f
      BY <3>1, <3>2, FrontiersAreTrails
    <3>4. w \in Ways(e, f, n)
      BY <3>2, <3>3, WaysAreTrails
    <3>5. Named(w, n) \in FindPaths(e, f, depth)
      BY <2>1, <3>4
    <3> QED BY <3>5
  <2>3. ASSUME FindPaths(e, f, depth) # {} PROVE f \in Visited(e, Unset, depth)
    <3>1. PICK n \in 1 .. depth : \E w \in Ways(e, f, n) : TRUE
      BY <2>1, <2>3
    <3>2. n \in Nat /\ n <= depth
      BY <1>1
    <3>3. PICK w \in Trails(e, n) : w.ids[n + 1] = f
      BY <3>1, <3>2, WaysAreTrails
    <3>4. f \in Visited(e, Unset, n)
      BY <3>2, <3>3, TrailsAreVisited
    <3> QED BY <1>1, <3>2, <3>4, VisitedGrows
  <2> QED BY <1>2, <2>2, <2>3
<1> QED BY <1>3, <1>4

-----------------------------------------------------------------------------
(* What the calls announce *)

\* Lemma: an announcement depends on what an answer names.
LEMMA AnnouncementTells ==
    ASSUME NEW asked, NEW answer,
           asked \subseteq Present => /\ answer.entities \subseteq Present
                                     /\ EndsOf(answer.relationships) \subseteq Present
    PROVE  LET announced == Execute(RequireEntities(asked, answer)) IN
           /\ announced = <<"REASONING_QUERY_FAILED">> <=> ~(asked \subseteq Present)
           /\ announced # << >>
<1> DEFINE announced == Execute(RequireEntities(asked, answer))
<1>0. /\ <<"REASONING_QUERY_FAILED">> # <<"REASONING_QUERY_EXECUTED", "REASONING_RESULT_CREATED">>
      /\ <<"REASONING_QUERY_FAILED">> # << >>
      /\ <<"REASONING_QUERY_EXECUTED", "REASONING_RESULT_CREATED">> # << >>
  <2>1. /\ Len(<<"REASONING_QUERY_FAILED">>) = 1 /\ Len(<< >>) = 0
        /\ Len(<<"REASONING_QUERY_EXECUTED", "REASONING_RESULT_CREATED">>) = 2
    OBVIOUS
  <2> QED BY <2>1
<1>1. CASE asked \subseteq Present
  <2>1. RequireEntities(asked, answer) = {answer}
    BY <1>1 DEF RequireEntities
  <2>2. announced = <<"REASONING_QUERY_EXECUTED", "REASONING_RESULT_CREATED">>
    <3>1. ~\E a \in {answer} : ~(a.entities \union EndsOf(a.relationships) \subseteq Present)
      BY <1>1
    <3>2. {answer} # {}
      OBVIOUS
    <3> QED BY <2>1, <3>1, <3>2, Zenon DEF Execute
  <2> QED BY <1>0, <1>1, <2>2
<1>2. CASE ~(asked \subseteq Present)
  <2>1. RequireEntities(asked, answer) = {}
    BY <1>2 DEF RequireEntities
  <2>2. announced = <<"REASONING_QUERY_FAILED">>
    BY <2>1 DEF Execute
  <2> QED BY <1>0, <1>2, <2>2
<1> QED BY <1>1, <1>2

\* Lemma: the ends of an answer's relationships are there.
LEMMA EndsArePresentIn ==
    ASSUME GraphIsSound, NEW found \in SUBSET relationships
    PROVE  EndsOf(found) \subseteq Present
BY DEF GraphIsSound, NoDangling, EndsOf

\* Lemma: every call announces how it ended.
LEMMA CallsAnnounce ==
    ASSUME GraphIsSound, UnsetAssumption, HopsAssumption
    PROVE  CallsAreAnnounced
<1> DEFINE Fine(answers, asked) ==
               /\ Execute(answers) = <<"REASONING_QUERY_FAILED">> <=> ~(asked \subseteq Present)
               /\ Execute(answers) # << >>
<1> SUFFICES ASSUME NEW e \in EntityIds, NEW f \in EntityIds, NEW type \in AllTypes,
                    NEW depth \in 1 .. MaxDepth
             PROVE  /\ Fine(AskNeighbors(e), {e}) /\ Fine(AskSummary(e), {e})
                    /\ Fine(AskRelated(e, type), {e})
                    /\ Fine(AskQuery(e, Unset, type, depth, EntityIds), {e})
                    /\ Fine(AskPaths(e, f, depth), {e, f})
  <2> HIDE DEF Fine
  <2>1. Unset \in AllTypes
    BY DEF AllTypes
  <2> QED BY <2>1 DEF CallsAreAnnounced, Fine
<1>0. depth \in Nat /\ e # Unset /\ Present \subseteq EntityIds
  BY DEF HopsAssumption, UnsetAssumption, GraphIsSound, GraphTypeOK
<1>1. ASSUME NEW x PROVE Touching(e, x) \subseteq relationships /\ (e \in Present => Neighbors(e, x) \subseteq Present)
  <2>1. Touching(e, x) \subseteq relationships
    BY DEF Touching, Wanted
  <2>2. \A r \in Touching(e, x) : OtherEnd(r, e) \in Present
    BY TouchingLeads
  <2> QED BY <2>1, <2>2 DEF Neighbors
<1>2. ASSUME NEW x PROVE Fine(RequireEntities({e}, Answer(Neighbors(e, x), Touching(e, x))), {e})
  <2> DEFINE answer == Answer(Neighbors(e, x), Touching(e, x))
  <2>1. answer.entities = Neighbors(e, x) /\ answer.relationships = Touching(e, x)
    BY DEF Answer
  <2> HIDE DEF answer
  <2>2. {e} \subseteq Present => answer.entities \subseteq Present /\ EndsOf(answer.relationships) \subseteq Present
    BY <1>1, <2>1, EndsArePresentIn
  <2>3. Fine(RequireEntities({e}, answer), {e})
    BY <2>2, AnnouncementTells
  <2> QED BY <2>3 DEF answer
<1>3. Fine(AskNeighbors(e), {e}) /\ Fine(AskRelated(e, type), {e})
  BY <1>2 DEF AskNeighbors, AskRelated
<1>4. Fine(AskSummary(e), {e})
  <2> DEFINE answer == Answer({e}, Touching(e, Unset))
  <2>1. answer.entities = {e} /\ answer.relationships = Touching(e, Unset)
    BY DEF Answer
  <2> HIDE DEF answer
  <2>2. {e} \subseteq Present => answer.entities \subseteq Present /\ EndsOf(answer.relationships) \subseteq Present
    BY <1>1, <2>1, EndsArePresentIn
  <2>3. Fine(RequireEntities({e}, answer), {e})
    BY <2>2, AnnouncementTells
  <2> QED BY <2>3 DEF answer, AskSummary
<1>5. Fine(AskQuery(e, Unset, type, depth, EntityIds), {e})
  <2> DEFINE answer == Query(e, Unset, type, depth, EntityIds)
             visited == Reachable(e, depth, type)
  <2>1. answer = QueryByEntity(e, Unset, type, depth, EntityIds)
    BY <1>0 DEF Query
  <2>2. answer.entities \subseteq visited /\ answer.relationships \subseteq relationships
    BY <2>1 DEF QueryByEntity, Induced, Wanted
  <2>3. e \in Present => visited \subseteq Present
    BY <1>0, HopByHop DEF Reachable, Visited
  <2> HIDE DEF answer, visited
  <2>4. {e} \subseteq Present => answer.entities \subseteq Present /\ EndsOf(answer.relationships) \subseteq Present
    BY <2>2, <2>3, EndsArePresentIn
  <2>5. Fine(RequireEntities({e}, answer), {e})
    BY <2>4, AnnouncementTells
  <2>6. {e} \ {Unset} = {e}
    BY <1>0
  <2> QED BY <2>5, <2>6 DEF answer, AskQuery
<1>6. Fine(AskPaths(e, f, depth), {e, f})
  <2> DEFINE paths == FindPaths(e, f, depth)
             answer == Answer(UNION {ToSet(p.ids) : p \in paths},
                              {r \in relationships : \E p \in paths : r.id \in ToSet(p.rels)})
  <2>1. ASSUME {e, f} \subseteq Present, NEW p \in paths PROVE ToSet(p.ids) \subseteq Present
    <3>1. CASE e = f
      <4>1. p.ids = <<e>>
        BY <2>1, <3>1 DEF FindPaths
      <4> QED BY <2>1, <4>1 DEF ToSet
    <3>2. CASE e # f
      <4>1. PICK n \in 1 .. depth : \E w \in Ways(e, f, n) : p = Named(w, n)
        BY <1>0, <2>1, <3>2, PathsAreTrails
      <4>2. PICK w \in Ways(e, f, n) : p = Named(w, n)
        BY <4>1
      <4>3. p.ids \in [1 .. n + 1 -> Present]
        BY <4>2 DEF Ways, Named
      <4> QED BY <4>3 DEF ToSet
    <3> QED BY <3>1, <3>2
  <2> HIDE DEF paths
  <2>2. /\ answer.entities = UNION {ToSet(p.ids) : p \in paths}
        /\ answer.relationships \subseteq relationships
    BY DEF Answer
  <2>3. AskPaths(e, f, depth) = RequireEntities({e, f}, answer)
    BY DEF AskPaths, paths
  <2> HIDE DEF answer
  <2>4. {e, f} \subseteq Present => answer.entities \subseteq Present /\ EndsOf(answer.relationships) \subseteq Present
    BY <2>1, <2>2, EndsArePresentIn
  <2>5. Fine(RequireEntities({e, f}, answer), {e, f})
    BY <2>4, AnnouncementTells
  <2> QED BY <2>3, <2>5
<1> QED BY <1>3, <1>4, <1>5, <1>6

-----------------------------------------------------------------------------
(* The theorem *)

\* The invariant behind the counts.
GraphIsFinite == IsFiniteSet(relationships)

\* Lemma: it holds.
LEMMA GraphStaysFinite == GraphSpec => []GraphIsFinite
<1>1. GraphInit => GraphIsFinite
  BY FS_EmptySet DEF GraphInit, GraphIsFinite
<1>2. GraphIsFinite /\ [GraphNext]_graphVars => GraphIsFinite'
  <2> SUFFICES ASSUME IsFiniteSet(relationships), [GraphNext]_graphVars
               PROVE  IsFiniteSet(relationships')
    BY DEF GraphIsFinite
  <2>1. ASSUME NEW e, RemoveEntity(e) PROVE IsFiniteSet(relationships')
    BY <2>1, FS_Subset DEF RemoveEntity
  <2>2. ASSUME NEW e, NEW content, AddEntity(e, content) PROVE IsFiniteSet(relationships')
    BY <2>2 DEF AddEntity
  <2>3. ASSUME NEW r, AddRelationship(r) PROVE IsFiniteSet(relationships')
    BY <2>3, FS_AddElement DEF AddRelationship
  <2>4. ASSUME NEW r, RemoveRelationship(r) PROVE IsFiniteSet(relationships')
    BY <2>4, FS_Subset DEF RemoveRelationship
  <2>5. CASE UNCHANGED graphVars
    BY <2>5 DEF graphVars
  <2> QED BY <2>1, <2>2, <2>3, <2>4, <2>5 DEF GraphNext
<1> QED BY <1>1, <1>2, PTL DEF GraphSpec

\* Theorem: in every graph that additions and removals can build, of any size, the searches
\* find what they are asked for.
THEOREM SearchesStayRight == GraphSpec => []SearchesAreRight
<1>1. GraphIsSound /\ GraphIsFinite => SearchesAreRight
  BY UnsetAssumption, HopsAssumption, BothSearchesAgree, PathsAreFound, OneHop, PatternsMatch,
     SummaryIsRight, CallsAnnounce DEF SearchesAreRight, GraphIsFinite
<1> QED BY <1>1, GraphStaysSound, GraphStaysFinite, PTL
=============================================================================
