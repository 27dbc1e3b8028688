------------------------------ MODULE MCParts ------------------------------
(***************************************************************************)
(* Small instances, side by side, of the parts around the services: the    *)
(* chain behind the agent service, the planner, the searches of the        *)
(* reasoning engine, the decision engine, connectors and plugins, the      *)
(* builders, and the program from start to end.  As in MCServices they     *)
(* share no state, and a behaviour is one of the part in focus.            *)
(***************************************************************************)
EXTENDS AgentService, Extensions, Reasoning, DecisionEngine, Builders, Bootstrap

VARIABLE focus

managerVars == <<connectorVars, connected, plugins, historyVars>>
planVars == <<registry, plannerVars>>
vars == <<focus, stack, planVars, agentVars, graphVars, managerVars, rules,
          builderVars, bootVars>>

\* Two capabilities of one name, of which steps require the first.
MCOffered ==
    {[id |-> i, name |-> "a", intents |-> {}, enabled |-> TRUE, workflow |-> "w"] : i \in 1 .. 2}
MCRequired == {1}

\* Two rules of one priority, and one that goes before them.
MCRules == {[id |-> 1, priority |-> 1], [id |-> 2, priority |-> 0], [id |-> 3, priority |-> 1]}

F == INSTANCE Errors

MCInit ==
    /\ focus \in {"agent", "planner", "reasoning", "extensions", "decision", "builders", "program"}
    /\ ChainInit
    /\ GraphInit
    /\ ExtensionsInit
    /\ DecisionInit
    /\ BuilderInit
    /\ focus # "builders" => kind = CHOOSE k \in Kinds : TRUE
    /\ BootInit

\* Bounds: requests run inside each other with sessions that have no steps; the planner
\* has one plan; of the others two calls, or one evaluation, are open at a time; and one
\* capability is built, while other builders build two objects.
Requesting == ChainNext /\ made' = 0 /\ registry' = << >>
Planning == PlannerNext /\ Len(plans') <= 1 /\ Len(stack') <= 2
Extending == ExtensionsNext /\ Len(stack') <= 2
Deciding == DecisionNext /\ Len(stack') <= 1
Building == BuilderNext /\ (kind = "capability" => Len(objects') <= 1)

Program ==
    /\ focus = "program"
    /\ UNCHANGED <<focus, stack, planVars, agentVars, graphVars, managerVars, rules, builderVars>>

MCNext ==
    \/ /\ focus = "agent" /\ Requesting
       /\ UNCHANGED <<focus, graphVars, managerVars, rules, builderVars, bootVars>>
    \/ /\ focus = "planner" /\ Planning
       /\ UNCHANGED <<focus, agentVars, graphVars, managerVars, rules, builderVars, bootVars>>
    \/ /\ focus = "reasoning" /\ GraphNext
       /\ UNCHANGED <<focus, stack, planVars, agentVars, managerVars, rules, builderVars, bootVars>>
    \/ /\ focus = "extensions" /\ Extending
       /\ UNCHANGED <<focus, planVars, agentVars, graphVars, rules, builderVars, bootVars>>
    \/ /\ focus = "decision" /\ Deciding
       /\ UNCHANGED <<focus, planVars, agentVars, graphVars, managerVars, builderVars, bootVars>>
    \/ /\ focus = "builders" /\ Building
       /\ UNCHANGED <<focus, stack, planVars, agentVars, graphVars, managerVars, rules, bootVars>>
    \/ Program /\ BootNext

\* The fairness of Bootstrap: main() is one thread, and goes on.
MCFairness == WF_vars(Program /\ Main)

MCSpec == MCInit /\ [][MCNext]_vars /\ MCFairness

-----------------------------------------------------------------------------
(* The property that joins two of the parts; the others have their own.    *)

\* Failures end where they should: an exception tells which component failed (Errors),
\* and whatever raises, main() comes to its end and leaves no application running
\* (Bootstrap).
FailuresEnd == F!BoundariesHold /\ (focus = "program" => MainEnds)
=============================================================================
