----------------------------- MODULE Bootstrap -----------------------------
(***************************************************************************)
(* The program from start to end: main.py, argus/bootstrap.py, the module  *)
(* loader, and what they fill: the container, the service registry, the    *)
(* lifecycle manager and the application.                                  *)
(*                                                                         *)
(* Two records of a service's lifecycle exist side by side: the state that *)
(* the service keeps itself, and the entry of the lifecycle manager.  No   *)
(* code couples them, so that each has operations of its own here.         *)
(***************************************************************************)
EXTENDS Naturals, Sequences, FiniteSets

CONSTANTS
    Managed,   \* services whose lifecycles are operated on while the program runs, of
               \* those of LifecycleOf, the workflow engine among them
    Modules    \* names that the installed modules register in the container

VARIABLES
    phase,      \* where main() is
    built,      \* number of services constructed and registered in the container
    container,  \* names in Container._services
    services,   \* names in InMemoryServiceRegistry._services
    recorded,   \* LifecycleManager._states
    own,        \* _state of the managed services
    running     \* Application._running

bootVars == <<phase, built, container, services, recorded, own, running>>

-----------------------------------------------------------------------------
(* The services, each with those it is constructed with, in the order of   *)
(* bootstrap().                                                            *)

Service(name, needs) == [name |-> name, needs |-> needs]

Foundation == <<
    Service("configuration", {}),
    Service("logger", {"configuration"}),
    Service("event_bus", {"logger"}),
    Service("service_registry", {}),
    Service("lifecycle_manager", {}),
    Service("knowledge_service", {"event_bus"}),
    Service("memory_service", {"event_bus"}),
    Service("scheduler", {"event_bus"}),
    Service("intent_router", {"event_bus"}),
    Service("workflow_engine", {"event_bus"}),
    Service("conversation_manager", {"event_bus", "intent_router", "workflow_engine"}) >>

Cognition == <<
    Service("capability_registry", {"event_bus"}),
    Service("plugin_manager", {"event_bus", "capability_registry"}),
    Service("intent_dispatcher", {"event_bus", "capability_registry", "workflow_engine"}),
    Service("planner", {"event_bus", "capability_registry"}),
    Service("knowledge_graph", {"event_bus"}),
    Service("memory_integration", {"memory_service", "knowledge_graph", "event_bus"}),
    Service("reasoning_engine", {"knowledge_graph", "memory_integration", "event_bus"}),
    Service("decision_engine", {"reasoning_engine", "event_bus"}),
    Service("agent_runtime", {"event_bus", "intent_dispatcher", "planner"}) >>

Chain == <<
    Service("connector_manager", {"event_bus"}),
    Service("cognitive_pipeline", {"planner"}),
    Service("capability_executor", {"capability_registry"}),
    Service("execution_engine", {"capability_executor"}),
    Service("response_engine", {}),
    Service("agent_service", {"cognitive_pipeline", "execution_engine", "response_engine"}) >>

Order == Foundation \o Cognition \o Chain

\* The tuple of _register_core_services has an order of its own.
CoreServices == <<
    "configuration", "logger", "event_bus", "service_registry", "lifecycle_manager",
    "knowledge_service", "memory_service", "scheduler", "intent_router", "workflow_engine",
    "conversation_manager", "capability_registry", "intent_dispatcher", "plugin_manager",
    "planner", "knowledge_graph", "memory_integration", "reasoning_engine", "decision_engine",
    "agent_runtime", "connector_manager", "cognitive_pipeline", "capability_executor",
    "execution_engine", "response_engine", "agent_service" >>

LifecycleStates ==
    {"CREATED", "REGISTERED", "INITIALIZING", "RUNNING", "STOPPING", "STOPPED", "FAILED"}

\* What a service lets initialize(), start() and stop() do to its own state; stop()
\* passes STOPPING in the same call.
Lifecycle == {<<"CREATED", "INITIALIZING">>, <<"INITIALIZING", "RUNNING">>, <<"RUNNING", "STOPPED">>}

IntentRouterLifecycle == Lifecycle
WorkflowEngineLifecycle == Lifecycle
KnowledgeGraphLifecycle == Lifecycle
ReasoningEngineLifecycle == Lifecycle
DecisionEngineLifecycle == Lifecycle
CapabilityExecutorLifecycle == Lifecycle
ExecutionEngineLifecycle == Lifecycle
ResponseEngineLifecycle == Lifecycle

LifecycleOf ==
    [intent_router |-> IntentRouterLifecycle, workflow_engine |-> WorkflowEngineLifecycle,
     knowledge_graph |-> KnowledgeGraphLifecycle, reasoning_engine |-> ReasoningEngineLifecycle,
     decision_engine |-> DecisionEngineLifecycle,
     capability_executor |-> CapabilityExecutorLifecycle,
     execution_engine |-> ExecutionEngineLifecycle, response_engine |-> ResponseEngineLifecycle]

ASSUME ManagedAssumption == "workflow_engine" \in Managed /\ Managed \subseteq DOMAIN LifecycleOf

BootInit ==
    /\ phase = "constructing"
    /\ built = 0
    /\ container = {} /\ services = {}
    /\ recorded = << >> /\ own = << >>
    /\ running = FALSE

-----------------------------------------------------------------------------
(* bootstrap() *)

Register(name) == name \notin container /\ container' = container \union {name}

Noted(f, name, state) == [n \in DOMAIN f \union {name} |-> IF n = name THEN state ELSE f[n]]

Construct ==
    /\ phase = "constructing"
    /\ built < Len(Order)
    /\ Register(Order[built + 1].name)
    /\ built' = built + 1
    /\ own' = IF Order[built'].name \in Managed THEN Noted(own, Order[built'].name, "CREATED") ELSE own
    /\ UNCHANGED <<phase, services, recorded, running>>

\* A constructor raises, for one the knowledge and memory services, which read
\* their files; nothing catches it.
ConstructorRaises ==
    /\ phase = "constructing"
    /\ built < Len(Order)
    /\ phase' = "aborted"
    /\ UNCHANGED <<built, container, services, recorded, own, running>>

\* Of a core service, the registration in the service registry and the one in the
\* lifecycle manager, which refuse a name they have.
RegisterCore ==
    /\ phase = "constructing"
    /\ built = Len(Order)
    /\ Cardinality(services) < Len(CoreServices)
    /\ LET name == CoreServices[Cardinality(services) + 1] IN
       /\ name \notin services
       /\ name \notin DOMAIN recorded
       /\ services' = services \union {name}
       /\ recorded' = Noted(recorded, name, "REGISTERED")
    /\ UNCHANGED <<phase, built, container, own, running>>

StartApplication ==
    /\ phase = "constructing"
    /\ Cardinality(services) = Len(CoreServices)
    /\ "logger" \in container
    /\ running' = TRUE
    /\ phase' = "loading"
    /\ UNCHANGED <<built, container, services, recorded, own>>

-----------------------------------------------------------------------------
(* main() after bootstrap() *)

\* A registrar puts the names of its module into the container, or raises.
LoadModule(name) ==
    /\ phase = "loading"
    /\ Register(name)
    /\ UNCHANGED <<phase, built, services, recorded, own, running>>

\* After the registrars the module loader starts the workflow engine, unless
\* somebody has done so.
StartEngine ==
    /\ phase = "loading"
    /\ Modules \subseteq container
    /\ phase' = "loaded"
    /\ own' = IF own["workflow_engine"] = "CREATED"
              THEN Noted(own, "workflow_engine", "RUNNING") ELSE own
    /\ UNCHANGED <<built, container, services, recorded, running>>

LoadingRaises ==
    /\ phase = "loading"
    /\ phase' = "failing"
    /\ UNCHANGED <<built, container, services, recorded, own, running>>

\* Mutant of Shutdown: it is no finally block.
ShutdownUnlessRaised ==
    /\ phase = "loaded"
    /\ running' = FALSE
    /\ phase' = "ended"
    /\ UNCHANGED <<built, container, services, recorded, own>>

\* In a finally block; the services are not stopped.
Shutdown ==
    /\ phase \in {"loaded", "failing"}
    /\ running' = FALSE
    /\ phase' = "ended"
    /\ UNCHANGED <<built, container, services, recorded, own>>

Main ==
    \/ Construct \/ ConstructorRaises \/ RegisterCore \/ StartApplication
    \/ \E name \in Modules : LoadModule(name)
    \/ StartEngine \/ LoadingRaises \/ Shutdown

-----------------------------------------------------------------------------
(* What a module may do with the services while it is loaded *)

Loading == phase = "loading" /\ UNCHANGED <<phase, built, container, running>>

\* initialize, start, stop of the service itself.
ShiftOwn(s) ==
    /\ Loading
    /\ \E step \in LifecycleOf[s] :
           own[s] = step[1] /\ own' = [own EXCEPT ![s] = step[2]]
    /\ UNCHANGED <<services, recorded>>

Transition(s, required, target) ==
    /\ Loading
    /\ recorded[s] = required
    /\ recorded' = [recorded EXCEPT ![s] = target]
    /\ UNCHANGED <<services, own>>

InitializeRecord(s) == Transition(s, "REGISTERED", "INITIALIZING")
StartRecord(s) == Transition(s, "INITIALIZING", "RUNNING")

\* STOPPING is left in the same call.
StopRecord(s) == Transition(s, "RUNNING", "STOPPED")

Failable == {"REGISTERED", "INITIALIZING", "RUNNING", "STOPPING"}
FailRecord(s) == \E state \in Failable : Transition(s, state, "FAILED")

\* The service registry forgets a service, and takes one of the same name again;
\* the lifecycle manager keeps its entry, and refuses to register it anew.
Unregister(s) ==
    /\ Loading
    /\ s \in services
    /\ services' = services \ {s}
    /\ UNCHANGED <<recorded, own>>

\* Mutant of RegisterAgain: the entry of the lifecycle manager is begun anew.
RegisterAgainAnew(s) ==
    /\ Loading
    /\ s \notin services
    /\ services' = services \union {s}
    /\ recorded' = Noted(recorded, s, "REGISTERED")
    /\ UNCHANGED own

RegisterAgain(s) ==
    /\ Loading
    /\ s \notin services
    /\ services' = services \union {s}
    /\ UNCHANGED <<recorded, own>>

BootNext ==
    \/ Main
    \/ \E s \in Managed :
           \/ ShiftOwn(s) \/ InitializeRecord(s) \/ StartRecord(s) \/ StopRecord(s)
           \/ FailRecord(s) \/ Unregister(s) \/ RegisterAgain(s)

\* main() is one thread that does one thing after the other, so that what it can
\* do next it does; that a registrar comes to an end is assumed of the modules.
BootFairness == WF_bootVars(Main)

BootSpec == BootInit /\ [][BootNext]_bootVars /\ BootFairness

-----------------------------------------------------------------------------
(* Properties *)

\* Types.
BootTypeOK ==
    /\ phase \in {"constructing", "loading", "loaded", "failing", "ended", "aborted"}
    /\ built \in 0 .. Len(Order)
    /\ recorded \in [DOMAIN recorded -> LifecycleStates]
    /\ own \in [DOMAIN own -> LifecycleStates] /\ DOMAIN own \subseteq Managed

\* A service that was not started does not run, and one that was stopped does not run
\* again: the state of its own goes one way.
OneWay ==
    LET rank == [CREATED |-> 0, INITIALIZING |-> 1, RUNNING |-> 2, STOPPED |-> 3]
    IN \A s \in DOMAIN own : rank[own[s]] <= rank[own'[s]]
OwnGoesOneWay == [][OneWay]_bootVars

\* No constructor is given a service that does not exist yet.
BuiltInOrder ==
    \A i \in 1 .. built : Order[i].needs \subseteq {Order[j].name : j \in 1 .. i - 1}

\* The application is told to be running only when every service that was
\* constructed can be found under its name in all three places: the two lists
\* of names that the code keeps by hand agree.
Complete == running' /\ ~running => container = services /\ services = DOMAIN recorded
RunningIsComplete == [][Complete]_bootVars

\* An entry of the lifecycle manager that is STOPPED or FAILED is final, even if
\* the service is unregistered and registered again.
Final ==
    \A s \in DOMAIN recorded :
        recorded[s] \in {"STOPPED", "FAILED"} => recorded'[s] = recorded[s]
EndedIsFinal == [][Final]_bootVars

\* Whatever raises, main() comes to its end, and leaves no application running.
MainEnds == <>(phase \in {"ended", "aborted"} /\ ~running)

\* The program comes up in an order in which everything it needs is there, with
\* three registries that agree, and what has ended in it stays so.
ProgramIsSound ==
    [](BootTypeOK /\ BuiltInOrder) /\ RunningIsComplete /\ EndedIsFinal /\ OwnGoesOneWay
=============================================================================
