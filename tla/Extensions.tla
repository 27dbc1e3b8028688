----------------------------- MODULE Extensions -----------------------------
(***************************************************************************)
(* The two registries of extensions: the connector manager                 *)
(* (argus/connectors/manager.py), which also invokes connectors, and the   *)
(* plugin manager (argus/plugins/manager.py).  Connectors are code of the  *)
(* host behind the interface of MockConnector: connect() and invoke() may  *)
(* call the managers again, and may raise; so may handlers of the events.  *)
(***************************************************************************)
EXTENDS CallStack

CONSTANTS
    ConnectorIds,
    Implementations,  \* connector objects; one object may serve two ids
    PluginIds,
    MaxInvocations    \* bound: invocations

VARIABLES
    connectorManager,  \* ConnectorManager._state
    connectors,        \* ConnectorManager._connectors: id -> enabled
    implementations,   \* ConnectorManager._implementations
    connected,         \* the implementations that are connected
    plugins,           \* PluginManager._plugins: id -> enabled
    begun,             \* history: number of invocations begun
    announced          \* history: number of CONNECTOR_INVOKED and CONNECTOR_FAILED

connectorVars == <<connectorManager, connectors, implementations>>
historyVars == <<begun, announced>>
extensionVars == <<stack, connectorVars, connected, plugins, historyVars>>

ExtensionsInit ==
    /\ stack = << >>
    /\ connectorManager = "CREATED"
    /\ connectors = << >> /\ implementations = << >>
    /\ connected = {}
    /\ plugins = << >>
    /\ begun = 0 /\ announced = 0

With(f, id, value) == [i \in DOMAIN f \union {id} |-> IF i = id THEN value ELSE f[i]]
Without(f, id) == [i \in DOMAIN f \ {id} |-> f[i]]

\* What a call does before it publishes and returns: its handlers are host code
\* like the host code that made the call.
Now == HostRuns /\ UNCHANGED <<stack, historyVars>>

-----------------------------------------------------------------------------
(* Connectors *)

ShiftManager(from, to) ==
    /\ Now
    /\ connectorManager = from
    /\ connectorManager' = to
    /\ UNCHANGED <<connectors, implementations, connected, plugins>>

InitializeManager == ShiftManager("CREATED", "INITIALIZING")
StartManager == ShiftManager("INITIALIZING", "RUNNING")
StopManager == ShiftManager("RUNNING", "STOPPED")

RegisterConnector(id, implementation) ==
    /\ Now
    /\ id \notin DOMAIN connectors
    /\ connectors' = With(connectors, id, TRUE)
    /\ implementations' = With(implementations, id, implementation)
    /\ UNCHANGED <<connectorManager, connected, plugins>>

UnregisterConnector(id) ==
    /\ Now
    /\ id \in DOMAIN connectors
    /\ connectors' = Without(connectors, id)
    /\ implementations' = Without(implementations, id)
    /\ UNCHANGED <<connectorManager, connected, plugins>>

SwitchConnector(id, enabled) ==
    /\ Now
    /\ id \in DOMAIN connectors
    /\ connectors' = With(connectors, id, enabled)
    /\ UNCHANGED <<connectorManager, implementations, connected, plugins>>

EnableConnector(id) == SwitchConnector(id, TRUE)
DisableConnector(id) == SwitchConnector(id, FALSE)

\* The manager never disconnects what it has connected; its owner may.
Disconnect(implementation) ==
    /\ Now
    /\ connected' = connected \ {implementation}
    /\ UNCHANGED <<connectorVars, plugins>>

-----------------------------------------------------------------------------
(* invoke *)

InvokeConnector(id) ==
    /\ MayCall
    /\ connectorManager = "RUNNING"
    /\ id \in DOMAIN connectors
    /\ connectors[id]
    /\ begun < MaxInvocations
    /\ begun' = begun + 1
    /\ Enter([call |-> "invoke", implementation |-> implementations[id], at |-> "connect"])
    /\ UNCHANGED <<connectorVars, connected, plugins, announced>>

Connected ==
    /\ TopIs("invoke", {"connect"})
    /\ connected' = connected \union {Top.implementation}
    /\ Goto("invoke")
    /\ UNCHANGED <<connectorVars, plugins, historyVars>>

Announcing(event) ==
    /\ Goto(event)
    /\ announced' = announced + 1
    /\ UNCHANGED <<connectorVars, connected, plugins, begun>>

\* invoke() answers, unless the connection was lost in the meantime.
Invoked ==
    /\ TopIs("invoke", {"invoke"})
    /\ Top.implementation \in connected
    /\ Announcing("CONNECTOR_INVOKED")

InvocationFails == TopIs("invoke", {"connect", "invoke"}) /\ Announcing("CONNECTOR_FAILED")

\* Mutant of InvokeReturns: the publication of CONNECTOR_INVOKED stands in the try.
InvokeReturnsWithin ==
    \/ /\ \/ TopIs("invoke", {"CONNECTOR_INVOKED"}) /\ Return
          \/ TopIs("invoke", {"CONNECTOR_FAILED"}) /\ Unwind
       /\ UNCHANGED <<connectorVars, connected, plugins, historyVars>>
    \/ TopIs("invoke", {"CONNECTOR_INVOKED"}) /\ Announcing("CONNECTOR_FAILED")

\* After CONNECTOR_FAILED the error is raised; handlers of either event may raise.
InvokeReturns ==
    /\ \/ TopIs("invoke", {"CONNECTOR_INVOKED"}) /\ (Return \/ Unwind)
       \/ TopIs("invoke", {"CONNECTOR_FAILED"}) /\ Unwind
    /\ UNCHANGED <<connectorVars, connected, plugins, historyVars>>

-----------------------------------------------------------------------------
(* Plugins *)

ChangePlugins(new) ==
    /\ Now
    /\ plugins' = new
    /\ UNCHANGED <<connectorVars, connected>>

RegisterPlugin(id) == id \notin DOMAIN plugins /\ ChangePlugins(With(plugins, id, TRUE))
UnregisterPlugin(id) == id \in DOMAIN plugins /\ ChangePlugins(Without(plugins, id))
EnablePlugin(id) == id \in DOMAIN plugins /\ ChangePlugins(With(plugins, id, TRUE))
DisablePlugin(id) == id \in DOMAIN plugins /\ ChangePlugins(With(plugins, id, FALSE))

ExtensionsNext ==
    \/ InitializeManager \/ StartManager \/ StopManager
    \/ \E id \in ConnectorIds :
           \/ \E implementation \in Implementations : RegisterConnector(id, implementation)
           \/ UnregisterConnector(id) \/ EnableConnector(id) \/ DisableConnector(id)
           \/ InvokeConnector(id)
    \/ \E implementation \in Implementations : Disconnect(implementation)
    \/ Connected \/ Invoked \/ InvocationFails \/ InvokeReturns
    \/ \E id \in PluginIds :
           RegisterPlugin(id) \/ UnregisterPlugin(id) \/ EnablePlugin(id) \/ DisablePlugin(id)

ExtensionsSpec == ExtensionsInit /\ [][ExtensionsNext]_extensionVars

-----------------------------------------------------------------------------
(* Properties *)

\* Types of the managers; the two dictionaries of the connector manager have the
\* same keys, so that a connector that is found has its implementation.
ExtensionsTypeOK ==
    /\ connectorManager \in {"CREATED", "INITIALIZING", "RUNNING", "STOPPED"}
    /\ connectors \in UNION {[ids -> BOOLEAN] : ids \in SUBSET ConnectorIds}
    /\ implementations \in [DOMAIN connectors -> Implementations]
    /\ connected \subseteq Implementations
    /\ plugins \in UNION {[ids -> BOOLEAN] : ids \in SUBSET PluginIds}
    /\ begun \in 0 .. MaxInvocations

\* Every invocation that is no longer with its connector has been announced
\* exactly once, as invoked or as failed, even when handlers of the announcement
\* raise, unregister the connector or invoke it again.
AnnouncedOnce ==
    announced + Cardinality({i \in DOMAIN stack : stack[i].at \in {"connect", "invoke"}}) = begun

\* The books of the two managers agree with what their connectors went through.
BooksAgree == ExtensionsTypeOK /\ AnnouncedOnce
=============================================================================
