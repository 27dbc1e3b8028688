------------------------- MODULE CapabilityRegistry -------------------------
(***************************************************************************)
(* The capability registry (argus/capability/registry.py): the planner     *)
(* asks it which capabilities exist, the dispatcher which one serves an    *)
(* intent.  Its dictionary keeps the order of registration, which decides  *)
(* between two capabilities for one intent.                                *)
(***************************************************************************)
EXTENDS CallStack

CONSTANT Offered    \* the capabilities that may be registered

VARIABLE registry   \* CapabilityRegistry._capabilities, in order of registration

\* A capability has an id, a name, the intents it serves, a flag, and a
\* workflow; its workflow is NoWorkflow when its action_kind is not "workflow".
ASSUME OfferedAssumption ==
    \A c \in Offered : DOMAIN c = {"id", "name", "intents", "enabled", "workflow"}

Registered == ToSet(registry)
Known(id) == \E c \in Registered : c.id = id

\* Where the enabled capabilities that serve an intent stand in the registry.
Serving(intent) == {i \in DOMAIN registry : intent \in registry[i].intents /\ registry[i].enabled}

RegistryInit == registry = << >>

Announce(event) == Enter([call |-> "registry", at |-> event])

RegisterCapability(c) ==
    /\ MayCall
    /\ ~Known(c.id)
    /\ \A other \in Registered : other.name # c.name
    /\ registry' = Append(registry, c)
    /\ Announce("CAPABILITY_REGISTERED")

UnregisterCapability(c) ==
    /\ MayCall
    /\ \E i \in DOMAIN registry : registry[i] = c /\ registry' = RemoveAt(registry, i)
    /\ Announce("CAPABILITY_UNREGISTERED")

\* The publication is over, or a handler raised out of it.
RegistryReturns ==
    /\ Busy /\ Top.call = "registry"
    /\ Return \/ Unwind
    /\ UNCHANGED registry

RegistryNext ==
    \/ \E c \in Offered : RegisterCapability(c) \/ UnregisterCapability(c)
    \/ RegistryReturns

\* However registrations nest in each other's handlers, one id and one name
\* stand for one capability.
NoTwins ==
    \A i, j \in DOMAIN registry :
        registry[i].id = registry[j].id \/ registry[i].name = registry[j].name => i = j
=============================================================================
