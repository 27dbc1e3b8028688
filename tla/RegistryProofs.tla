--------------------------- MODULE RegistryProofs ---------------------------
(***************************************************************************)
(* The registries and what is built on them, for any capabilities, any     *)
(* connectors and plugins, and any nesting of calls: the capability        *)
(* registry, the managers of connectors and plugins, the planner, the      *)
(* chain behind the agent service, which is composed with the planner, and *)
(* the dispatcher, which is composed with the workflow engine.             *)
(***************************************************************************)
EXTENDS Dispatcher, AgentService, Extensions, WorkflowEngineProofs, FiniteSetTheorems

-----------------------------------------------------------------------------
(* Sequences and calls *)

\* Lemma: an element of a sequence is replaced.
LEMMA SequenceExcept ==
    ASSUME NEW S, NEW s \in Seq(S), NEW n \in DOMAIN s, NEW f \in S
    PROVE  LET t == [s EXCEPT ![n] = f] IN
           /\ t \in Seq(S) /\ Len(t) = Len(s) /\ DOMAIN t = DOMAIN s
           /\ t[n] = f /\ \A i \in DOMAIN s : i # n => t[i] = s[i]
OBVIOUS

\* Lemma: the innermost of calls that never wait for a service returns, or is left.
LEMMA PopCall ==
    ASSUME NEW S, stack \in Seq(S), \A f \in S : f.at # "calling", Busy, Return \/ Unwind
    PROVE  /\ stack' \in Seq(S) /\ Len(stack') = Len(stack) - 1
           /\ \A i \in DOMAIN stack' : i \in DOMAIN stack /\ stack'[i] = stack[i]
           /\ \A i \in DOMAIN stack : i \in DOMAIN stack' \/ i = Len(stack)
<1> PICK n : n = Len(stack)
  OBVIOUS
<1>1. n \in Nat \ {0} /\ DOMAIN stack = 1 .. n /\ Len(stack) = n
  BY DEF Busy
<1> PICK below : below = Front(stack)
  OBVIOUS
<1>2. below \in Seq(S) /\ Len(below) = n - 1 /\ \A i \in 1 .. n - 1 : below[i] = stack[i]
  BY <1>1, SubSeqProperties DEF Front
<1>3. stack' = below
  <2>1. below # << >> => Last(below) \in S
    BY <1>2 DEF Last
  <2> QED BY <2>1 DEF Return, Unwind, Unwound
<1> QED BY <1>1, <1>2, <1>3

-----------------------------------------------------------------------------
(* The capability registry *)

LEMMA RemoveOne ==
    ASSUME NEW S, NEW s \in Seq(S), NEW i \in DOMAIN s
    PROVE  /\ RemoveAt(s, i) \in Seq(S)
           /\ Len(RemoveAt(s, i)) = Len(s) - 1
           /\ \A k \in 1 .. Len(s) - 1 : RemoveAt(s, i)[k] = s[IF k < i THEN k ELSE k + 1]
<1> DEFINE before == SubSeq(s, 1, i - 1)
           after == SubSeq(s, i + 1, Len(s))
<1>1. /\ Len(s) \in Nat /\ DOMAIN s = 1 .. Len(s) /\ i \in 1 .. Len(s) /\ i - 1 \in Nat
      /\ \A k \in 1 .. Len(s) : s[k] \in S
  OBVIOUS
<1>2. before \in Seq(S) /\ Len(before) = i - 1 /\ \A k \in 1 .. i - 1 : before[k] = s[k]
  BY <1>1, SubSeqProperties
<1>3. after \in Seq(S) /\ Len(after) = Len(s) - i /\ \A k \in 1 .. Len(s) - i : after[k] = s[i + k]
  BY <1>1, SubSeqProperties
<1>4. RemoveAt(s, i) = before \o after
  BY DEF RemoveAt
<1> HIDE DEF before, after
<1>5. /\ before \o after \in Seq(S)
      /\ Len(before \o after) = Len(before) + Len(after)
      /\ \A k \in 1 .. Len(before) + Len(after) :
             (before \o after)[k] = IF k <= Len(before) THEN before[k] ELSE after[k - Len(before)]
  BY <1>2, <1>3, ConcatProperties
<1>6. ASSUME NEW k \in 1 .. Len(s) - 1
      PROVE  (before \o after)[k] = s[IF k < i THEN k ELSE k + 1]
  <2>1. k \in 1 .. Len(before) + Len(after)
    BY <1>1, <1>2, <1>3
  <2>2. CASE k < i
    BY <1>1, <1>2, <1>5, <2>1, <2>2
  <2>3. CASE ~(k < i)
    <3>1. k - (i - 1) \in 1 .. Len(s) - i /\ i + (k - (i - 1)) = k + 1
      BY <1>1, <2>3
    <3>2. (before \o after)[k] = after[k - (i - 1)]
      BY <1>1, <1>2, <1>5, <2>1, <2>3
    <3> QED BY <1>3, <2>3, <3>1, <3>2
  <2> QED BY <2>2, <2>3
<1> QED BY <1>1, <1>2, <1>3, <1>4, <1>5, <1>6

\* Lemma: the registry keeps one capability for an id and a name.
LEMMA RegistryKept ==
    ASSUME registry \in Seq(Offered), NoTwins, NEW c \in Offered,
           RegisterCapability(c) \/ UnregisterCapability(c)
    PROVE  registry' \in Seq(Offered) /\ NoTwins'
<1>1. CASE RegisterCapability(c)
  <2>1. registry' = Append(registry, c)
    BY <1>1 DEF RegisterCapability
  <2>2. \A i \in DOMAIN registry : registry[i].id # c.id /\ registry[i].name # c.name
    BY <1>1 DEF RegisterCapability, Registered, Known, ToSet
  <2>3. /\ DOMAIN registry' = 1 .. Len(registry) + 1
        /\ registry'[Len(registry) + 1] = c
        /\ \A i \in DOMAIN registry : registry'[i] = registry[i]
        /\ \A i \in DOMAIN registry' : i \in DOMAIN registry \/ i = Len(registry) + 1
    BY <2>1
  <2> QED BY <2>1, <2>2, <2>3 DEF NoTwins
<1>2. CASE UnregisterCapability(c)
  <2>1. PICK i \in DOMAIN registry : registry' = RemoveAt(registry, i)
    BY <1>2 DEF UnregisterCapability
  <2>2. /\ registry' \in Seq(Offered) /\ Len(registry') = Len(registry) - 1
        /\ \A k \in 1 .. Len(registry) - 1 : registry'[k] = registry[IF k < i THEN k ELSE k + 1]
    BY <2>1, RemoveOne
  <2>3. NoTwins'
    <3> SUFFICES ASSUME NEW j \in DOMAIN registry', NEW k \in DOMAIN registry',
                        registry'[j].id = registry'[k].id \/ registry'[j].name = registry'[k].name
                 PROVE  j = k
      BY DEF NoTwins
    <3>1. /\ j \in 1 .. Len(registry) - 1 /\ k \in 1 .. Len(registry) - 1
          /\ i \in 1 .. Len(registry) /\ Len(registry) \in Nat
      BY <2>2
    <3>2. PICK a \in DOMAIN registry :
              a = (IF j < i THEN j ELSE j + 1) /\ registry'[j] = registry[a]
      <4>1. (IF j < i THEN j ELSE j + 1) \in DOMAIN registry
        BY <3>1
      <4> QED BY <2>2, <3>1, <4>1
    <3>3. PICK b \in DOMAIN registry :
              b = (IF k < i THEN k ELSE k + 1) /\ registry'[k] = registry[b]
      <4>1. (IF k < i THEN k ELSE k + 1) \in DOMAIN registry
        BY <3>1
      <4> QED BY <2>2, <3>1, <4>1
    <3>4. a = b
      BY <3>2, <3>3 DEF NoTwins
    <3> QED BY <3>1, <3>2, <3>3, <3>4
  <2> QED BY <2>2, <2>3
<1> QED BY <1>1, <1>2

-----------------------------------------------------------------------------
(* The managers of extensions *)

InvokeCall ==
    [call : {"invoke"}, implementation : Implementations,
     at : {"connect", "invoke", "CONNECTOR_INVOKED", "CONNECTOR_FAILED"}]

Pending == {i \in DOMAIN stack : stack[i].at \in {"connect", "invoke"}}

\* Every invocation that was begun is with its connector or was announced.
InvocationsOK ==
    /\ stack \in Seq(InvokeCall)
    /\ begun \in 0 .. MaxInvocations /\ announced \in Nat
    /\ announced + Cardinality(Pending) = begun

Dictionaries(T, V) == UNION {[ids -> V] : ids \in SUBSET T}

ManagersOK ==
    /\ connectorManager \in {"CREATED", "INITIALIZING", "RUNNING", "STOPPED"}
    /\ connectors \in Dictionaries(ConnectorIds, BOOLEAN)
    /\ implementations \in [DOMAIN connectors -> Implementations]
    /\ connected \subseteq Implementations
    /\ plugins \in Dictionaries(PluginIds, BOOLEAN)

ExtensionsInv == InvocationsOK /\ ManagersOK

LEMMA PendingIsFinite ==
    ASSUME InvocationsOK
    PROVE  /\ Len(stack) \in Nat /\ DOMAIN stack = 1 .. Len(stack)
           /\ IsFiniteSet(Pending) /\ Cardinality(Pending) \in Nat
           /\ begun \in Nat /\ announced \in Nat
<1>1. Len(stack) \in Nat /\ DOMAIN stack = 1 .. Len(stack)
  BY DEF InvocationsOK
<1>2. IsFiniteSet(1 .. Len(stack))
  BY <1>1, FS_Interval
<1>3. Pending \in SUBSET (1 .. Len(stack))
  BY <1>1 DEF Pending
<1>4. IsFiniteSet(Pending)
  BY <1>2, <1>3, FS_Subset
<1>5. Cardinality(Pending) \in Nat
  BY <1>4, FS_CardinalityType
<1> QED BY <1>1, <1>4, <1>5 DEF InvocationsOK

LEMMA TopInvocation ==
    ASSUME InvocationsOK, Busy
    PROVE  Len(stack) \in DOMAIN stack /\ Top = stack[Len(stack)] /\ Top \in InvokeCall
BY DEF InvocationsOK, Busy, Top, Last

LEMMA InvocationBegins ==
    ASSUME InvocationsOK, NEW f \in InvokeCall, f.at = "connect", Enter(f),
           MaxInvocations \in Nat, begun < MaxInvocations, begun' = begun + 1,
           announced' = announced
    PROVE  InvocationsOK'
<1> PICK n : n = Len(stack) + 1
  OBVIOUS
<1>1. /\ Len(stack) \in Nat /\ DOMAIN stack = 1 .. Len(stack) /\ IsFiniteSet(Pending)
      /\ Cardinality(Pending) \in Nat /\ begun \in Nat /\ announced \in Nat
  BY PendingIsFinite
<1>2. /\ stack' \in Seq(InvokeCall) /\ DOMAIN stack' = 1 .. n /\ stack'[n] = f
      /\ \A i \in 1 .. n - 1 : stack'[i] = stack[i]
  BY <1>1 DEF InvocationsOK, Enter, Opened
<1>3. Pending' = Pending \union {n} /\ n \notin Pending
  BY <1>1, <1>2 DEF Pending
<1>4. Cardinality(Pending') = Cardinality(Pending) + 1
  BY <1>1, <1>3, FS_AddElement
<1>5. begun' \in 0 .. MaxInvocations
  BY <1>1 DEF InvocationsOK
<1> QED BY <1>1, <1>2, <1>4, <1>5 DEF InvocationsOK

LEMMA InvocationMoves ==
    ASSUME InvocationsOK, Busy, Top.at \in {"connect", "invoke"}, begun' = begun,
           NEW point \in {"invoke", "CONNECTOR_INVOKED", "CONNECTOR_FAILED"}, Goto(point),
           announced' = announced + (IF point = "invoke" THEN 0 ELSE 1)
    PROVE  InvocationsOK'
<1> PICK n : n = Len(stack)
  OBVIOUS
<1>1. /\ n \in DOMAIN stack /\ DOMAIN stack = 1 .. Len(stack) /\ IsFiniteSet(Pending)
      /\ Top = stack[n]
      /\ Cardinality(Pending) \in Nat /\ begun \in Nat /\ announced \in Nat /\ Top \in InvokeCall
      /\ stack \in Seq(InvokeCall)
  BY PendingIsFinite, TopInvocation DEF InvocationsOK
<1> PICK f : f = [Top EXCEPT !.at = point]
  OBVIOUS
<1>2. f \in InvokeCall /\ f.at = point /\ stack' = [stack EXCEPT ![n] = f]
  BY <1>1 DEF InvokeCall, Goto
<1>3. /\ stack' \in Seq(InvokeCall) /\ DOMAIN stack' = DOMAIN stack /\ stack'[n] = f
      /\ \A i \in DOMAIN stack : i # n => stack'[i] = stack[i]
  BY <1>1, <1>2, SequenceExcept
<1>4. n \in Pending
  BY <1>1 DEF Pending
<1>5. CASE point = "invoke"
  <2>1. Pending' = Pending
    BY <1>1, <1>2, <1>3, <1>4, <1>5 DEF Pending
  <2> QED BY <1>1, <1>3, <1>5, <2>1 DEF InvocationsOK
<1>6. CASE point # "invoke"
  <2>1. Pending' = Pending \ {n}
    BY <1>1, <1>2, <1>3, <1>4, <1>6 DEF Pending
  <2>2. Cardinality(Pending') = Cardinality(Pending) - 1
    BY <1>1, <1>4, <2>1, FS_RemoveElement
  <2> QED BY <1>1, <1>3, <1>6, <2>2 DEF InvocationsOK
<1> QED BY <1>5, <1>6

LEMMA InvocationEnds ==
    ASSUME InvocationsOK, Busy, Top.at \notin {"connect", "invoke"}, Return \/ Unwind,
           UNCHANGED historyVars
    PROVE  InvocationsOK'
<1>1. stack \in Seq(InvokeCall) /\ \A f \in InvokeCall : f.at # "calling"
  BY DEF InvocationsOK, InvokeCall
<1>2. /\ stack' \in Seq(InvokeCall)
      /\ \A i \in DOMAIN stack' : i \in DOMAIN stack /\ stack'[i] = stack[i]
      /\ \A i \in DOMAIN stack : i \in DOMAIN stack' \/ i = Len(stack)
  BY <1>1, PopCall
<1>3. Pending' = Pending
  BY <1>2, TopInvocation DEF Pending
<1> QED BY <1>2, <1>3 DEF InvocationsOK, historyVars

-----------------------------------------------------------------------------

LEMMA DictionaryWith ==
    ASSUME NEW T, NEW V, NEW f \in Dictionaries(T, V), NEW id \in T, NEW value \in V
    PROVE  /\ With(f, id, value) \in Dictionaries(T, V)
           /\ DOMAIN With(f, id, value) = DOMAIN f \union {id}
<1>1. PICK ids \in SUBSET T : f \in [ids -> V]
  BY DEF Dictionaries
<1>2. With(f, id, value) \in [ids \union {id} -> V]
  BY <1>1 DEF With
<1>3. ids \union {id} \in SUBSET T
  BY <1>1
<1> QED BY <1>1, <1>2, <1>3 DEF With, Dictionaries

LEMMA DictionaryWithout ==
    ASSUME NEW T, NEW V, NEW f \in Dictionaries(T, V), NEW id \in T
    PROVE  /\ Without(f, id) \in Dictionaries(T, V)
           /\ DOMAIN Without(f, id) = DOMAIN f \ {id}
<1>1. PICK ids \in SUBSET T : f \in [ids -> V]
  BY DEF Dictionaries
<1>2. Without(f, id) \in [ids \ {id} -> V]
  BY <1>1 DEF Without
<1>3. ids \ {id} \in SUBSET T
  BY <1>1
<1> QED BY <1>1, <1>2, <1>3 DEF Without, Dictionaries

LEMMA ConnectorsWith ==
    ASSUME ManagersOK, NEW id \in ConnectorIds, NEW enabled \in BOOLEAN,
           connectors' = With(connectors, id, enabled)
    PROVE  /\ connectors' \in Dictionaries(ConnectorIds, BOOLEAN)
           /\ DOMAIN connectors' = DOMAIN connectors \union {id}
<1>1. connectors \in Dictionaries(ConnectorIds, BOOLEAN)
  BY DEF ManagersOK
<1> QED BY <1>1, DictionaryWith

LEMMA ManagersKept ==
    ASSUME ExtensionsInv, ExtensionsNext
    PROVE  ManagersOK'
<1> USE DEF ExtensionsInv
<1>1. ASSUME NEW id \in ConnectorIds, NEW implementation \in Implementations,
             RegisterConnector(id, implementation)
      PROVE  ManagersOK'
  <2>1. /\ connectors' = With(connectors, id, TRUE)
        /\ implementations' = With(implementations, id, implementation)
        /\ UNCHANGED <<connectorManager, connected, plugins>>
    BY <1>1 DEF RegisterConnector
  <2>2. /\ connectors' \in Dictionaries(ConnectorIds, BOOLEAN) 
        /\ DOMAIN connectors' = DOMAIN connectors \union {id}
    BY <2>1, ConnectorsWith
  <2>3. implementations' \in [DOMAIN connectors' -> Implementations]
    BY <2>1, <2>2 DEF ManagersOK, With
  <2> QED BY <2>1, <2>2, <2>3 DEF ManagersOK
<1>2. ASSUME NEW id \in ConnectorIds, UnregisterConnector(id)
      PROVE  ManagersOK'
  <2>1. /\ connectors' = Without(connectors, id) /\ implementations' = Without(implementations, id)
        /\ UNCHANGED <<connectorManager, connected, plugins>>
    BY <1>2 DEF UnregisterConnector
  <2>2. /\ connectors' \in Dictionaries(ConnectorIds, BOOLEAN)
        /\ DOMAIN connectors' = DOMAIN connectors \ {id}
    BY <2>1, DictionaryWithout DEF ManagersOK
  <2>3. implementations' \in [DOMAIN connectors' -> Implementations]
    BY <2>1, <2>2 DEF ManagersOK, Without
  <2> QED BY <2>1, <2>2, <2>3 DEF ManagersOK
<1>3. ASSUME NEW id \in ConnectorIds, EnableConnector(id) \/ DisableConnector(id)
      PROVE  ManagersOK'
  <2>1. PICK enabled \in BOOLEAN : SwitchConnector(id, enabled)
    BY <1>3 DEF EnableConnector, DisableConnector
  <2>2. /\ connectors' = With(connectors, id, enabled) /\ id \in DOMAIN connectors
        /\ UNCHANGED <<connectorManager, implementations, connected, plugins>>
    BY <2>1 DEF SwitchConnector
  <2>3. connectors' \in Dictionaries(ConnectorIds, BOOLEAN) 
        /\ DOMAIN connectors' = DOMAIN connectors \union {id}
    BY <2>2, ConnectorsWith
  <2>4. DOMAIN connectors' = DOMAIN connectors
    BY <2>2, <2>3
  <2> QED BY <2>2, <2>3, <2>4 DEF ManagersOK
<1>4. ASSUME NEW id \in PluginIds,
             RegisterPlugin(id) \/ UnregisterPlugin(id) \/ EnablePlugin(id) \/ DisablePlugin(id)
      PROVE  ManagersOK'
  <2>1. /\ UNCHANGED <<connectorManager, connectors, implementations, connected>>
        /\ \/ plugins' = With(plugins, id, TRUE)
           \/ plugins' = With(plugins, id, FALSE)
           \/ plugins' = Without(plugins, id)
    BY <1>4 DEF RegisterPlugin, UnregisterPlugin, EnablePlugin, DisablePlugin,
              ChangePlugins, connectorVars
  <2>2. /\ With(plugins, id, TRUE) \in Dictionaries(PluginIds, BOOLEAN)
        /\ With(plugins, id, FALSE) \in Dictionaries(PluginIds, BOOLEAN)
    BY DictionaryWith DEF ManagersOK
  <2>3. Without(plugins, id) \in Dictionaries(PluginIds, BOOLEAN)
    BY DictionaryWithout DEF ManagersOK
  <2> QED BY <2>1, <2>2, <2>3 DEF ManagersOK
<1>5. CASE InitializeManager \/ StartManager \/ StopManager
  BY <1>5 DEF InitializeManager, StartManager, StopManager, ShiftManager, ManagersOK
<1>6. ASSUME NEW implementation \in Implementations, Disconnect(implementation)
      PROVE  ManagersOK'
  BY <1>6 DEF Disconnect, connectorVars, ManagersOK
<1>7. CASE Connected
  <2>1. Top.implementation \in Implementations
    BY <1>7, TopInvocation DEF Connected, TopIs, InvokeCall
  <2> QED BY <1>7, <2>1 DEF Connected, connectorVars, ManagersOK
<1>8. CASE \/ \E id \in ConnectorIds : InvokeConnector(id)
           \/ Invoked \/ InvocationFails \/ InvokeReturns
  <2>1. UNCHANGED <<connectorVars, connected, plugins>>
    BY <1>8 DEF InvokeConnector, Invoked, InvocationFails, InvokeReturns, Announcing
  <2> QED BY <2>1 DEF connectorVars, ManagersOK
<1> QED BY <1>1, <1>2, <1>3, <1>4, <1>5, <1>6, <1>7, <1>8 DEF ExtensionsNext

\* Lemma: what does not concern an invocation leaves the calls as they are.
LEMMA InvocationsKept ==
    ASSUME MaxInvocations \in Nat, ExtensionsInv, ExtensionsNext
    PROVE  InvocationsOK'
<1> USE DEF ExtensionsInv
<1>1. ASSUME NEW id \in ConnectorIds, InvokeConnector(id)
      PROVE  InvocationsOK'
  <2>1. implementations[id] \in Implementations
    BY <1>1 DEF InvokeConnector, ManagersOK
  <2> PICK f : f = [call |-> "invoke", implementation |-> implementations[id], at |-> "connect"]
    OBVIOUS
  <2>2. f \in InvokeCall /\ f.at = "connect"
    BY <2>1 DEF InvokeCall
  <2>3. Enter(f) /\ begun < MaxInvocations /\ begun' = begun + 1 /\ announced' = announced
    BY <1>1 DEF InvokeConnector
  <2> QED BY <2>2, <2>3, InvocationBegins
<1>2. CASE Connected
  <2>1. /\ Busy /\ Top.at \in {"connect", "invoke"} /\ Goto("invoke")
        /\ begun' = begun /\ announced' = announced
    BY <1>2 DEF Connected, TopIs, historyVars
  <2>2. announced' = announced + 0
    BY <2>1 DEF InvocationsOK
  <2> QED BY <2>1, <2>2, InvocationMoves
<1>3. CASE Invoked \/ InvocationFails
  <2>1. PICK point \in {"CONNECTOR_INVOKED", "CONNECTOR_FAILED"} :
            Busy /\ Top.at \in {"connect", "invoke"} /\ Announcing(point)
    BY <1>3 DEF Invoked, InvocationFails, TopIs
  <2>2. Goto(point) /\ begun' = begun /\ announced' = announced + 1
    BY <2>1 DEF Announcing
  <2> QED BY <2>1, <2>2, InvocationMoves
<1>4. CASE InvokeReturns
  <2>1. Busy /\ Top.at \notin {"connect", "invoke"} /\ (Return \/ Unwind) /\ UNCHANGED historyVars
    BY <1>4 DEF InvokeReturns, TopIs
  <2> QED BY <2>1, InvocationEnds
<1>5. CASE UNCHANGED <<stack, historyVars>>
  <2>1. Pending' = Pending
    BY <1>5 DEF Pending
  <2> QED BY <1>5, <2>1 DEF InvocationsOK, historyVars
<1>6. \/ \E id \in ConnectorIds : InvokeConnector(id)
      \/ Connected \/ Invoked \/ InvocationFails \/ InvokeReturns
      \/ UNCHANGED <<stack, historyVars>>
  BY DEF ExtensionsNext, InitializeManager, StartManager, StopManager, ShiftManager,
         RegisterConnector, UnregisterConnector, EnableConnector, DisableConnector,
         SwitchConnector, Disconnect, RegisterPlugin, UnregisterPlugin, EnablePlugin,
         DisablePlugin, ChangePlugins, Now
<1> QED BY <1>1, <1>2, <1>3, <1>4, <1>5, <1>6

\* The invariant of the managers: what is registered, invoked, lost or raised keeps it.
THEOREM ExtensionsCorrect ==
    ASSUME MaxInvocations \in Nat
    PROVE  ExtensionsSpec => []ExtensionsInv
<1>1. ExtensionsInit => ExtensionsInv
  <2> SUFFICES ASSUME ExtensionsInit PROVE ExtensionsInv
    OBVIOUS
  <2>1. InvocationsOK
    <3>1. Pending = {}
      BY DEF ExtensionsInit, Pending
    <3>2. Cardinality(Pending) = 0
      BY <3>1, FS_EmptySet
    <3> QED BY <3>2 DEF ExtensionsInit, InvocationsOK
  <2>2. ManagersOK
    <3>1. << >> \in [{} -> BOOLEAN] /\ << >> \in [{} -> Implementations] /\ DOMAIN << >> = {}
      OBVIOUS
    <3>2. {} \in SUBSET ConnectorIds /\ {} \in SUBSET PluginIds
      OBVIOUS
    <3>3. << >> \in Dictionaries(ConnectorIds, BOOLEAN)
      BY <3>1, <3>2 DEF Dictionaries
    <3>4. << >> \in Dictionaries(PluginIds, BOOLEAN)
      BY <3>1, <3>2 DEF Dictionaries
    <3> QED BY <3>1, <3>3, <3>4 DEF ExtensionsInit, ManagersOK
  <2> QED BY <2>1, <2>2 DEF ExtensionsInv
<1>2. ExtensionsInv /\ [ExtensionsNext]_extensionVars => ExtensionsInv'
  <2> SUFFICES ASSUME ExtensionsInv, [ExtensionsNext]_extensionVars PROVE ExtensionsInv'
    OBVIOUS
  <2>1. CASE ExtensionsNext
    BY <2>1, ManagersKept, InvocationsKept DEF ExtensionsInv
  <2>2. CASE UNCHANGED extensionVars
    BY <2>2 DEF extensionVars, connectorVars, historyVars, ExtensionsInv, ManagersOK,
                InvocationsOK, Pending
  <2> QED BY <2>1, <2>2
<1> QED BY <1>1, <1>2, PTL DEF ExtensionsSpec

\* Every invocation that is no longer with its connector was announced exactly once, as
\* invoked or as failed, and every connector has its implementation, for any connectors,
\* implementations and plugins, and any nesting of invoke(), register and unregister.
THEOREM BooksStayInAgreement ==
    ASSUME MaxInvocations \in Nat
    PROVE  ExtensionsSpec => []BooksAgree
<1>1. ExtensionsInv => BooksAgree
  BY DEF ExtensionsInv, ManagersOK, InvocationsOK, Pending, BooksAgree,
         ExtensionsTypeOK, AnnouncedOnce, Dictionaries
<1> QED BY <1>1, ExtensionsCorrect, PTL

-----------------------------------------------------------------------------
(* The planner: the steps of a plan *)

Ids(s) == {s[i].id : i \in DOMAIN s}

\* Steps with ids of their own, numbered from the first to the last.
Counted(s) ==
    /\ s \in Seq(Step)
    /\ \A i \in DOMAIN s : s[i].order = i
    /\ \A i, j \in DOMAIN s : s[i].id = s[j].id => i = j

LEMMA StepsRenumbered ==
    ASSUME NEW s \in Seq(Step), \A i, j \in DOMAIN s : s[i].id = s[j].id => i = j
    PROVE  Counted(Renumbered(s)) /\ Ids(Renumbered(s)) = Ids(s)
<1> PICK t : t = Renumbered(s)
  OBVIOUS
<1>1. Len(s) \in Nat /\ DOMAIN s = 1 .. Len(s)
  OBVIOUS
<1>2. t = [i \in 1 .. Len(s) |-> [s[i] EXCEPT !.order = i]]
  BY <1>1 DEF Renumbered
<1>3. ASSUME NEW i \in 1 .. Len(s)
      PROVE  [s[i] EXCEPT !.order = i] \in Step /\ t[i].id = s[i].id /\ t[i].order = i
  <2>1. s[i] \in Step /\ i \in Nat
    BY <1>1
  <2>2. [s[i] EXCEPT !.order = i] \in Step
    BY <2>1 DEF Step
  <2>3. [s[i] EXCEPT !.order = i].id = s[i].id /\ [s[i] EXCEPT !.order = i].order = i
    BY <2>1 DEF Step
  <2> QED BY <1>2, <2>2, <2>3
<1>4. t \in Seq(Step) /\ DOMAIN t = DOMAIN s
  BY <1>1, <1>2, <1>3
<1>5. \A i \in DOMAIN s : t[i].id = s[i].id /\ t[i].order = i
  BY <1>1, <1>3
<1>6. Counted(t)
  BY <1>4, <1>5 DEF Counted
<1>7. Ids(t) = Ids(s)
  BY <1>4, <1>5 DEF Ids
<1> QED BY <1>6, <1>7

\* Lemma: a step is added at the end.
LEMMA StepAdded ==
    ASSUME NEW s, Counted(s), NEW n \in Nat, n \notin Ids(s),
           NEW needs \in Required, NEW optional \in BOOLEAN
    PROVE  LET t == Append(s, [id |-> n, order |-> Len(s) + 1,
                               needs |-> needs, optional |-> optional])
           IN  Counted(t) /\ Ids(t) = Ids(s) \union {n}
<1> PICK e : e = [id |-> n, order |-> Len(s) + 1, needs |-> needs, optional |-> optional]
  OBVIOUS
<1> PICK t : t = Append(s, e)
  OBVIOUS
<1>1. s \in Seq(Step) /\ Len(s) \in Nat /\ DOMAIN s = 1 .. Len(s)
  BY DEF Counted
<1>2. e \in Step /\ e.id = n /\ e.order = Len(s) + 1
  BY <1>1 DEF Step
<1>3. /\ t \in Seq(Step) /\ DOMAIN t = 1 .. Len(s) + 1
      /\ t[Len(s) + 1] = e /\ \A i \in 1 .. Len(s) : t[i] = s[i]
  BY <1>1, <1>2
<1>4. \A i \in DOMAIN t : (i \in DOMAIN s /\ t[i] = s[i]) \/ (i = Len(s) + 1 /\ t[i] = e)
  BY <1>1, <1>3
<1>5. \A i \in DOMAIN s : s[i].id # n
  BY DEF Ids
<1>6. \A i \in DOMAIN t : t[i].order = i
  BY <1>2, <1>4 DEF Counted
<1>7. \A i, j \in DOMAIN t : t[i].id = t[j].id => i = j
  BY <1>2, <1>4, <1>5 DEF Counted
<1>8. Ids(t) = Ids(s) \union {n}
  <2>1. Ids(t) \subseteq Ids(s) \union {n}
    BY <1>2, <1>4 DEF Ids
  <2>2. Ids(s) \subseteq Ids(t)
    <3>1. \A i \in DOMAIN s : i \in DOMAIN t /\ t[i] = s[i]
      BY <1>1, <1>3
    <3> QED BY <3>1 DEF Ids
  <2>3. n \in Ids(t)
    <3>1. Len(s) + 1 \in DOMAIN t
      BY <1>1, <1>3
    <3> QED BY <1>2, <1>3, <3>1 DEF Ids
  <2> QED BY <2>1, <2>2, <2>3
<1> QED BY <1>3, <1>6, <1>7, <1>8 DEF Counted

\* Lemma: a step is taken away, and the others are counted anew.
LEMMA StepRemoved ==
    ASSUME NEW s, Counted(s), NEW i \in DOMAIN s
    PROVE  LET t == Renumbered(RemoveAt(s, i)) IN
           Counted(t) /\ Ids(t) = Ids(s) \ {s[i].id}
<1> PICK u : u = RemoveAt(s, i)
  OBVIOUS
<1>1. s \in Seq(Step) /\ Len(s) \in Nat /\ DOMAIN s = 1 .. Len(s) /\ i \in 1 .. Len(s)
  BY DEF Counted
<1>2. /\ u \in Seq(Step) /\ Len(u) = Len(s) - 1 /\ DOMAIN u = 1 .. Len(s) - 1
      /\ \A k \in 1 .. Len(s) - 1 : u[k] = s[IF k < i THEN k ELSE k + 1]
  <2>1. /\ u \in Seq(Step) /\ Len(u) = Len(s) - 1
        /\ \A k \in 1 .. Len(s) - 1 : u[k] = s[IF k < i THEN k ELSE k + 1]
    BY <1>1, RemoveOne
  <2> QED BY <2>1
<1>3. \A k \in DOMAIN u : \E a \in DOMAIN s :
          a = (IF k < i THEN k ELSE k + 1) /\ a # i /\ u[k] = s[a]
  BY <1>1, <1>2
<1>4. \A a \in DOMAIN s : a # i => \E k \in DOMAIN u : a = (IF k < i THEN k ELSE k + 1)
  <2> SUFFICES ASSUME NEW a \in DOMAIN s, a # i
               PROVE  \E k \in DOMAIN u : a = (IF k < i THEN k ELSE k + 1)
    OBVIOUS
  <2>1. CASE a < i
    BY <1>1, <1>2, <2>1
  <2>2. CASE a > i
    <3>1. a - 1 \in DOMAIN u /\ ~(a - 1 < i) /\ (a - 1) + 1 = a
      BY <1>1, <1>2, <2>2
    <3> QED BY <3>1
  <2> QED BY <1>1, <2>1, <2>2
<1>5. \A j, k \in DOMAIN u : u[j].id = u[k].id => j = k
  <2> SUFFICES ASSUME NEW j \in DOMAIN u, NEW k \in DOMAIN u, u[j].id = u[k].id
               PROVE  j = k
    OBVIOUS
  <2>1. PICK a \in DOMAIN s : a = (IF j < i THEN j ELSE j + 1) /\ u[j] = s[a]
    BY <1>3
  <2>2. PICK b \in DOMAIN s : b = (IF k < i THEN k ELSE k + 1) /\ u[k] = s[b]
    BY <1>3
  <2>3. a = b
    BY <2>1, <2>2 DEF Counted
  <2> QED BY <1>1, <1>2, <2>1, <2>2, <2>3
<1>6. Counted(Renumbered(u)) /\ Ids(Renumbered(u)) = Ids(u)
  BY <1>2, <1>5, StepsRenumbered
<1>7. Ids(u) = Ids(s) \ {s[i].id}
  <2>1. \A k \in DOMAIN u : u[k].id \in Ids(s) /\ u[k].id # s[i].id
    BY <1>3 DEF Ids, Counted
  <2>2. \A a \in DOMAIN s : s[a].id # s[i].id => s[a].id \in Ids(u)
    BY <1>3, <1>4 DEF Ids
  <2> QED BY <2>1, <2>2 DEF Ids
<1> QED BY <1>6, <1>7

\* Lemma: a permutation of the steps has them all.
LEMMA StepsReordered ==
    ASSUME NEW s, Counted(s), NEW order \in SetToSeqs(DOMAIN s)
    PROVE  LET t == Renumbered([i \in DOMAIN order |-> s[order[i]]]) IN
           Counted(t) /\ Ids(t) = Ids(s)
<1> PICK n : n = Len(s)
  OBVIOUS
<1>1. s \in Seq(Step) /\ n \in Nat /\ DOMAIN s = 1 .. n
  BY DEF Counted
<1>2. IsFiniteSet(1 .. n) /\ Cardinality(1 .. n) = n
  <2>1. n \in Int /\ 1 \in Int
    BY <1>1
  <2>2. IsFiniteSet(1 .. n) /\ Cardinality(1 .. n) = IF 1 > n THEN 0 ELSE n - 1 + 1
    BY <2>1, FS_Interval
  <2> QED BY <1>1, <2>2
<1>3. order \in [1 .. n -> 1 .. n] /\ \A i, j \in 1 .. n : i # j => order[i] # order[j]
  BY <1>1, <1>2 DEF SetToSeqs
<1>4. order \in Injection(1 .. n, 1 .. n)
  BY <1>3 DEF Injection, IsInjective
<1>5. order \in Surjection(1 .. n, 1 .. n)
  BY <1>2, <1>4, FS_Injection
<1>6. \A a \in 1 .. n : \E i \in 1 .. n : order[i] = a
  BY <1>5 DEF Surjection
<1> PICK u : u = [i \in DOMAIN order |-> s[order[i]]]
  OBVIOUS
<1>7. u = [i \in 1 .. n |-> s[order[i]]] /\ \A i \in 1 .. n : order[i] \in DOMAIN s
  BY <1>1, <1>3
<1>8. u \in Seq(Step) /\ DOMAIN u = 1 .. n
  <2>1. \A i \in 1 .. n : s[order[i]] \in Step
    BY <1>1, <1>7
  <2> QED BY <1>1, <1>7, <2>1
<1>9. \A i, j \in DOMAIN u : u[i].id = u[j].id => i = j
  BY <1>3, <1>7, <1>8 DEF Counted
<1>10. Counted(Renumbered(u)) /\ Ids(Renumbered(u)) = Ids(u)
  BY <1>8, <1>9, StepsRenumbered
<1>11. Ids(u) = Ids(s)
  <2>1. \A i \in 1 .. n : order[i] \in DOMAIN s /\ u[i] = s[order[i]]
    BY <1>7
  <2>2. Ids(u) \subseteq Ids(s)
    BY <1>8, <2>1 DEF Ids
  <2>3. ASSUME NEW a \in DOMAIN s PROVE s[a].id \in Ids(u)
    <3>1. PICK i \in 1 .. n : order[i] = a
      BY <1>1, <1>6
    <3> QED BY <1>8, <2>1, <3>1 DEF Ids
  <2> QED BY <2>2, <2>3 DEF Ids
<1> QED BY <1>10, <1>11

-----------------------------------------------------------------------------
(* The planner: its invariant *)

Plan == [steps : Seq(Step), status : PlanStatuses]
PlanSession ==
    [call : {"plan_session"}, plan : Nat, goals : 0 .. MaxGoals,
     at : {"PLAN_CREATED", "PLAN_UPDATED"}]
\* A request of the agent service waits for the planner, or was left by it.
Request == [call : {"run"}, request : Nat, plan : Nat, at : Direct]
PlannerCall ==
    PlanSession
    \union Request
    \union [call : {"planner"}, at : {"PLAN_UPDATED", "PLAN_VALIDATED"}]
    \union [call : {"registry"}, at : {"CAPABILITY_REGISTERED", "CAPABILITY_UNREGISTERED"}]

StepsOf(p) == Ids(plans[p].steps)

\* The calls in progress; a planning session has its plan, and so has a request.
HasPlan(f) == f.call \in {"plan_session", "run"} => f.plan \in DOMAIN plans
CallsOK ==
    /\ stack \in Seq(PlannerCall)
    /\ \A i \in DOMAIN stack : HasPlan(stack[i])

\* The steps that were made and not removed stand in the plans, each in one of them.
StepsKept ==
    /\ \A p \in DOMAIN plans : StepsOf(p) \subseteq (1 .. made) \ removed
    /\ \A n \in (1 .. made) \ removed : \E p \in DOMAIN plans : n \in StepsOf(p)
    /\ \A p, q \in DOMAIN plans : \A n \in StepsOf(p) : n \in StepsOf(q) => p = q

PlansOK ==
    /\ plans \in Seq(Plan)
    /\ made \in 0 .. MaxSteps /\ removed \subseteq 1 .. made
    /\ \A p \in DOMAIN plans : Counted(plans[p].steps)
    /\ StepsKept

KnownOK ==
    /\ known \in Seq(SUBSET {c.id : c \in Offered}) /\ Len(known) = Len(plans)
    /\ ValidatedWasComplete

PlannerInv == CallsOK /\ registry \in Seq(Offered) /\ NoTwins /\ PlansOK /\ KnownOK

-----------------------------------------------------------------------------
(* The planner: its calls *)

LEMMA CallBegins ==
    ASSUME CallsOK, NEW f \in PlannerCall, Enter(f), DOMAIN plans \subseteq DOMAIN plans', HasPlan(f)'
    PROVE  CallsOK'
<1>1. /\ stack' \in Seq(PlannerCall) /\ Len(stack) \in Nat
      /\ DOMAIN stack = 1 .. Len(stack) /\ DOMAIN stack' = 1 .. Len(stack) + 1
      /\ stack'[Len(stack) + 1] = f /\ \A i \in 1 .. Len(stack) : stack'[i] = stack[i]
  BY DEF CallsOK, Enter, Opened
<1>2. \A i \in DOMAIN stack' : (i \in DOMAIN stack /\ stack'[i] = stack[i]) \/ stack'[i] = f
  BY <1>1
<1> QED BY <1>1, <1>2 DEF CallsOK, HasPlan

LEMMA CallMoves ==
    ASSUME CallsOK, Busy, NEW f \in PlannerCall, stack' = [stack EXCEPT ![Len(stack)] = f],
           DOMAIN plans \subseteq DOMAIN plans', HasPlan(f)'
    PROVE  CallsOK'
<1>1. stack \in Seq(PlannerCall) /\ Len(stack) \in DOMAIN stack
  BY DEF CallsOK, Busy
<1>2. /\ stack' \in Seq(PlannerCall) /\ DOMAIN stack' = DOMAIN stack
      /\ \A i \in DOMAIN stack : stack'[i] = stack[i] \/ stack'[i] = f
  BY <1>1, SequenceExcept
<1> QED BY <1>2 DEF CallsOK, HasPlan

\* Lemma: the innermost call is a planning session, and goes on with its goals.
LEMMA CallGoesOn ==
    ASSUME MaxGoals \in Nat, CallsOK, Busy, Top.call = "plan_session", Top.goals > 0,
           DOMAIN plans \subseteq DOMAIN plans',
           stack' = [stack EXCEPT ![Len(stack)].goals = @ - 1, ![Len(stack)].at = "PLAN_UPDATED"]
    PROVE  /\ CallsOK' /\ DOMAIN stack' = DOMAIN stack
           /\ \A i \in DOMAIN stack' : stack'[i].call = "run" => stack'[i] = stack[i]
<1>1. Len(stack) \in DOMAIN stack /\ Top = stack[Len(stack)] /\ Top \in PlannerCall
      /\ stack \in Seq(PlannerCall)
  BY DEF CallsOK, Busy, Top, Last
<1>2. Top \in PlanSession /\ Top.plan \in DOMAIN plans
  BY <1>1 DEF PlannerCall, Request, CallsOK, HasPlan
<1> PICK f : f = [Top EXCEPT !.goals = @ - 1, !.at = "PLAN_UPDATED"]
  OBVIOUS
<1>3. f \in PlanSession /\ f.plan = Top.plan
  <2>1. Top.goals \in 0 .. MaxGoals
    BY <1>2 DEF PlanSession
  <2>2. Top.goals - 1 \in 0 .. MaxGoals
    BY <2>1
  <2> QED BY <1>2, <2>2 DEF PlanSession
<1>4. stack' = [stack EXCEPT ![Len(stack)] = f]
  BY <1>1
<1>5. f \in PlannerCall /\ HasPlan(f)' /\ f.call # "run"
  BY <1>2, <1>3 DEF PlannerCall, HasPlan, PlanSession
<1>6. CallsOK'
  BY <1>4, <1>5, CallMoves
<1>7. /\ DOMAIN stack' = DOMAIN stack
      /\ \A i \in DOMAIN stack : stack'[i] = stack[i] \/ stack'[i] = f
  BY <1>1, <1>4, <1>5, SequenceExcept
<1> QED BY <1>5, <1>6, <1>7

\* Lemma: the innermost call returns or is left; a request that made it may be left too.
LEMMA CallEnds ==
    ASSUME CallsOK, Busy, Return \/ Unwind, UNCHANGED plans
    PROVE  /\ CallsOK' /\ Len(stack') = Len(stack) - 1
           /\ \A i \in DOMAIN stack' :
                  /\ i \in DOMAIN stack
                  /\ \/ stack'[i] = stack[i]
                     \/ stack[i] \in Request /\ stack'[i] = [stack[i] EXCEPT !.at = "raised"]
<1> PICK n : n = Len(stack)
  OBVIOUS
<1>1. /\ n \in Nat \ {0} /\ DOMAIN stack = 1 .. n /\ stack \in Seq(PlannerCall) /\ Len(stack) = n
  BY DEF CallsOK, Busy
<1> PICK below : below = Front(stack)
  OBVIOUS
<1>2. /\ below \in Seq(PlannerCall) /\ Len(below) = n - 1 /\ DOMAIN below = 1 .. n - 1
      /\ \A i \in 1 .. n - 1 : below[i] = stack[i]
  BY <1>1, SubSeqProperties DEF Front
<1>3. ASSUME NEW i \in 1 .. n - 1 PROVE i \in DOMAIN stack /\ HasPlan(below[i])
  <2>1. i \in DOMAIN stack
    BY <1>1
  <2>2. HasPlan(stack[i])
    BY <2>1 DEF CallsOK
  <2>3. below[i] = stack[i]
    BY <1>2
  <2> QED BY <2>1, <2>2, <2>3 DEF HasPlan
<1>4. CASE stack' = below
  <2>1. \A i \in DOMAIN stack' : HasPlan(stack[i])'
    BY <1>2, <1>3, <1>4 DEF HasPlan
  <2> QED BY <1>1, <1>2, <1>3, <1>4, <2>1 DEF CallsOK
<1>5. CASE below # << >> /\ Last(below).at = "calling"
           /\ stack' = [below EXCEPT ![Len(below)].at = "raised"]
  <2> PICK f : f = [Last(below) EXCEPT !.at = "raised"]
    OBVIOUS
  <2>1. n - 1 \in DOMAIN below /\ Last(below) = below[n - 1] /\ Last(below) \in PlannerCall
    BY <1>1, <1>2, <1>5 DEF Last
  <2>2. Last(below) \in Request
    BY <1>5, <2>1 DEF PlannerCall, PlanSession, Request
  <2>3. f \in Request /\ f.plan = Last(below).plan /\ f.call = Last(below).call
    BY <2>2 DEF Request, Direct
  <2>4. f \in PlannerCall
    BY <2>3 DEF PlannerCall
  <2>5. stack' = [below EXCEPT ![n - 1] = f]
    BY <1>2, <1>5, <2>1
  <2>6. /\ stack' \in Seq(PlannerCall) /\ Len(stack') = n - 1 /\ DOMAIN stack' = 1 .. n - 1
        /\ stack'[n - 1] = f /\ \A i \in 1 .. n - 1 : i # n - 1 => stack'[i] = below[i]
    BY <1>2, <2>1, <2>4, <2>5, SequenceExcept
  <2>7. \A i \in 1 .. n - 1 : stack'[i].call = below[i].call
                              /\ (stack'[i].call = "run" => stack'[i].plan = below[i].plan)
                              /\ (stack'[i].call = "plan_session" => stack'[i].plan = below[i].plan)
    BY <2>1, <2>3, <2>6
  <2>8. \A i \in DOMAIN stack' : HasPlan(stack[i])'
    BY <1>3, <2>6, <2>7 DEF HasPlan
  <2>9. ASSUME NEW i \in 1 .. n - 1
        PROVE  \/ stack'[i] = stack[i]
               \/ stack[i] \in Request /\ stack'[i] = [stack[i] EXCEPT !.at = "raised"]
    <3>1. stack[i] = below[i]
      BY <1>2
    <3>2. CASE i = n - 1
      BY <2>1, <2>2, <2>6, <3>1, <3>2
    <3>3. CASE i # n - 1
      BY <2>6, <3>1, <3>3
    <3> QED BY <3>2, <3>3
  <2> QED BY <1>1, <1>3, <2>6, <2>8, <2>9 DEF CallsOK
<1> QED BY <1>4, <1>5 DEF Return, Unwind, Unwound

-----------------------------------------------------------------------------
(* The planner: its operations *)

\* Lemma: one plan is edited.  What is new in it was made now, and what is no longer in it
\* was removed now.
LEMMA PlanEdited ==
    ASSUME PlansOK, NEW p \in DOMAIN plans, NEW steps, Counted(steps), NEW status \in PlanStatuses,
           SetPlan(p, steps, status),
           made' \in 0 .. MaxSteps, made <= made', removed' \subseteq 1 .. made',
           Ids(steps) = (StepsOf(p) \union ((1 .. made') \ (1 .. made))) \ removed',
           removed \subseteq removed', removed' \ removed \subseteq StepsOf(p)
    PROVE  /\ PlansOK' /\ DOMAIN plans' = DOMAIN plans /\ Len(plans') = Len(plans)
           /\ plans'[p] = [steps |-> steps, status |-> status]
           /\ \A q \in DOMAIN plans : q # p => plans'[q] = plans[q]
<1> PICK plan : plan = [steps |-> steps, status |-> status]
  OBVIOUS
<1>1. plan \in Plan /\ plan.steps = steps
  BY DEF Plan, Counted
<1>2. plans \in Seq(Plan) /\ plans' = [plans EXCEPT ![p] = plan] /\ made \in 0 .. MaxSteps
  BY DEF PlansOK, SetPlan
<1>3. /\ plans' \in Seq(Plan) /\ DOMAIN plans' = DOMAIN plans /\ Len(plans') = Len(plans)
      /\ plans'[p] = plan /\ \A q \in DOMAIN plans : q # p => plans'[q] = plans[q]
  BY <1>1, <1>2
<1>4. \A q \in DOMAIN plans : Counted(plans'[q].steps)
  BY <1>1, <1>3 DEF PlansOK
<1> PICK of : of = [q \in DOMAIN plans |-> IF q = p THEN Ids(steps) ELSE StepsOf(q)]
  OBVIOUS
<1>5. \A q \in DOMAIN plans : StepsOf(q)' = of[q]
  BY <1>1, <1>3 DEF StepsOf
<1>6. \A q \in DOMAIN plans : of[q] = IF q = p THEN Ids(steps) ELSE StepsOf(q)
  OBVIOUS
<1>7. /\ \A q \in DOMAIN plans : StepsOf(q) \subseteq (1 .. made) \ removed
      /\ \A n \in (1 .. made) \ removed : \E q \in DOMAIN plans : n \in StepsOf(q)
      /\ \A q, r \in DOMAIN plans : \A n \in StepsOf(q) : n \in StepsOf(r) => q = r
  BY DEF PlansOK, StepsKept
<1>8. \A q \in DOMAIN plans : of[q] \subseteq (1 .. made') \ removed'
  <2> SUFFICES ASSUME NEW q \in DOMAIN plans, NEW n \in of[q] PROVE n \in (1 .. made') \ removed'
    OBVIOUS
  <2>1. CASE q = p
    BY <1>2, <1>6, <1>7, <2>1
  <2>2. CASE q # p
    BY <1>2, <1>6, <1>7, <2>2
  <2> QED BY <2>1, <2>2
<1>9. ASSUME NEW n \in (1 .. made') \ removed' PROVE \E q \in DOMAIN plans : n \in of[q]
  <2>1. CASE n \in 1 .. made
    <3>1. PICK q \in DOMAIN plans : n \in StepsOf(q)
      BY <1>7, <1>9, <2>1
    <3> QED BY <1>6, <1>9, <3>1
  <2>2. CASE n \notin 1 .. made
    BY <1>6, <1>9, <2>2
  <2> QED BY <2>1, <2>2
<1>10. \A q, r \in DOMAIN plans : \A n \in of[q] : n \in of[r] => q = r
  <2> SUFFICES ASSUME NEW q \in DOMAIN plans, NEW r \in DOMAIN plans,
                      NEW n \in of[q], n \in of[r], q # r
               PROVE  FALSE
    OBVIOUS
  <2>1. n \in StepsOf(q) /\ n \in StepsOf(r)
    BY <1>6, <1>7
  <2> QED BY <1>7, <2>1
<1>11. StepsKept'
  <2>1. \A q \in DOMAIN plans : StepsOf(q)' \subseteq (1 .. made') \ removed'
    BY <1>5, <1>8
  <2>2. \A n \in (1 .. made') \ removed' : \E q \in DOMAIN plans : n \in StepsOf(q)'
    BY <1>5, <1>9
  <2>3. \A q, r \in DOMAIN plans : \A n \in StepsOf(q)' : n \in StepsOf(r)' => q = r
    BY <1>5, <1>10
  <2> QED BY <1>3, <2>1, <2>2, <2>3 DEF StepsKept
<1> QED BY <1>1, <1>3, <1>4, <1>11 DEF PlansOK

\* Lemma: an edit of a plan leaves it CREATED, so that nothing is said of it.
LEMMA EditKept ==
    ASSUME PlannerInv, NEW p \in DOMAIN plans, NEW steps, UNCHANGED <<registry, known>>,
           PlansOK', CallsOK', DOMAIN plans' = DOMAIN plans, Len(plans') = Len(plans),
           plans'[p] = [steps |-> steps, status |-> "CREATED"],
           \A q \in DOMAIN plans : q # p => plans'[q] = plans[q]
    PROVE  PlannerInv'
<1>1. ValidatedWasComplete'
  <2> SUFFICES ASSUME NEW q \in DOMAIN plans, plans'[q].status = "VALIDATED",
                      NEW i \in DOMAIN plans'[q].steps
               PROVE  plans'[q].steps[i].optional \/ plans'[q].steps[i].needs \in known'[q]
    BY DEF ValidatedWasComplete
  <2>1. q # p
    OBVIOUS
  <2>2. plans'[q] = plans[q] /\ known'[q] = known[q]
    BY <2>1
  <2> QED BY <2>2 DEF PlannerInv, KnownOK, ValidatedWasComplete
<1> QED BY <1>1 DEF PlannerInv, KnownOK, NoTwins

LEMMA InvParts ==
    ASSUME PlannerInv
    PROVE  /\ CallsOK /\ PlansOK /\ registry \in Seq(Offered)
           /\ plans \in Seq(Plan) /\ made \in 0 .. MaxSteps /\ removed \subseteq 1 .. made
           /\ \A p \in DOMAIN plans : Counted(plans[p].steps)
           /\ \A p \in DOMAIN plans : StepsOf(p) \subseteq (1 .. made) \ removed
BY DEF PlannerInv, PlansOK, StepsKept

\* Lemma: a step is made and added to a plan.
LEMMA StepMade ==
    ASSUME MaxSteps \in Nat, PlannerInv, NEW p \in DOMAIN plans, NEW needs \in Required,
           NEW optional \in BOOLEAN, made < MaxSteps, made' = made + 1,
           UNCHANGED <<registry, removed, known>>,
           SetPlan(p, WithStep(p, made + 1, needs, optional), "CREATED"), 
           DOMAIN plans' = DOMAIN plans => CallsOK'
    PROVE  PlannerInv'
<1> PICK steps : steps = WithStep(p, made + 1, needs, optional)
  OBVIOUS
<1>1. /\ PlansOK /\ made \in 0 .. MaxSteps /\ removed \subseteq 1 .. made
      /\ Counted(plans[p].steps) /\ StepsOf(p) \subseteq (1 .. made) \ removed
  BY InvParts
<1>2. made + 1 \in Nat /\ made + 1 \notin StepsOf(p)
  BY <1>1
<1>3. Counted(steps) /\ Ids(steps) = StepsOf(p) \union {made + 1}
  BY <1>1, <1>2, StepAdded DEF WithStep, StepsOf
<1>4. /\ made' \in 0 .. MaxSteps /\ made <= made' /\ removed' \subseteq 1 .. made'
      /\ (1 .. made') \ (1 .. made) = {made + 1}
  BY <1>1
<1>5. Ids(steps) = (StepsOf(p) \union ((1 .. made') \ (1 .. made))) \ removed'
  <2>1. made + 1 \notin removed' /\ removed' = removed
    BY <1>1
  <2> QED BY <1>1, <1>3, <1>4, <2>1
<1>6. removed \subseteq removed' /\ removed' \ removed \subseteq StepsOf(p)
  OBVIOUS
<1>7. "CREATED" \in PlanStatuses /\ SetPlan(p, steps, "CREATED")
  BY DEF PlanStatuses
<1>8. /\ PlansOK' /\ DOMAIN plans' = DOMAIN plans /\ Len(plans') = Len(plans)
      /\ plans'[p] = [steps |-> steps, status |-> "CREATED"]
      /\ \A q \in DOMAIN plans : q # p => plans'[q] = plans[q]
  BY <1>1, <1>3, <1>4, <1>5, <1>6, <1>7, PlanEdited
<1> QED BY <1>8, EditKept

LEMMA AddStepStep ==
    ASSUME MaxSteps \in Nat, PlannerInv, NEW p \in DOMAIN plans, NEW needs \in Required,
           NEW optional \in BOOLEAN, AddStep(p, needs, optional)
    PROVE  PlannerInv'
<1> PICK f : f = [call |-> "planner", at |-> "PLAN_UPDATED"]
  OBVIOUS
<1>1. /\ made < MaxSteps /\ made' = made + 1 /\ UNCHANGED <<registry, removed, known>>
      /\ SetPlan(p, WithStep(p, made + 1, needs, optional), "CREATED") /\ Enter(f)
  BY DEF AddStep, Update
<1>2. f \in PlannerCall /\ HasPlan(f)'
  BY DEF PlannerCall, HasPlan
<1>3. DOMAIN plans' = DOMAIN plans => CallsOK'
  BY <1>1, <1>2, InvParts, CallBegins
<1> QED BY <1>1, <1>3, StepMade

LEMMA NextGoalStep ==
    ASSUME MaxSteps \in Nat, MaxGoals \in Nat, PlannerInv, NEW needs \in Required, NextGoal(needs)
    PROVE  PlannerInv'
<1> PICK p : p = Top.plan
  OBVIOUS
<1>1. /\ made < MaxSteps /\ made' = made + 1 /\ UNCHANGED <<registry, removed, known>>
      /\ SetPlan(p, WithStep(p, made + 1, needs, FALSE), "CREATED")
      /\ Busy /\ Top.call = "plan_session" /\ Top.goals > 0
      /\ stack' = [stack EXCEPT ![Len(stack)].goals = @ - 1, ![Len(stack)].at = "PLAN_UPDATED"]
  BY DEF NextGoal
<1>2. p \in DOMAIN plans
  <2>1. Len(stack) \in DOMAIN stack /\ Top = stack[Len(stack)]
    BY <1>1, InvParts DEF CallsOK, Busy, Top, Last
  <2> QED BY <1>1, <2>1, InvParts DEF CallsOK, HasPlan
<1>3. DOMAIN plans' = DOMAIN plans => CallsOK'
  BY <1>1, InvParts, CallGoesOn
<1> QED BY <1>1, <1>2, <1>3, StepMade

\* Lemma: a plan keeps its steps, or loses one that is removed.
LEMMA StepsChanged ==
    ASSUME PlannerInv, NEW p \in DOMAIN plans, NEW steps, Counted(steps),
           NEW gone \in SUBSET StepsOf(p),
           Ids(steps) = StepsOf(p) \ gone, removed' = removed \union gone,
           Update(p, steps), UNCHANGED made
    PROVE  PlannerInv'
<1> PICK f : f = [call |-> "planner", at |-> "PLAN_UPDATED"]
  OBVIOUS
<1>1. /\ PlansOK /\ made \in 0 .. MaxSteps /\ removed \subseteq 1 .. made
      /\ StepsOf(p) \subseteq (1 .. made) \ removed
  BY InvParts
<1>2. /\ made' \in 0 .. MaxSteps /\ made <= made' /\ removed' \subseteq 1 .. made'
      /\ (1 .. made') \ (1 .. made) = {}
  <2>1. made' = made /\ made \in Int
    BY <1>1
  <2>2. removed' \subseteq 1 .. made
    BY <1>1
  <2> QED BY <1>1, <2>1, <2>2
<1>3. Ids(steps) = (StepsOf(p) \union ((1 .. made') \ (1 .. made))) \ removed'
  <2>1. \A n \in StepsOf(p) : n \notin removed
    BY <1>1
  <2>2. (1 .. made') \ (1 .. made) = {}
    BY <1>2
  <2> QED BY <2>1, <2>2
<1>4. removed \subseteq removed' /\ removed' \ removed \subseteq StepsOf(p)
  OBVIOUS
<1>5. "CREATED" \in PlanStatuses /\ SetPlan(p, steps, "CREATED") /\ Enter(f)
      /\ UNCHANGED <<registry, known>>
  BY DEF PlanStatuses, Update
<1>6. /\ PlansOK' /\ DOMAIN plans' = DOMAIN plans /\ Len(plans') = Len(plans)
      /\ plans'[p] = [steps |-> steps, status |-> "CREATED"]
      /\ \A q \in DOMAIN plans : q # p => plans'[q] = plans[q]
  BY <1>1, <1>2, <1>3, <1>4, <1>5, PlanEdited
<1>7. f \in PlannerCall /\ HasPlan(f)'
  BY DEF PlannerCall, HasPlan
<1>8. CallsOK'
  BY <1>5, <1>6, <1>7, InvParts, CallBegins
<1> QED BY <1>5, <1>6, <1>8, EditKept

LEMMA RemoveStepStep ==
    ASSUME PlannerInv, NEW p \in DOMAIN plans, NEW id, RemoveStep(p, id)
    PROVE  PlannerInv'
<1> PICK s : s = plans[p].steps
  OBVIOUS
<1>1. PICK i \in DOMAIN s : s[i].id = id /\ Update(p, Renumbered(RemoveAt(s, i)))
  BY DEF RemoveStep
<1>2. removed' = removed \union {id} /\ UNCHANGED made
  BY DEF RemoveStep
<1> PICK steps : steps = Renumbered(RemoveAt(s, i))
  OBVIOUS
<1>3. Counted(steps) /\ Ids(steps) = StepsOf(p) \ {id}
  BY <1>1, InvParts, StepRemoved DEF StepsOf
<1>4. {id} \in SUBSET StepsOf(p)
  BY <1>1 DEF StepsOf, Ids
<1> QED BY <1>1, <1>2, <1>3, <1>4, StepsChanged

LEMMA ReorderStepsStep ==
    ASSUME PlannerInv, NEW p \in DOMAIN plans, ReorderSteps(p)
    PROVE  PlannerInv'
<1> PICK s : s = plans[p].steps
  OBVIOUS
<1>1. PICK order \in SetToSeqs(DOMAIN s) :
          Update(p, Renumbered([i \in DOMAIN order |-> s[order[i]]]))
  BY DEF ReorderSteps
<1>2. UNCHANGED <<made, removed>>
  BY DEF ReorderSteps
<1> PICK steps : steps = Renumbered([i \in DOMAIN order |-> s[order[i]]])
  OBVIOUS
<1>3. Counted(steps) /\ Ids(steps) = StepsOf(p)
  BY <1>1, InvParts, StepsReordered DEF StepsOf
<1> PICK gone : gone = {}
  OBVIOUS
<1>4. gone \in SUBSET StepsOf(p) /\ Ids(steps) = StepsOf(p) \ gone /\ removed' = removed \union gone
  BY <1>2, <1>3
<1> QED BY <1>1, <1>2, <1>3, <1>4, StepsChanged

LEMMA ValidatePlanStep ==
    ASSUME PlannerInv, NEW p \in DOMAIN plans, ValidatePlan(p)
    PROVE  PlannerInv'
<1> PICK s : s = plans[p].steps
  OBVIOUS
<1>1. /\ PlansOK /\ CallsOK /\ registry \in Seq(Offered) /\ made \in 0 .. MaxSteps
      /\ removed \subseteq 1 .. made /\ Counted(s) /\ StepsOf(p) \subseteq (1 .. made) \ removed
  BY InvParts
<1>2. UNCHANGED <<registry, made, removed>>
  BY DEF ValidatePlan
<1>3. ASSUME NEW status \in PlanStatuses, SetPlan(p, s, status)
      PROVE  /\ PlansOK' /\ DOMAIN plans' = DOMAIN plans /\ Len(plans') = Len(plans)
             /\ plans'[p] = [steps |-> s, status |-> status]
             /\ \A q \in DOMAIN plans : q # p => plans'[q] = plans[q]
  <2>1. made' \in 0 .. MaxSteps /\ made <= made' /\ removed' \subseteq 1 .. made'
    BY <1>1, <1>2
  <2>2. Ids(s) = (StepsOf(p) \union ((1 .. made') \ (1 .. made))) \ removed'
    <3>1. \A n \in StepsOf(p) : n \notin removed
      BY <1>1
    <3> QED BY <1>2, <3>1 DEF StepsOf
  <2>3. removed \subseteq removed' /\ removed' \ removed \subseteq StepsOf(p)
    BY <1>2
  <2> QED BY <1>1, <1>3, <2>1, <2>2, <2>3, PlanEdited
<1>4. CASE Missing(p) = {}
  <2> PICK f : f = [call |-> "planner", at |-> "PLAN_VALIDATED"]
    OBVIOUS
  <2>0. PICK ids : ids = {c.id : c \in Registered}
    OBVIOUS
  <2>1. SetPlan(p, s, "VALIDATED") /\ known' = [known EXCEPT ![p] = ids] /\ Enter(f)
    BY <1>4, <2>0 DEF ValidatePlan
  <2>2. /\ PlansOK' /\ DOMAIN plans' = DOMAIN plans /\ Len(plans') = Len(plans)
        /\ plans'[p] = [steps |-> s, status |-> "VALIDATED"]
        /\ \A q \in DOMAIN plans : q # p => plans'[q] = plans[q]
    BY <1>3, <2>1 DEF PlanStatuses
  <2>3. f \in PlannerCall /\ HasPlan(f)'
    BY DEF PlannerCall, HasPlan
  <2>4. CallsOK'
    BY <1>1, <2>1, <2>2, <2>3, CallBegins
  <2>5. ids \in SUBSET {c.id : c \in Offered}
    BY <1>1, <2>0 DEF Registered, ToSet
  <2>6. /\ known \in Seq(SUBSET {c.id : c \in Offered}) /\ Len(known) = Len(plans)
        /\ p \in DOMAIN known
    BY <1>1 DEF PlannerInv, KnownOK, PlansOK
  <2>7. /\ known' \in Seq(SUBSET {c.id : c \in Offered}) /\ Len(known') = Len(known)
        /\ known'[p] = ids /\ \A q \in DOMAIN known : q # p => known'[q] = known[q]
    <3>0. PICK T : T = SUBSET {c.id : c \in Offered}
      OBVIOUS
    <3>1. known \in Seq(T) /\ p \in DOMAIN known /\ ids \in T
      BY <2>5, <2>6, <3>0
    <3>2. LET t == [known EXCEPT ![p] = ids] IN
          /\ t \in Seq(T) /\ Len(t) = Len(known)
          /\ t[p] = ids /\ \A q \in DOMAIN known : q # p => t[q] = known[q]
      BY <3>1, SequenceExcept
    <3> QED BY <2>1, <3>0, <3>2
  <2>8. \A i \in DOMAIN s : s[i].optional \/ s[i].needs \in ids
    <3> SUFFICES ASSUME NEW i \in DOMAIN s, ~s[i].optional PROVE s[i].needs \in ids
      OBVIOUS
    <3>1. Known(s[i].needs)
      BY <1>4 DEF Missing, ToSet
    <3> QED BY <2>0, <3>1 DEF Known
  <2>9. DOMAIN known = DOMAIN plans
    BY <1>1, <2>6 DEF PlansOK
  <2>10. ValidatedWasComplete'
    <3> SUFFICES ASSUME NEW q \in DOMAIN plans, plans'[q].status = "VALIDATED",
                        NEW i \in DOMAIN plans'[q].steps
                 PROVE  plans'[q].steps[i].optional \/ plans'[q].steps[i].needs \in known'[q]
      BY <2>2 DEF ValidatedWasComplete
    <3>1. CASE q = p
      BY <2>2, <2>7, <2>8, <3>1
    <3>2. CASE q # p
      BY <2>2, <2>7, <2>9, <3>2 DEF PlannerInv, KnownOK, ValidatedWasComplete
    <3> QED BY <3>1, <3>2
  <2> QED BY <1>2, <2>2, <2>4, <2>6, <2>7, <2>10 DEF PlannerInv, KnownOK, NoTwins
<1>5. CASE Missing(p) # {}
  <2>1. SetPlan(p, s, "FAILED") /\ UNCHANGED <<stack, known>>
    BY <1>5 DEF ValidatePlan
  <2>2. /\ PlansOK' /\ DOMAIN plans' = DOMAIN plans /\ Len(plans') = Len(plans)
        /\ plans'[p] = [steps |-> s, status |-> "FAILED"]
        /\ \A q \in DOMAIN plans : q # p => plans'[q] = plans[q]
    BY <1>3, <2>1 DEF PlanStatuses
  <2>3. ValidatedWasComplete'
    BY <2>1, <2>2 DEF PlannerInv, KnownOK, ValidatedWasComplete
  <2>4. CallsOK'
    BY <1>1, <2>1, <2>2 DEF CallsOK, HasPlan
  <2> QED BY <1>2, <2>1, <2>2, <2>3, <2>4 DEF PlannerInv, KnownOK, NoTwins
<1> QED BY <1>4, <1>5

\* Lemma: a plan is created above calls that have theirs.
LEMMA PlanMade ==
    ASSUME PlannerInv, NEW goals \in 0 .. MaxGoals, NEW below \in Seq(PlannerCall),
           \A i \in DOMAIN below : HasPlan(below[i])', PlanCreation(goals, below)
    PROVE  /\ PlannerInv' /\ Len(plans) \in Nat /\ Len(plans') = Len(plans) + 1
           /\ DOMAIN plans = 1 .. Len(plans) /\ DOMAIN plans' = 1 .. Len(plans) + 1
           /\ \A i \in DOMAIN stack' : stack'[i].call = "run" => i \in DOMAIN below /\ stack'[i] = below[i]
           /\ \A i \in DOMAIN below : i \in DOMAIN stack' /\ stack'[i] = below[i]
<1> PICK n : n = Len(plans)
  OBVIOUS
<1> PICK f : f = [call |-> "plan_session", plan |-> n + 1, goals |-> goals, at |-> "PLAN_CREATED"]
  OBVIOUS
<1>1. /\ PlansOK /\ CallsOK /\ plans \in Seq(Plan) /\ n \in Nat /\ DOMAIN plans = 1 .. n
      /\ \A p \in DOMAIN plans : Counted(plans[p].steps)
  BY InvParts
<1>2. NewPlan \in Plan /\ NewPlan.steps = << >> /\ NewPlan.status = "CREATED"
  BY DEF NewPlan, Plan, PlanStatuses
<1>3. /\ plans' = Append(plans, NewPlan) /\ known' = Append(known, {})
      /\ stack' = Append(below, [call |-> "plan_session", plan |-> Len(plans'), goals |-> goals,
                                 at |-> "PLAN_CREATED"])
      /\ UNCHANGED <<registry, made, removed>>
  BY DEF PlanCreation
<1>4. /\ plans' \in Seq(Plan) /\ Len(plans') = n + 1 /\ DOMAIN plans' = 1 .. n + 1
      /\ plans'[n + 1] = NewPlan /\ \A p \in 1 .. n : plans'[p] = plans[p]
  BY <1>1, <1>2, <1>3
<1>5. stack' = Append(below, f)
  BY <1>3, <1>4
<1>6. f \in PlannerCall /\ f.plan \in DOMAIN plans' /\ f.call # "run"
  BY <1>1, <1>4 DEF PlannerCall, PlanSession
<1>7. /\ CallsOK'
      /\ \A i \in DOMAIN stack' : stack'[i].call = "run" => i \in DOMAIN below /\ stack'[i] = below[i]
      /\ \A i \in DOMAIN below : i \in DOMAIN stack' /\ stack'[i] = below[i]
  <2> PICK m : m = Len(below)
    OBVIOUS
  <2>1. /\ m \in Nat /\ DOMAIN below = 1 .. m /\ DOMAIN stack' = 1 .. m + 1
        /\ stack' \in Seq(PlannerCall) /\ stack'[m + 1] = f
        /\ \A i \in 1 .. m : stack'[i] = below[i]
    BY <1>5, <1>6
  <2>2. \A i \in DOMAIN stack' : (i \in DOMAIN below /\ stack'[i] = below[i]) \/ stack'[i] = f
    BY <2>1
  <2>3. \A i \in DOMAIN below : HasPlan(below[i])'
    OBVIOUS
  <2>4. CallsOK'
    BY <1>6, <2>1, <2>2, <2>3 DEF CallsOK, HasPlan
  <2> QED BY <1>6, <2>1, <2>2, <2>4
<1>8. \A p \in DOMAIN plans' : (p \in DOMAIN plans /\ plans'[p] = plans[p]) \/ plans'[p] = NewPlan
  BY <1>1, <1>4
<1>9. Counted(<< >>) /\ Ids(<< >>) = {}
  BY DEF Counted, Ids
<1>10. \A p \in DOMAIN plans' : Counted(plans'[p].steps)
  BY <1>1, <1>2, <1>8, <1>9
<1>11. \A p \in DOMAIN plans' : (p \in DOMAIN plans /\ StepsOf(p)' = StepsOf(p)) \/ StepsOf(p)' = {}
  BY <1>2, <1>8, <1>9 DEF StepsOf
<1>12. \A p \in DOMAIN plans : p \in DOMAIN plans' /\ StepsOf(p)' = StepsOf(p)
  BY <1>1, <1>4 DEF StepsOf
<1>13. StepsKept'
  <2>1. StepsKept /\ UNCHANGED <<made, removed>>
    BY <1>1, <1>3 DEF PlansOK
  <2>2. \A p \in DOMAIN plans' : StepsOf(p)' \subseteq (1 .. made) \ removed
    BY <1>11, <2>1 DEF StepsKept
  <2>3. \A k \in (1 .. made) \ removed : \E p \in DOMAIN plans' : k \in StepsOf(p)'
    BY <1>12, <2>1 DEF StepsKept
  <2>4. \A p, q \in DOMAIN plans' : \A k \in StepsOf(p)' : k \in StepsOf(q)' => p = q
    BY <1>11, <2>1 DEF StepsKept
  <2> QED BY <2>1, <2>2, <2>3, <2>4 DEF StepsKept
<1>14. PlansOK'
  BY <1>1, <1>3, <1>4, <1>10, <1>13 DEF PlansOK
<1>15. /\ known \in Seq(SUBSET {c.id : c \in Offered}) /\ Len(known) = n
       /\ DOMAIN known = 1 .. n
  BY <1>1 DEF PlannerInv, KnownOK
<1>16. /\ known' \in Seq(SUBSET {c.id : c \in Offered}) /\ Len(known') = n + 1
       /\ \A p \in 1 .. n : known'[p] = known[p]
  <2>1. {} \in SUBSET {c.id : c \in Offered}
    OBVIOUS
  <2> PICK T : T = SUBSET {c.id : c \in Offered}
    OBVIOUS
  <2>2. known \in Seq(T) /\ {} \in T
    BY <1>15, <2>1
  <2>3. /\ known' \in Seq(T) /\ Len(known') = Len(known) + 1
        /\ \A p \in 1 .. Len(known) : known'[p] = known[p]
    BY <1>3, <2>2
  <2> QED BY <1>15, <2>3
<1>17. ValidatedWasComplete'
  <2> SUFFICES ASSUME NEW p \in DOMAIN plans', plans'[p].status = "VALIDATED"
               PROVE  \A i \in DOMAIN plans'[p].steps :
                          plans'[p].steps[i].optional \/ plans'[p].steps[i].needs \in known'[p]
    BY DEF ValidatedWasComplete
  <2>1. p \in DOMAIN plans /\ plans'[p] = plans[p] /\ known'[p] = known[p]
    BY <1>1, <1>2, <1>8, <1>16
  <2> QED BY <2>1 DEF PlannerInv, KnownOK, ValidatedWasComplete
<1>18. PlannerInv'
  BY <1>3, <1>4, <1>7, <1>14, <1>16, <1>17 DEF PlannerInv, KnownOK, NoTwins
<1> QED BY <1>1, <1>4, <1>7, <1>18

LEMMA CreatePlanStep ==
    ASSUME PlannerInv, NEW goals \in 0 .. MaxGoals, CreatePlan(goals)
    PROVE  /\ PlannerInv' /\ Len(plans) \in Nat /\ Len(plans') = Len(plans) + 1
           /\ DOMAIN plans = 1 .. Len(plans) /\ DOMAIN plans' = 1 .. Len(plans) + 1
           /\ \A i \in DOMAIN stack' :
                  stack'[i].call = "run" => i \in DOMAIN stack /\ stack'[i] = stack[i]
<1> PICK below : below = stack
  OBVIOUS
<1>1. below \in Seq(PlannerCall) /\ PlanCreation(goals, below)
  BY InvParts DEF CallsOK, CreatePlan
<1>2. DOMAIN plans \subseteq DOMAIN plans'
  <2> PICK n : n = Len(plans)
    OBVIOUS
  <2>1. plans \in Seq(Plan) /\ NewPlan \in Plan /\ plans' = Append(plans, NewPlan)
    BY <1>1, InvParts DEF PlanCreation, NewPlan, Plan, PlanStatuses
  <2> QED BY <2>1
<1>3. \A i \in DOMAIN below : HasPlan(below[i])'
  BY <1>2, InvParts DEF CallsOK, HasPlan
<1> QED BY <1>1, <1>3, PlanMade

LEMMA PlannerCallEnds ==
    ASSUME PlannerInv, Busy, Return \/ Unwind, UNCHANGED <<registry, plannerVars>>
    PROVE  PlannerInv'
<1>1. CallsOK'
  BY InvParts, CallEnds DEF plannerVars
<1> QED BY <1>1 DEF PlannerInv, PlansOK, KnownOK, StepsKept, StepsOf, ValidatedWasComplete,
                    NoTwins, plannerVars

LEMMA RegistryNextStep ==
    ASSUME PlannerInv, RegistryNext, UNCHANGED plannerVars
    PROVE  PlannerInv'
<1>1. ASSUME NEW c \in Offered, RegisterCapability(c) \/ UnregisterCapability(c)
      PROVE  PlannerInv'
  <2>1. registry' \in Seq(Offered) /\ NoTwins'
    BY <1>1, RegistryKept DEF PlannerInv
  <2>2. PICK f \in PlannerCall : HasPlan(f)' /\ Enter(f)
    <3>1. PICK event \in {"CAPABILITY_REGISTERED", "CAPABILITY_UNREGISTERED"} : Announce(event)
      BY <1>1 DEF RegisterCapability, UnregisterCapability
    <3> PICK f : f = [call |-> "registry", at |-> event]
      OBVIOUS
    <3>2. f \in PlannerCall /\ HasPlan(f)'
      BY DEF PlannerCall, HasPlan
    <3> QED BY <3>1, <3>2 DEF Announce
  <2>3. CallsOK'
    BY <2>2, InvParts, CallBegins DEF plannerVars
  <2> QED BY <2>1, <2>3 DEF PlannerInv, PlansOK, KnownOK, StepsKept, StepsOf,
                            ValidatedWasComplete, plannerVars
<1>2. CASE RegistryReturns
  BY <1>2, PlannerCallEnds DEF RegistryReturns
<1> QED BY <1>1, <1>2 DEF RegistryNext

-----------------------------------------------------------------------------
(* The planner: theorem *)

\* Bounds of the model.
PlannerBounds == MaxSteps \in Nat /\ MaxGoals \in Nat

LEMMA PlannerStarts == ASSUME PlannerBounds, PlannerInit PROVE PlannerInv
<1>1. CallsOK /\ registry \in Seq(Offered) /\ NoTwins
  BY DEF PlannerInit, RegistryInit, CallsOK, NoTwins
<1>2. PlansOK
  BY DEF PlannerInit, PlansOK, StepsKept, PlannerBounds
<1>3. KnownOK
  BY DEF PlannerInit, KnownOK, ValidatedWasComplete
<1> QED BY <1>1, <1>2, <1>3 DEF PlannerInv

LEMMA PlannerStep ==
    ASSUME PlannerBounds, PlannerInv, [PlannerNext]_<<stack, registry, plannerVars>>
    PROVE  PlannerInv'
<1> USE DEF PlannerBounds
<1>1. CASE RegistryNext /\ UNCHANGED plannerVars
  BY <1>1, RegistryNextStep
<1>2. CASE \E goals \in 0 .. MaxGoals : CreatePlan(goals)
  BY <1>2, CreatePlanStep
<1>3. CASE \E needs \in Required : NextGoal(needs)
  BY <1>3, NextGoalStep
<1>4. CASE PlannerReturns
  BY <1>4, PlannerCallEnds DEF PlannerReturns
<1>5. ASSUME NEW p \in DOMAIN plans,
             \/ ValidatePlan(p) \/ ReorderSteps(p)
             \/ \E needs \in Required, optional \in BOOLEAN : AddStep(p, needs, optional)
             \/ \E id \in 1 .. made : RemoveStep(p, id)
      PROVE  PlannerInv'
  BY <1>5, ValidatePlanStep, ReorderStepsStep, AddStepStep, RemoveStepStep
<1>6. CASE UNCHANGED <<stack, registry, plannerVars>>
  BY <1>6 DEF PlannerInv, CallsOK, HasPlan, PlansOK, KnownOK, StepsKept, StepsOf,
              ValidatedWasComplete, NoTwins, plannerVars
<1> QED BY <1>1, <1>2, <1>3, <1>4, <1>5, <1>6 DEF PlannerNext

LEMMA InvIsWhole == ASSUME PlannerInv PROVE PlansAreWhole
<1>1. /\ PlansOK /\ KnownOK /\ StepsKept /\ registry \in Seq(Offered)
      /\ \A p \in DOMAIN plans : Counted(plans[p].steps)
  BY DEF PlannerInv, PlansOK
<1>2. PlannerTypeOK /\ ValidatedWasComplete
  BY <1>1 DEF PlannerTypeOK, PlansOK, KnownOK, Plan
<1>3. OrdersCount
  BY <1>1 DEF OrdersCount, Counted
<1>4. NoStepLost
  <2>1. UNION {StepIds(p) : p \in DOMAIN plans} = (1 .. made) \ removed
    <3>1. \A p \in DOMAIN plans : StepIds(p) = StepsOf(p)
      BY DEF StepIds, StepsOf, Ids
    <3> QED BY <1>1, <3>1 DEF StepsKept
  <2>2. ASSUME NEW p \in DOMAIN plans, NEW q \in DOMAIN plans,
               NEW i \in DOMAIN plans[p].steps, NEW j \in DOMAIN plans[q].steps,
               plans[p].steps[i].id = plans[q].steps[j].id
        PROVE  p = q /\ i = j
    <3>1. plans[p].steps[i].id \in StepsOf(p) /\ plans[p].steps[i].id \in StepsOf(q)
      BY <2>2 DEF StepsOf, Ids
    <3>2. p = q
      BY <1>1, <3>1 DEF StepsKept
    <3> QED BY <1>1, <2>2, <3>2 DEF Counted
  <2> QED BY <2>1, <2>2 DEF NoStepLost
<1> QED BY <1>2, <1>3, <1>4 DEF PlansAreWhole

\* Edits, validations and planning sessions that nest in each other's publications, to any
\* depth and with any capabilities coming and going, lose no step, duplicate none, number
\* the steps from the first to the last, and leave no plan VALIDATED that was not complete.
THEOREM PlansStayWhole ==
    ASSUME PlannerBounds
    PROVE  PlannerSpec => []PlansAreWhole
<1>1. PlannerInit => PlannerInv
  BY PlannerStarts
<1>2. PlannerInv /\ [PlannerNext]_<<stack, registry, plannerVars>> => PlannerInv'
  BY PlannerStep
<1>3. PlannerInv => PlansAreWhole
  BY InvIsWhole
<1> QED BY <1>1, <1>2, <1>3, PTL DEF PlannerSpec

-----------------------------------------------------------------------------
(* The chain behind the agent service: a request has its plan from the moment  *)
(* the plan is created, and later requests have later plans.                   *)

\* Two requests with their plans, in progress or answered.
InOrder(one, plan, other, otherPlan) ==
    /\ one # other
    /\ one < other => plan < otherPlan
    /\ other < one => otherPlan < plan

Runs(i) == i \in DOMAIN stack /\ stack[i].call = "run"

RequestsOK ==
    /\ \A i \in DOMAIN stack : Runs(i) => stack[i].request \in 1 .. requests
    /\ \A i, j \in DOMAIN stack : Runs(i) /\ Runs(j) /\ i # j =>
           InOrder(stack[i].request, stack[i].plan, stack[j].request, stack[j].plan)
    /\ \A i \in DOMAIN stack, j \in DOMAIN answers : Runs(i) =>
           InOrder(stack[i].request, stack[i].plan, answers[j].request, answers[j].response.plan)
    /\ \A i, j \in DOMAIN answers : i # j =>
           InOrder(answers[i].request, answers[i].response.plan,
                   answers[j].request, answers[j].response.plan)

ChainInv == PlannerInv /\ ChainTypeOK /\ RequestsOK

\* What of requests and plans no step of the planner takes away.
RequestsStay ==
    /\ DOMAIN plans \subseteq DOMAIN plans'
    /\ \A i \in DOMAIN stack' : stack'[i].call = "run" =>
           /\ Runs(i)
           /\ stack'[i].request = stack[i].request /\ stack'[i].plan = stack[i].plan

LEMMA ElementsTyped ==
    ASSUME NEW S, NEW T, NEW s \in Seq(S), \A i \in DOMAIN s : s[i] \in T
    PROVE  s \in Seq(T)
OBVIOUS

\* Lemma: answers stay answers while plans are added.
LEMMA AnswersStay ==
    ASSUME ChainTypeOK, UNCHANGED agentVars, DOMAIN plans \subseteq DOMAIN plans'
    PROVE  ChainTypeOK'
<1> DEFINE Reply(P) == [plan : P, status : {"CREATED"}, execution : {"COMPLETED"},
                        completed : {<< >>}]
           Replied(P) == [request : 1 .. requests, response : Reply(P)]
<1>1. answers \in Seq(Replied(DOMAIN plans))
  BY DEF ChainTypeOK
<1>2. \A i \in DOMAIN answers : answers[i] \in Replied(DOMAIN plans)
  <2> HIDE DEF Replied
  <2> QED BY <1>1
<1>3. \A i \in DOMAIN answers : answers[i] \in Replied(DOMAIN plans')
  BY <1>2
<1>4. answers \in Seq(Replied(DOMAIN plans'))
  <2> HIDE DEF Replied
  <2> QED BY <1>1, <1>3, ElementsTyped
<1> QED BY <1>4 DEF ChainTypeOK, agentVars

LEMMA RequestsKept ==
    ASSUME RequestsOK, RequestsStay, UNCHANGED <<requests, answers>>
    PROVE  RequestsOK'
<1>1. \A i \in DOMAIN stack' : Runs(i)' => i \in DOMAIN stack /\ Runs(i)
          /\ stack'[i].request = stack[i].request /\ stack'[i].plan = stack[i].plan
  BY DEF RequestsStay, Runs
<1>2. \A i \in DOMAIN stack' : Runs(i)' => stack'[i].request \in 1 .. requests'
  BY <1>1 DEF RequestsOK
<1>3. \A i, j \in DOMAIN stack' : Runs(i)' /\ Runs(j)' /\ i # j =>
          InOrder(stack'[i].request, stack'[i].plan, stack'[j].request, stack'[j].plan)
  BY <1>1 DEF RequestsOK
<1>4. \A i \in DOMAIN stack', j \in DOMAIN answers' : Runs(i)' =>
          InOrder(stack'[i].request, stack'[i].plan, answers'[j].request, answers'[j].response.plan)
  BY <1>1 DEF RequestsOK
<1>5. \A i, j \in DOMAIN answers' : i # j =>
          InOrder(answers'[i].request, answers'[i].response.plan,
                  answers'[j].request, answers'[j].response.plan)
  BY DEF RequestsOK
<1> QED BY <1>2, <1>3, <1>4, <1>5 DEF RequestsOK

\* Lemma: a call of the planner or the registry begins.
LEMMA OthersBegin ==
    ASSUME CallsOK, NEW f, f.call # "run", Enter(f), DOMAIN plans \subseteq DOMAIN plans'
    PROVE  RequestsStay
<1> PICK n : n = Len(stack)
  OBVIOUS
<1>1. /\ n \in Nat /\ DOMAIN stack = 1 .. n /\ DOMAIN stack' = 1 .. n + 1
      /\ stack'[n + 1] = f /\ \A i \in 1 .. n : stack'[i] = stack[i]
  BY DEF CallsOK, Enter, Opened
<1>2. \A i \in DOMAIN stack' : (i \in DOMAIN stack /\ stack'[i] = stack[i]) \/ stack'[i] = f
  BY <1>1
<1> QED BY <1>2 DEF RequestsStay, Runs

LEMMA OthersEnd ==
    ASSUME CallsOK, Busy, Return \/ Unwind, UNCHANGED plans
    PROVE  RequestsStay
<1>1. \A i \in DOMAIN stack' :
          /\ i \in DOMAIN stack
          /\ \/ stack'[i] = stack[i]
             \/ stack[i] \in Request /\ stack'[i] = [stack[i] EXCEPT !.at = "raised"]
  BY CallEnds
<1>2. ASSUME NEW i \in DOMAIN stack', stack[i] \in Request,
             stack'[i] = [stack[i] EXCEPT !.at = "raised"]
      PROVE  /\ stack[i].call = "run"
             /\ stack'[i].request = stack[i].request /\ stack'[i].plan = stack[i].plan
  BY <1>2 DEF Request
<1> QED BY <1>1, <1>2 DEF RequestsStay, Runs

LEMMA PlannerKeepsRequests ==
    ASSUME PlannerBounds, PlannerInv, PlannerNext
    PROVE  RequestsStay
<1>1. CallsOK /\ plans \in Seq(Plan)
  BY InvParts
<1>2. CASE RegistryNext /\ UNCHANGED plannerVars
  <2>1. DOMAIN plans \subseteq DOMAIN plans'
    BY <1>2 DEF plannerVars
  <2>2. ASSUME NEW c \in Offered, RegisterCapability(c) \/ UnregisterCapability(c)
        PROVE  RequestsStay
    <3>1. PICK event : Announce(event)
      BY <2>2 DEF RegisterCapability, UnregisterCapability
    <3> QED BY <1>1, <2>1, <3>1, OthersBegin DEF Announce
  <2>3. CASE RegistryReturns
    BY <1>1, <1>2, <2>3, OthersEnd DEF RegistryReturns, plannerVars
  <2> QED BY <1>2, <2>2, <2>3 DEF RegistryNext
<1>3. ASSUME NEW goals \in 0 .. MaxGoals, CreatePlan(goals) PROVE RequestsStay
  <2>1. /\ Len(plans) \in Nat /\ DOMAIN plans = 1 .. Len(plans)
        /\ DOMAIN plans' = 1 .. Len(plans) + 1
        /\ \A i \in DOMAIN stack' :
               stack'[i].call = "run" => i \in DOMAIN stack /\ stack'[i] = stack[i]
    BY <1>3, CreatePlanStep
  <2> QED BY <2>1 DEF RequestsStay, Runs
<1>4. ASSUME NEW needs \in Required, NextGoal(needs) PROVE RequestsStay
  <2>1. DOMAIN plans \subseteq DOMAIN plans'
    BY <1>1, <1>4 DEF NextGoal, SetPlan
  <2>2. /\ DOMAIN stack' = DOMAIN stack
        /\ \A i \in DOMAIN stack' : stack'[i].call = "run" => stack'[i] = stack[i]
    BY <1>1, <1>4, <2>1, CallGoesOn DEF NextGoal, PlannerBounds
  <2> QED BY <2>1, <2>2 DEF RequestsStay, Runs
<1>5. CASE PlannerReturns
  BY <1>1, <1>5, OthersEnd DEF PlannerReturns, plannerVars
<1>6. ASSUME NEW p \in DOMAIN plans, NEW steps, Update(p, steps) PROVE RequestsStay
  <2>1. DOMAIN plans \subseteq DOMAIN plans'
    BY <1>1, <1>6 DEF Update, SetPlan
  <2> QED BY <1>1, <1>6, <2>1, OthersBegin DEF Update
<1>7. ASSUME NEW p \in DOMAIN plans,
             \/ ReorderSteps(p)
             \/ \E needs \in Required, optional \in BOOLEAN : AddStep(p, needs, optional)
             \/ \E id \in 1 .. made : RemoveStep(p, id)
      PROVE  RequestsStay
  <2>1. PICK steps : Update(p, steps)
    BY <1>7 DEF ReorderSteps, AddStep, RemoveStep
  <2> QED BY <1>6, <2>1
<1>8. ASSUME NEW p \in DOMAIN plans, ValidatePlan(p) PROVE RequestsStay
  <2>1. DOMAIN plans \subseteq DOMAIN plans'
    BY <1>1, <1>8 DEF ValidatePlan, SetPlan
  <2>2. CASE UNCHANGED stack
    BY <1>1, <2>1, <2>2 DEF RequestsStay, Runs
  <2>3. ASSUME Enter([call |-> "planner", at |-> "PLAN_VALIDATED"]) PROVE RequestsStay
    BY <1>1, <2>1, <2>3, OthersBegin
  <2> QED BY <1>8, <2>2, <2>3 DEF ValidatePlan
<1> QED BY <1>2, <1>3, <1>4, <1>5, <1>7, <1>8 DEF PlannerNext

\* Lemma: a request that reaches the planner is later than every other, and so is its plan.
LEMMA RequestRuns ==
    ASSUME MaxRequests \in Nat, PlannerBounds, ChainInv, Run
    PROVE  ChainInv'
<1> PICK n : n = Len(stack)
  OBVIOUS
<1> PICK f : f = [call |-> "run", request |-> requests + 1, plan |-> Len(plans) + 1, at |-> "calling"]
  OBVIOUS
<1> PICK below : below = Append(stack, f)
  OBVIOUS
<1>1. PlannerInv /\ ChainTypeOK /\ RequestsOK /\ CallsOK /\ plans \in Seq(Plan) /\ requests \in Nat
  BY InvParts DEF ChainInv, ChainTypeOK
<1>2. /\ requests' = requests + 1 /\ requests < MaxRequests
      /\ UNCHANGED <<agentService, cognitivePipeline, answers>>
  BY DEF Run
<1>3. /\ plans' = Append(plans, NewPlan)
      /\ PlanCreation(0, Opened([call |-> "run", request |-> requests', plan |-> Len(plans'),
                                 at |-> "calling"]))
  BY DEF Run, PlanCreation
<1>4. /\ Len(plans') = Len(plans) + 1 /\ Len(plans) \in Nat
      /\ DOMAIN plans = 1 .. Len(plans) /\ DOMAIN plans' = 1 .. Len(plans) + 1
  <2>1. NewPlan \in Plan
    BY DEF NewPlan, Plan, PlanStatuses
  <2> QED BY <1>1, <1>3, <2>1
<1>5. PlanCreation(0, below)
  BY <1>2, <1>3, <1>4 DEF Opened
<1>6. f \in Request /\ f \in PlannerCall /\ f.plan \in DOMAIN plans' /\ f.call = "run"
  BY <1>1, <1>4 DEF PlannerCall, Request, Direct
<1>7. /\ n \in Nat /\ DOMAIN stack = 1 .. n /\ stack \in Seq(PlannerCall)
      /\ below \in Seq(PlannerCall) /\ DOMAIN below = 1 .. n + 1
      /\ below[n + 1] = f /\ \A i \in 1 .. n : below[i] = stack[i]
  BY <1>1, <1>6 DEF CallsOK
<1>8. \A i \in DOMAIN below : HasPlan(below[i])'
  <2>1. \A i \in DOMAIN below : (i \in DOMAIN stack /\ below[i] = stack[i]) \/ below[i] = f
    BY <1>7
  <2>2. \A i \in DOMAIN stack : HasPlan(stack[i])
    BY <1>1 DEF CallsOK
  <2> QED BY <1>4, <1>6, <2>1, <2>2 DEF HasPlan
<1>9. /\ PlannerInv'
      /\ \A i \in DOMAIN stack' : stack'[i].call = "run" => i \in DOMAIN below /\ stack'[i] = below[i]
  <2>1. 0 \in 0 .. MaxGoals
    BY DEF PlannerBounds
  <2> QED BY <1>1, <1>5, <1>7, <1>8, <2>1, PlanMade
<1>10. \A i \in DOMAIN stack' : Runs(i)' =>
           \/ Runs(i) /\ stack'[i] = stack[i]
           \/ i = n + 1 /\ stack'[i] = f
  BY <1>7, <1>9 DEF Runs
<1>11. ChainTypeOK'
  <2> DEFINE Reply(P) == [plan : P, status : {"CREATED"}, execution : {"COMPLETED"},
                          completed : {<< >>}]
             Replied(R, P) == [request : R, response : Reply(P)]
  <2>1. answers \in Seq(Replied(1 .. requests, DOMAIN plans))
    BY <1>1 DEF ChainTypeOK
  <2>2. \A i \in DOMAIN answers : answers[i] \in Replied(1 .. requests, DOMAIN plans)
    <3> HIDE DEF Replied
    <3> QED BY <2>1
  <2>3. 1 .. requests \subseteq 1 .. requests' /\ DOMAIN plans \subseteq DOMAIN plans'
    BY <1>1, <1>2, <1>4
  <2>4. \A i \in DOMAIN answers : answers[i] \in Replied(1 .. requests', DOMAIN plans')
    BY <2>2, <2>3
  <2>5. answers \in Seq(Replied(1 .. requests', DOMAIN plans'))
    <3> HIDE DEF Replied
    <3> QED BY <2>1, <2>4, ElementsTyped
  <2>6. requests' \in 0 .. MaxRequests
    BY <1>1, <1>2
  <2> QED BY <1>1, <1>2, <2>5, <2>6 DEF ChainTypeOK
<1>12. \A i \in DOMAIN stack : Runs(i) =>
           /\ stack[i].request \in 1 .. requests /\ stack[i].plan \in 1 .. Len(plans)
           /\ InOrder(stack[i].request, stack[i].plan, f.request, f.plan)
           /\ InOrder(f.request, f.plan, stack[i].request, stack[i].plan)
  <2> SUFFICES ASSUME NEW i \in DOMAIN stack, Runs(i)
               PROVE  /\ stack[i].request \in 1 .. requests /\ stack[i].plan \in 1 .. Len(plans)
                      /\ InOrder(stack[i].request, stack[i].plan, f.request, f.plan)
                      /\ InOrder(f.request, f.plan, stack[i].request, stack[i].plan)
    OBVIOUS
  <2>1. stack[i].request \in 1 .. requests /\ stack[i].plan \in 1 .. Len(plans)
    BY <1>1, <1>4 DEF RequestsOK, CallsOK, HasPlan, Runs
  <2> QED BY <1>1, <1>4, <2>1 DEF InOrder
<1>13. \A j \in DOMAIN answers :
           InOrder(f.request, f.plan, answers[j].request, answers[j].response.plan)
  <2> SUFFICES ASSUME NEW j \in DOMAIN answers
               PROVE  InOrder(f.request, f.plan, answers[j].request, answers[j].response.plan)
    OBVIOUS
  <2> DEFINE Reply == [plan : DOMAIN plans, status : {"CREATED"}, execution : {"COMPLETED"},
                       completed : {<< >>}]
             Replied == [request : 1 .. requests, response : Reply]
  <2>0. answers[j] \in Replied
    <3>1. answers \in Seq(Replied)
      BY <1>1 DEF ChainTypeOK
    <3> HIDE DEF Replied
    <3> QED BY <3>1
  <2>1. answers[j].request \in 1 .. requests /\ answers[j].response.plan \in DOMAIN plans
    BY <2>0
  <2> QED BY <1>1, <1>4, <2>1 DEF InOrder
<1>14. RequestsOK'
  <2>1. \A i \in DOMAIN stack' : Runs(i)' => stack'[i].request \in 1 .. requests'
    BY <1>1, <1>2, <1>10, <1>12 DEF Runs
  <2>2. \A i, j \in DOMAIN stack' : Runs(i)' /\ Runs(j)' /\ i # j =>
            InOrder(stack'[i].request, stack'[i].plan, stack'[j].request, stack'[j].plan)
    BY <1>1, <1>10, <1>12 DEF RequestsOK, Runs
  <2>3. \A i \in DOMAIN stack', j \in DOMAIN answers' : Runs(i)' =>
            InOrder(stack'[i].request, stack'[i].plan, answers'[j].request, answers'[j].response.plan)
    BY <1>1, <1>2, <1>10, <1>13 DEF RequestsOK, Runs
  <2>4. \A i, j \in DOMAIN answers' : i # j =>
            InOrder(answers'[i].request, answers'[i].response.plan,
                    answers'[j].request, answers'[j].response.plan)
    BY <1>1, <1>2 DEF RequestsOK
  <2> QED BY <2>1, <2>2, <2>3, <2>4 DEF RequestsOK
<1> QED BY <1>9, <1>11, <1>14 DEF ChainInv

\* Lemma: the innermost request is answered, and takes its plan with it.
LEMMA RequestAnswered ==
    ASSUME PlannerBounds, ChainInv, Deliver
    PROVE  ChainInv'
<1> PICK n : n = Len(stack)
  OBVIOUS
<1> PICK m : m = Len(answers)
  OBVIOUS
<1> PICK answer : answer = [request |-> Top.request,
                            response |-> BuildResponse(Top.plan, NewPlan.status, ExecuteTasks(<< >>))]
  OBVIOUS
<1>1. PlannerInv /\ ChainTypeOK /\ RequestsOK /\ CallsOK
  BY InvParts DEF ChainInv
<1>2. /\ Busy /\ Top.call = "run" /\ Return /\ UNCHANGED <<registry, plannerVars>>
      /\ answers' = Append(answers, answer)
      /\ UNCHANGED <<agentService, cognitivePipeline, requests>>
  BY DEF Deliver, Elsewhere, TopIs
<1>3. /\ n \in Nat \ {0} /\ DOMAIN stack = 1 .. n /\ Top = stack[n] /\ Runs(n)
  BY <1>1, <1>2 DEF CallsOK, Busy, Top, Last, Runs
<1>4. Top.request \in 1 .. requests /\ Top.plan \in DOMAIN plans
  BY <1>1, <1>3 DEF RequestsOK, CallsOK, HasPlan, Runs
<1>5. PlannerInv'
  BY <1>1, <1>2, PlannerCallEnds
<1>6. /\ Len(stack') = n - 1
      /\ \A i \in DOMAIN stack' :
             /\ i \in DOMAIN stack
             /\ \/ stack'[i] = stack[i]
                \/ stack[i] \in Request /\ stack'[i] = [stack[i] EXCEPT !.at = "raised"]
  BY <1>1, <1>2, CallEnds DEF plannerVars
<1>7. DOMAIN stack' = 1 .. n - 1
  BY <1>5, <1>6 DEF PlannerInv, CallsOK
<1>8. RequestsStay
  BY <1>1, <1>2, OthersEnd DEF plannerVars
<1>9. \A i \in DOMAIN stack' : Runs(i)' =>
          /\ Runs(i) /\ i # n
          /\ stack'[i].request = stack[i].request /\ stack'[i].plan = stack[i].plan
  BY <1>3, <1>7, <1>8 DEF RequestsStay, Runs
<1> DEFINE Reply == [plan : DOMAIN plans, status : {"CREATED"}, execution : {"COMPLETED"},
                     completed : {<< >>}]
           Replied == [request : 1 .. requests, response : Reply]
<1>10. answer \in Replied /\ answer.request = Top.request /\ answer.response.plan = Top.plan
  <2>1. BuildResponse(Top.plan, NewPlan.status, ExecuteTasks(<< >>)) =
            [plan |-> Top.plan, status |-> "CREATED", execution |-> "COMPLETED", completed |-> << >>]
    BY DEF BuildResponse, NewPlan, ExecuteTasks
  <2> QED BY <1>4, <2>1
<1>11. answers \in Seq(Replied)
  BY <1>1 DEF ChainTypeOK
<1>12. /\ answers' \in Seq(Replied) /\ m \in Nat /\ DOMAIN answers = 1 .. m
       /\ DOMAIN answers' = 1 .. m + 1 /\ answers'[m + 1] = answer
       /\ \A j \in 1 .. m : answers'[j] = answers[j]
  <2>1. answer \in Replied
    BY <1>10
  <2> HIDE DEF Replied
  <2> QED BY <1>2, <1>11, <2>1
<1>13. ChainTypeOK'
  BY <1>1, <1>2, <1>12 DEF ChainTypeOK, plannerVars
<1>14. \A j \in DOMAIN answers' : (j \in DOMAIN answers /\ answers'[j] = answers[j])
                                  \/ (j = m + 1 /\ answers'[j] = answer)
  BY <1>12
<1>15. \A j \in DOMAIN answers :
           InOrder(Top.request, Top.plan, answers[j].request, answers[j].response.plan)
  BY <1>1, <1>3 DEF RequestsOK
<1>16. \A j \in DOMAIN answers :
           InOrder(answers[j].request, answers[j].response.plan, Top.request, Top.plan)
  BY <1>15 DEF InOrder
<1>17. \A i \in DOMAIN stack : Runs(i) /\ i # n =>
           InOrder(stack[i].request, stack[i].plan, Top.request, Top.plan)
  BY <1>1, <1>3 DEF RequestsOK
<1>18. RequestsOK'
  <2>1. \A i \in DOMAIN stack' : Runs(i)' => stack'[i].request \in 1 .. requests'
    BY <1>1, <1>2, <1>9 DEF RequestsOK, Runs
  <2>2. \A i, j \in DOMAIN stack' : Runs(i)' /\ Runs(j)' /\ i # j =>
            InOrder(stack'[i].request, stack'[i].plan, stack'[j].request, stack'[j].plan)
    BY <1>1, <1>9 DEF RequestsOK, Runs
  <2>3. \A i \in DOMAIN stack', j \in DOMAIN answers' : Runs(i)' =>
            InOrder(stack'[i].request, stack'[i].plan, answers'[j].request, answers'[j].response.plan)
    BY <1>1, <1>9, <1>10, <1>14, <1>17 DEF RequestsOK, Runs
  <2>4. \A i, j \in DOMAIN answers' : i # j =>
            InOrder(answers'[i].request, answers'[i].response.plan,
                    answers'[j].request, answers'[j].response.plan)
    BY <1>1, <1>10, <1>14, <1>15, <1>16 DEF RequestsOK
  <2> QED BY <2>1, <2>2, <2>3, <2>4 DEF RequestsOK
<1> QED BY <1>5, <1>13, <1>18 DEF ChainInv

\* Lemma: the other steps leave requests and answers as they are.
LEMMA OthersStep ==
    ASSUME PlannerBounds, ChainInv, PlannerInv', RequestsStay, UNCHANGED agentVars
    PROVE  ChainInv'
<1>1. ChainTypeOK'
  BY AnswersStay DEF ChainInv, RequestsStay
<1>2. RequestsOK'
  BY RequestsKept DEF ChainInv, agentVars
<1> QED BY <1>1, <1>2 DEF ChainInv

LEMMA ServicesShift ==
    ASSUME ChainInv, NEW to \in {"INITIALIZING", "RUNNING", "STOPPED"},
           ShiftAgent(to) \/ ShiftPipeline(to)
    PROVE  ChainInv'
<1>1. UNCHANGED <<stack, registry, plans, made, removed, known, requests, answers>>
  BY DEF ShiftAgent, ShiftPipeline, Elsewhere, plannerVars
<1>2. PlannerInv'
  BY <1>1 DEF ChainInv, PlannerInv, CallsOK, HasPlan, PlansOK, KnownOK, StepsKept, StepsOf,
              ValidatedWasComplete, NoTwins
<1>3. ChainTypeOK'
  BY <1>1 DEF ChainInv, ChainTypeOK, ShiftAgent, ShiftPipeline
<1>4. RequestsOK'
  BY <1>1 DEF ChainInv, RequestsOK, Runs
<1> QED BY <1>2, <1>3, <1>4 DEF ChainInv

\* The bounds of the chain.
ChainBounds == PlannerBounds /\ MaxRequests \in Nat

LEMMA ChainStarts == ASSUME ChainBounds, ChainInit PROVE ChainInv
<1>1. PlannerInv
  BY PlannerStarts DEF ChainInit, ChainBounds
<1>2. ChainTypeOK
  BY DEF ChainInit, ChainBounds, ChainTypeOK
<1>3. RequestsOK
  BY DEF ChainInit, PlannerInit, RequestsOK
<1> QED BY <1>1, <1>2, <1>3 DEF ChainInv

LEMMA ChainStep ==
    ASSUME ChainBounds, ChainInv, [ChainNext]_chainVars
    PROVE  ChainInv'
<1>1. PlannerBounds /\ PlannerInv /\ CallsOK
  BY InvParts DEF ChainBounds, ChainInv
<1>2. CASE PlannerNext /\ UNCHANGED agentVars
  BY <1>1, <1>2, PlannerStep, PlannerKeepsRequests, OthersStep
<1>3. ASSUME NEW to \in {"INITIALIZING", "RUNNING", "STOPPED"}, ShiftAgent(to) \/ ShiftPipeline(to)
      PROVE  ChainInv'
  BY <1>3, ServicesShift
<1>4. CASE Run
  BY <1>1, <1>4, RequestRuns DEF ChainBounds
<1>5. CASE Deliver
  BY <1>1, <1>5, RequestAnswered
<1>6. CASE RunRaises
  <2>1. Busy /\ Unwind /\ UNCHANGED <<registry, plannerVars>> /\ UNCHANGED agentVars
    BY <1>6 DEF RunRaises, TopIs, Elsewhere
  <2>2. PlannerInv'
    BY <1>1, <2>1, PlannerCallEnds
  <2>3. RequestsStay
    BY <1>1, <2>1, OthersEnd DEF plannerVars
  <2> QED BY <1>1, <2>1, <2>2, <2>3, OthersStep
<1>7. CASE UNCHANGED chainVars
  <2>1. PlannerInv'
    BY <1>1, <1>7, PlannerStep DEF chainVars
  <2>2. RequestsStay
    BY <1>7 DEF RequestsStay, Runs, chainVars, plannerVars
  <2> QED BY <1>1, <1>7, <2>1, <2>2, OthersStep DEF chainVars
<1> QED BY <1>2, <1>3, <1>4, <1>5, <1>6, <1>7 DEF ChainNext

\* Requests that run inside each other, in the handlers of the plans they create, each get
\* a plan of their own and get it once, the earlier request the earlier plan; and the plans
\* are whole all the while, for any nesting of requests and of edits of their plans.
THEOREM ChainStaysSound ==
    ASSUME ChainBounds
    PROVE  ChainSpec => []ChainIsSound
<1>1. ChainInit => ChainInv
  BY ChainStarts
<1>2. ChainInv /\ [ChainNext]_chainVars => ChainInv'
  BY ChainStep
<1>3. ChainInv => ChainIsSound
  <2>1. ASSUME ChainInv PROVE PlansAreWhole
    BY <2>1, InvIsWhole DEF ChainInv
  <2>2. ASSUME RequestsOK PROVE RequestsKeptApart
    BY <2>2 DEF RequestsOK, InOrder, RequestsKeptApart
  <2> QED BY <2>1, <2>2 DEF ChainInv, ChainIsSound
<1> QED BY <1>1, <1>2, <1>3, PTL DEF ChainSpec

-----------------------------------------------------------------------------
(* The dispatcher *)

\* A capability names a workflow, or has an action_kind that none runs.
CapabilitiesFit ==
    /\ Steps \in Nat /\ MaxDispatches \in Nat
    /\ \A c \in Offered : c.workflow \in Workflow \union {NoWorkflow}

DispatchPoints ==
    {"INTENT_DISPATCHED", "ACTION_RESOLVED", "WORKFLOW_SELECTED", "DISPATCH_STARTED",
     "calling", "raised", "DISPATCH_COMPLETED", "DISPATCH_FAILED"}
DispatchCall ==
    [call : {"dispatch"}, intent : Intents, capability : Offered \union {NoCapability},
     at : DispatchPoints]
RegistryCall ==
    [call : {"registry"}, at : {"CAPABILITY_REGISTERED", "CAPABILITY_UNREGISTERED"}]
Foreign == DispatchCall \union RegistryCall

BooksTyped ==
    /\ dispatcher \in States
    /\ dispatched \in 0 .. MaxDispatches
    /\ registry \in Seq(Offered)
    /\ served \in [Workflow -> Nat]

-----------------------------------------------------------------------------
(* The dispatcher: the calls *)

LEMMA ForeignCalls == OtherCalls(Foreign)
<1>1. ASSUME NEW o \in DispatchCall
      PROVE  o.call # "execute" /\ AtRaised(o) \in DispatchCall /\ AtRaised(o).at = "raised"
  BY <1>1 DEF DispatchCall, DispatchPoints, AtRaised
<1>2. ASSUME NEW o \in RegistryCall PROVE o.call # "execute" /\ o.at # "calling"
  BY <1>2 DEF RegistryCall
<1> QED BY <1>1, <1>2 DEF OtherCalls, Foreign

\* Lemma: a call is one of execute(), of dispatch() or of the registry.
LEMMA CallKinds ==
    ASSUME TypeOK(Foreign)
    PROVE  /\ Len(stack) \in Nat /\ DOMAIN stack = 1 .. Len(stack)
           /\ \A i \in DOMAIN stack :
                  \/ stack[i] \in Frame /\ stack[i].call = "execute"
                  \/ stack[i] \in DispatchCall /\ stack[i].call = "dispatch"
                  \/ stack[i] \in RegistryCall /\ stack[i].call = "registry"
<1>1. /\ Len(stack) \in Nat /\ DOMAIN stack = 1 .. Len(stack)
      /\ \A i \in DOMAIN stack : IF stack[i].call = "execute" THEN stack[i] \in Frame
                                                             ELSE stack[i] \in Foreign
  BY CallsAre, ForeignCalls
<1>2. /\ \A f \in DispatchCall : f.call = "dispatch"
      /\ \A f \in RegistryCall : f.call = "registry"
  BY DEF DispatchCall, RegistryCall
<1> QED BY <1>1, <1>2 DEF Foreign

\* Lemma: a dispatch announces something, of the capability it has.
LEMMA GotoCall ==
    ASSUME TypeOK(Foreign), Busy, Top.call = "dispatch", NEW point \in DispatchPoints, Goto(point)
    PROVE  /\ stack' \in Seq(Frame \union Foreign) /\ Moved
           /\ stack'[Len(stack)] \in DispatchCall /\ stack'[Len(stack)].at = point
           /\ stack'[Len(stack)].capability = Top.capability
<1> DEFINE f == [Top EXCEPT !.at = point]
<1>1. Len(stack) \in DOMAIN stack /\ Top = stack[Len(stack)] /\ Top \in DispatchCall
  BY TopCall, CallKinds
<1>2. f \in DispatchCall /\ f \in Foreign /\ f.at = point /\ f.capability = Top.capability
  BY <1>1 DEF DispatchCall, Foreign
<1>3. stack' = [stack EXCEPT ![Len(stack)] = f]
  BY <1>1 DEF Goto
<1> HIDE DEF f
<1> QED BY <1>2, <1>3, MoveCall

-----------------------------------------------------------------------------
(* The dispatcher: its invariant *)

Of(i) == stack[i].capability.workflow
Waits(i) == i \in DOMAIN stack /\ stack[i].call = "dispatch" /\ stack[i].at = "calling"

\* What a dispatch tells of its workflow: once it has resolved, that there is one, and
\* when it has announced DISPATCH_COMPLETED, that the workflow is counted as served.
DispatchOK(i) ==
    stack[i].call = "dispatch" =>
        /\ stack[i].at \notin {"INTENT_DISPATCHED", "DISPATCH_FAILED"} => Of(i) \in Workflow
        /\ stack[i].at = "DISPATCH_COMPLETED" => served[Of(i)] = 1

\* A dispatch that waits for its action can count on the execution of its workflow,
\* which has not been served and which no other dispatch waits for.
WaitOK(i) == served[Of(i)] = 0 /\ Awaits(i, Of(i))
OneWaits == \A i, j \in DOMAIN stack : Waits(i) /\ Waits(j) /\ Of(i) = Of(j) => i = j

ServedOK ==
    \A w \in Workflow : served[w] <= 1 /\ (served[w] = 1 => workflows[w] \in {"COMPLETED", "FAILED"})

CallsTold ==
    /\ \A i \in DOMAIN stack : DispatchOK(i) /\ (Waits(i) => WaitOK(i))
    /\ OneWaits
    /\ ServedOK

DispatchInv == StepInv(Foreign) /\ EndsTold /\ BooksTyped /\ NoTwins /\ CallsTold

LEMMA InvTypes == ASSUME DispatchInv PROVE TypeOK(Foreign) /\ RunInv(Foreign)
BY DEF DispatchInv, StepInv, RunInv

\* Lemma: a dispatch whose action raised tells what it told before.
LEMMA RaisedTold ==
    ASSUME DispatchInv, served' = served, NEW i \in DOMAIN stack,
           stack[i].at = "calling", stack'[i] = AtRaised(stack[i])
    PROVE  DispatchOK(i)' /\ ~Waits(i)'
<1>1. stack[i] \in DispatchCall /\ DispatchOK(i)
  BY InvTypes, CallKinds DEF Frame, Points, Finished, RegistryCall, DispatchInv, CallsTold
<1>2. /\ stack'[i].call = "dispatch" /\ stack'[i].at = "raised"
      /\ stack'[i].capability = stack[i].capability
  BY <1>1 DEF DispatchCall, AtRaised
<1>3. stack[i].call = "dispatch"
  BY <1>1 DEF DispatchCall
<1> QED BY <1>1, <1>2, <1>3 DEF DispatchOK, Waits, Of

\* Lemma: a step that serves nobody, and makes no dispatch wait, keeps what the calls
\* tell, when every call it touches tells the truth.
LEMMA ToldKept ==
    ASSUME DispatchInv, TypeOK(Foreign)', FinishedKept, served' = served, CallsMove,
           \A i \in DOMAIN stack' :
               (i \in DOMAIN stack /\ stack'[i] = stack[i]) \/ (DispatchOK(i)' /\ ~Waits(i)')
    PROVE  CallsTold'
<1>1. TypeOK(Foreign) /\ CallsTold /\ EndsTold
  BY InvTypes DEF DispatchInv
<1>2. \A i \in DOMAIN stack' : DispatchOK(i)'
  <2> SUFFICES ASSUME NEW i \in DOMAIN stack', i \in DOMAIN stack, stack'[i] = stack[i]
               PROVE  DispatchOK(i)'
    OBVIOUS
  <2>1. DispatchOK(i)
    BY <1>1 DEF CallsTold
  <2> QED BY <2>1 DEF DispatchOK, Of
<1>3. ASSUME NEW i \in DOMAIN stack', Waits(i)'
      PROVE  /\ i \in DOMAIN stack /\ stack'[i] = stack[i] /\ Waits(i) /\ WaitOK(i)
             /\ Of(i) \in Workflow
  <2>1. i \in DOMAIN stack /\ stack'[i] = stack[i]
    BY <1>3
  <2>2. Waits(i)
    BY <1>3, <2>1 DEF Waits
  <2> QED BY <1>1, <2>1, <2>2 DEF CallsTold, DispatchOK, Waits
<1>4. ASSUME NEW i \in DOMAIN stack', Waits(i)'
      PROVE  WaitOK(i)'
  <2>1. /\ i \in DOMAIN stack /\ stack'[i] = stack[i] /\ Waits(i) /\ WaitOK(i)
        /\ Of(i) \in Workflow
    BY <1>3, <1>4
  <2>2. PICK w \in Workflow : w = Of(i)
    BY <2>1
  <2>3. Awaits(i, w) /\ stack[i].at = "calling"
    BY <2>1, <2>2 DEF WaitOK, Waits
  <2>4. Awaits(i, w)'
    BY <1>1, <2>1, <2>3, AwaitKept, ForeignCalls
  <2>5. (Of(i) = w)'
    BY <2>1, <2>2 DEF Of
  <2> QED BY <2>1, <2>2, <2>4, <2>5 DEF WaitOK
<1>5. OneWaits'
  <2> SUFFICES ASSUME NEW i \in DOMAIN stack', NEW j \in DOMAIN stack',
                      Waits(i)', Waits(j)', (Of(i) = Of(j))'
               PROVE  i = j
    BY DEF OneWaits
  <2>1. i \in DOMAIN stack /\ stack'[i] = stack[i] /\ Waits(i)
    BY <1>3
  <2>2. j \in DOMAIN stack /\ stack'[j] = stack[j] /\ Waits(j)
    BY <1>3
  <2> QED BY <1>1, <2>1, <2>2 DEF CallsTold, OneWaits, Of
<1>6. ServedOK'
  BY <1>1 DEF CallsTold, ServedOK, FinishedKept, Finished
<1> QED BY <1>2, <1>4, <1>5, <1>6 DEF CallsTold

-----------------------------------------------------------------------------
(* The dispatcher: steps *)

LEMMA EngineStep ==
    ASSUME CapabilitiesFit, DispatchInv, Next, UNCHANGED <<registry, dispatcherVars>>
    PROVE  DispatchInv' /\ FinishedKept
<1>1. /\ StepInv(Foreign)' /\ FinishedKept /\ CallsMove /\ EndsTold'
      /\ \A i \in DOMAIN stack' : stack'[i].call # "execute" =>
             /\ i \in DOMAIN stack
             /\ \/ stack'[i] = stack[i]
                \/ stack[i].at = "calling" /\ stack'[i] = AtRaised(stack[i])
  BY EngineStay, ForeignCalls DEF CapabilitiesFit, DispatchInv
<1>2. served' = served /\ TypeOK(Foreign)'
  BY <1>1 DEF dispatcherVars, StepInv, RunInv
<1>3. ASSUME NEW i \in DOMAIN stack', ~(i \in DOMAIN stack /\ stack'[i] = stack[i])
      PROVE  DispatchOK(i)' /\ ~Waits(i)'
  <2>1. CASE stack'[i].call = "execute"
    BY <2>1 DEF DispatchOK, Waits
  <2>2. CASE stack'[i].call # "execute"
    BY <1>1, <1>2, <1>3, <2>2, RaisedTold
  <2> QED BY <2>1, <2>2
<1>4. CallsTold'
  BY <1>1, <1>2, <1>3, ToldKept
<1> QED BY <1>1, <1>4 DEF DispatchInv, BooksTyped, NoTwins, dispatcherVars

\* Lemma: a step of the dispatcher or of the registry that leaves the workflows alone.
LEMMA OwnStep ==
    ASSUME DispatchInv, UNCHANGED <<workflowVars, served>>, BooksTyped', NoTwins',
           stack' \in Seq(Frame \union Foreign),
           \/ UNCHANGED stack
           \/ Entered /\ stack'[Len(stack) + 1].call # "execute"
           \/ Moved /\ Top.call # "execute" /\ stack'[Len(stack)].call # "execute"
           \/ (Returned \/ Raised) /\ Top.call # "execute",
           Returned \/ Raised \/ UNCHANGED stack \/
               \A i \in DOMAIN stack' : i = Len(stack') => DispatchOK(i)' /\ ~Waits(i)'
    PROVE  DispatchInv' /\ FinishedKept
<1>1. StepInv(Foreign)' /\ FinishedKept
  BY AroundStep, ForeignCalls DEF DispatchInv
<1>2. /\ TypeOK(Foreign) /\ TypeOK(Foreign)' /\ EndsTold /\ CallsMove
      /\ Len(stack) \in Nat /\ Len(stack') \in Nat
  BY <1>1, InvTypes DEF StepInv, RunInv, DispatchInv, TypeOK, CallsMove
<1>3. \A i \in DOMAIN stack' : i = Len(stack') /\ Len(stack') >= Len(stack) =>
          EndTold(i)' \/ (i \in DOMAIN stack /\ stack'[i] = stack[i])
  BY <1>2 DEF EndTold, Entered, Moved, Returned, Raised
<1>4. EndsTold'
  BY <1>1, <1>2, <1>3, EndsKept, ForeignCalls
<1>5. ASSUME NEW i \in DOMAIN stack', ~(i \in DOMAIN stack /\ stack'[i] = stack[i])
      PROVE  DispatchOK(i)' /\ ~Waits(i)'
  <2>1. CASE (i = Len(stack) + 1 /\ Entered) \/ (i = Len(stack) /\ Moved)
    <3>1. i = Len(stack') /\ ~Returned /\ ~Raised
      BY <1>2, <2>1 DEF Entered, Moved, Returned, Raised
    <3> QED BY <1>5, <3>1
  <2>2. CASE i \in DOMAIN stack /\ stack[i].at = "calling" /\ stack'[i] = AtRaised(stack[i])
    BY <2>2, RaisedTold
  <2> QED BY <1>2, <1>5, <2>1, <2>2, CallsStay
<1>6. CallsTold'
  BY <1>1, <1>2, <1>5, ToldKept
<1> QED BY <1>1, <1>4, <1>6 DEF DispatchInv

\* Lemma: a call of dispatch(), or of the registry, begins.
LEMMA EnterStep ==
    ASSUME DispatchInv, UNCHANGED <<workflowVars, served>>, MayCall,
           NEW f \in Foreign, f.call = "dispatch" => f.at = "INTENT_DISPATCHED",
           Enter(f), BooksTyped', NoTwins'
    PROVE  DispatchInv' /\ FinishedKept
<1>1. /\ stack' \in Seq(Frame \union Foreign) /\ Entered /\ stack'[Len(stack) + 1] = f
      /\ f.call # "execute"
  BY InvTypes, EnterCall, ForeignCalls DEF OtherCalls
<1>2. \A i \in DOMAIN stack' : i = Len(stack') => DispatchOK(i)' /\ ~Waits(i)'
  BY <1>1 DEF DispatchOK, Waits, Entered
<1> QED BY <1>1, <1>2, OwnStep

\* Lemma: a call that is not of the engine ends.
LEMMA LeaveStep ==
    ASSUME DispatchInv, UNCHANGED <<workflowVars, registry, dispatcherVars>>,
           Busy, Top.call # "execute", Return \/ Unwind
    PROVE  DispatchInv' /\ FinishedKept
<1>1. stack' \in Seq(Frame \union Foreign) /\ (Returned \/ Raised)
  BY InvTypes, ReturnCall, UnwindCall, ForeignCalls
<1>2. BooksTyped' /\ NoTwins' /\ served' = served
  BY DEF DispatchInv, BooksTyped, NoTwins, dispatcherVars
<1> QED BY <1>1, <1>2, OwnStep

\* Lemma: the innermost dispatch moves on, and what it tells by then is true.
LEMMA MoveStep ==
    ASSUME DispatchInv, UNCHANGED <<workflowVars, registry, dispatcherVars>>,
           Busy, Top.call = "dispatch", stack' \in Seq(Frame \union Foreign), Moved,
           stack'[Len(stack)].call = "dispatch",
           stack'[Len(stack)].at \notin {"calling", "DISPATCH_COMPLETED"},
           stack'[Len(stack)].at # "DISPATCH_FAILED" =>
               stack'[Len(stack)].capability.workflow \in Workflow
    PROVE  DispatchInv' /\ FinishedKept
<1>1. BooksTyped' /\ NoTwins' /\ served' = served
  BY DEF DispatchInv, BooksTyped, NoTwins, dispatcherVars
<1>2. \A i \in DOMAIN stack' : i = Len(stack') => DispatchOK(i)' /\ ~Waits(i)'
  BY DEF DispatchOK, Waits, Of, Moved
<1> QED BY <1>1, <1>2, OwnStep

\* Lemma: the innermost dispatch announces something, of a workflow it has.
LEMMA GotoStep ==
    ASSUME DispatchInv, Still, Busy, Top.call = "dispatch",
           NEW point \in DispatchPoints \ {"calling", "DISPATCH_COMPLETED"}, Goto(point),
           point # "DISPATCH_FAILED" => Top.at \notin {"INTENT_DISPATCHED", "DISPATCH_FAILED"}
    PROVE  DispatchInv' /\ FinishedKept
<1>1. /\ stack' \in Seq(Frame \union Foreign) /\ Moved
      /\ stack'[Len(stack)] \in DispatchCall /\ stack'[Len(stack)].at = point
      /\ stack'[Len(stack)].capability = Top.capability
  BY InvTypes, GotoCall
<1>2. Len(stack) \in DOMAIN stack /\ Top = stack[Len(stack)]
  BY InvTypes, TopCall
<1>3. point # "DISPATCH_FAILED" => Top.capability.workflow \in Workflow
  BY <1>2 DEF DispatchInv, CallsTold, DispatchOK, Of
<1>4. stack'[Len(stack)].call = "dispatch"
  BY <1>1 DEF DispatchCall
<1> QED BY <1>1, <1>3, <1>4, MoveStep DEF Still

LEMMA ResolveStep ==
    ASSUME CapabilitiesFit, DispatchInv, ResolveCapability
    PROVE  DispatchInv' /\ FinishedKept
<1>1. CASE Goto("DISPATCH_FAILED")
  BY <1>1, GotoStep DEF ResolveCapability, TopIs, DispatchPoints
<1>2. CASE ~Goto("DISPATCH_FAILED")
  <2>1. PICK i \in Resolved(Top.intent) :
            stack' = [stack EXCEPT ![Len(stack)].capability = registry[i],
                                   ![Len(stack)].at = "ACTION_RESOLVED"]
    BY <1>2 DEF ResolveCapability
  <2>2. registry[i] \in Offered /\ registry[i].workflow \in Workflow
    BY <2>1 DEF Resolved, Serving, DispatchInv, BooksTyped, CapabilitiesFit
  <2> DEFINE f == [Top EXCEPT !.capability = registry[i], !.at = "ACTION_RESOLVED"]
  <2>3. Busy /\ Top.call = "dispatch" /\ TypeOK(Foreign)
    BY InvTypes DEF ResolveCapability, TopIs
  <2>4. Len(stack) \in DOMAIN stack /\ Top = stack[Len(stack)] /\ Top \in DispatchCall
    BY <2>3, TopCall, CallKinds
  <2>5. /\ f \in Foreign /\ f.call = "dispatch"
        /\ f.at = "ACTION_RESOLVED" /\ f.capability = registry[i]
    BY <2>2, <2>4 DEF Foreign, DispatchCall, DispatchPoints
  <2>6. stack' = [stack EXCEPT ![Len(stack)] = f]
    BY <2>1, <2>4
  <2> HIDE DEF f
  <2>7. stack' \in Seq(Frame \union Foreign) /\ Moved /\ stack'[Len(stack)] = f
    BY <2>3, <2>5, <2>6, MoveCall
  <2> QED BY <2>2, <2>3, <2>5, <2>7, MoveStep DEF ResolveCapability, Still
<1> QED BY <1>1, <1>2

\* Lemma: CallOver, for the calls of the dispatcher.
LEMMA ActionCalled ==
    ASSUME Steps \in Nat, StepInv(Foreign), Busy, Top.call # "execute", NEW t \in Foreign,
           NEW w \in Workflow, Begin(w, [stack EXCEPT ![Len(stack)] = t])
    PROVE  /\ StepInv(Foreign)' /\ FinishedKept
           /\ workflows[w] = "PENDING"
           /\ Len(stack') = Len(stack) + 1
           /\ stack'[Len(stack)] = t
           /\ stack'[Len(stack) + 1] = [call |-> "execute", workflow |-> w, step |-> 0, at |-> "STARTED"]
           /\ \A i \in 1 .. Len(stack) - 1 : stack'[i] = stack[i]
BY CallOver, ForeignCalls

\* Lemma: an action begins its workflow, which nobody else waits for.
LEMMA CallStep ==
    ASSUME CapabilitiesFit, DispatchInv, CallWorkflow
    PROVE  DispatchInv' /\ FinishedKept
<1>1. /\ TypeOK(Foreign) /\ RunInv(Foreign) /\ StepInv(Foreign) /\ CallsTold
      /\ Busy /\ Top.call = "dispatch" /\ Top.at = "DISPATCH_STARTED"
  BY InvTypes DEF DispatchInv, CallWorkflow, TopIs
<1> PICK n : n = Len(stack)
  OBVIOUS
<1>2. /\ n \in Nat \ {0} /\ DOMAIN stack = 1 .. n /\ n \in DOMAIN stack /\ Len(stack) = n
      /\ Top = stack[n] /\ stack[n] \in DispatchCall
  BY <1>1, TopCall, CallKinds
<1> PICK w : w = Top.capability.workflow
  OBVIOUS
<1>3. w \in Workflow /\ w = Of(n)
  BY <1>1, <1>2 DEF CallsTold, DispatchOK, Of
<1> PICK t : t = [stack[n] EXCEPT !.at = "calling"]
  OBVIOUS
<1>4. /\ t \in Foreign /\ t.call = "dispatch" /\ t.at = "calling"
      /\ t.capability = stack[n].capability
  BY <1>2 DEF Foreign, DispatchCall, DispatchPoints
<1>5. Begin(w, [stack EXCEPT ![Len(stack)] = t])
  BY <1>2 DEF CallWorkflow
<1> PICK f : f = [call |-> "execute", workflow |-> w, step |-> 0, at |-> "STARTED"]
  OBVIOUS
<1>6. f.call = "execute" /\ f.workflow = w /\ f.at = "STARTED"
  OBVIOUS
<1>7. /\ StepInv(Foreign)' /\ FinishedKept /\ workflows[w] = "PENDING"
      /\ Len(stack') = n + 1 /\ stack'[n + 1] = f /\ stack'[n] = t
      /\ \A i \in 1 .. n - 1 : stack'[i] = stack[i]
  <2>1. /\ Steps \in Nat /\ StepInv(Foreign) /\ Busy /\ Top.call # "execute"
        /\ t \in Foreign /\ w \in Workflow /\ Begin(w, [stack EXCEPT ![Len(stack)] = t])
    BY <1>1, <1>3, <1>4, <1>5 DEF CapabilitiesFit
  <2>2. /\ StepInv(Foreign)' /\ FinishedKept
        /\ workflows[w] = "PENDING"
        /\ Len(stack') = Len(stack) + 1
        /\ stack'[Len(stack)] = t
        /\ stack'[Len(stack) + 1] = [call |-> "execute", workflow |-> w, step |-> 0, at |-> "STARTED"]
        /\ \A i \in 1 .. Len(stack) - 1 : stack'[i] = stack[i]
    BY <2>1, ActionCalled
  <2> QED BY <1>2, <2>2
<1>8. DOMAIN stack' = 1 .. n + 1
  BY <1>7, <1>2 DEF StepInv, RunInv, TypeOK
<1>9. served' = served /\ UNCHANGED <<registry, dispatcherVars>>
  BY DEF CallWorkflow, dispatcherVars
<1>10. \A i \in DOMAIN stack' :
           i = n + 1 \/ i = n \/ (i \in DOMAIN stack /\ i # n /\ stack'[i] = stack[i])
  BY <1>2, <1>7, <1>8
<1>11. ASSUME NEW i \in DOMAIN stack'
       PROVE  DispatchOK(i)' /\ EndTold(i)'
  <2>1. CASE i = n + 1
    BY <1>6, <1>7, <2>1 DEF DispatchOK, EndTold, Finished
  <2>2. CASE i = n
    <3>1. stack'[i] = t /\ t.capability.workflow \in Workflow
      BY <1>3, <1>4, <1>7, <2>2 DEF Of
    <3> QED BY <1>4, <3>1 DEF DispatchOK, EndTold, Of
  <2>3. CASE i \in DOMAIN stack /\ i # n /\ stack'[i] = stack[i]
    <3>1. DispatchOK(i) /\ EndTold(i) /\ (stack[i].call = "execute" => stack[i].workflow \in Workflow)
      BY <1>1, <2>3, Calls, ForeignCalls DEF CallsTold, DispatchInv, EndsTold
    <3> QED BY <1>7, <1>9, <2>3, <3>1 DEF DispatchOK, EndTold, Of, FinishedKept
  <2> QED BY <1>10, <2>1, <2>2, <2>3
<1>12. ASSUME NEW i \in DOMAIN stack', Waits(i)', i # n
       PROVE  /\ Waits(i) /\ WaitOK(i) /\ i \in 1 .. n - 2 /\ stack'[i] = stack[i]
              /\ Of(i) # w
  <2>1. i \in DOMAIN stack /\ stack'[i] = stack[i]
    BY <1>6, <1>7, <1>10, <1>12 DEF Waits
  <2>2. Waits(i) /\ WaitOK(i)
    BY <1>1, <1>12, <2>1 DEF Waits, CallsTold
  <2>3. /\ i + 1 \in DOMAIN stack /\ stack[i + 1].call = "execute"
        /\ stack[i + 1].workflow = Of(i) /\ stack[i + 1].at # "CANCELLED"
    BY <1>2, <1>12, <2>1, <2>2 DEF WaitOK, Awaits
  <2>4. i + 1 # n
    BY <1>1, <1>2, <2>3
  <2>5. Of(i) # w
    <3>1. EndTold(i + 1) /\ (Running(i + 1) => workflows[Of(i)] = "RUNNING")
      BY <1>1, <2>3 DEF DispatchInv, EndsTold, RunInv, RunnersOK
    <3>2. workflows[Of(i)] \in {"RUNNING", "COMPLETED", "FAILED"}
      BY <2>3, <3>1 DEF EndTold, Running, Finished
    <3> QED BY <1>7, <3>2
  <2> QED BY <1>2, <1>12, <2>1, <2>2, <2>4, <2>5
<1>13. ASSUME NEW i \in DOMAIN stack', Waits(i)'
       PROVE  WaitOK(i)'
  <2>1. CASE i = n
    <3>1. served[w] = 0
      <4>1. served[w] \in Nat
        BY <1>3 DEF DispatchInv, BooksTyped
      <4>2. served[w] <= 1 /\ served[w] # 1
        BY <1>1, <1>3, <1>7 DEF CallsTold, ServedOK
      <4> QED BY <4>1, <4>2
    <3>2. (Of(i) = w)'
      BY <1>3, <1>4, <1>7, <2>1 DEF Of
    <3> QED BY <1>2, <1>6, <1>7, <1>9, <2>1, <3>1, <3>2 DEF WaitOK, Awaits
  <2>2. CASE i # n
    <3>1. Waits(i) /\ WaitOK(i) /\ i \in 1 .. n - 2 /\ stack'[i] = stack[i]
      BY <1>12, <1>13, <2>2
    <3>2. stack'[i + 1] = stack[i + 1] /\ i # Len(stack') /\ i # Len(stack)
      BY <1>2, <1>7, <3>1
    <3> QED BY <1>9, <3>1, <3>2 DEF WaitOK, Awaits, Of
  <2> QED BY <2>1, <2>2
<1>14. OneWaits'
  <2> SUFFICES ASSUME NEW i \in DOMAIN stack', NEW j \in DOMAIN stack',
                      Waits(i)', Waits(j)', (Of(i) = Of(j))'
               PROVE  i = j
    BY DEF OneWaits
  <2>1. (Of(n) = w)'
    BY <1>3, <1>4, <1>7 DEF Of
  <2>2. CASE i # n /\ j # n
    <3>1. Waits(i) /\ stack'[i] = stack[i] /\ Waits(j) /\ stack'[j] = stack[j]
      BY <1>12, <2>2
    <3> QED BY <1>1, <3>1 DEF CallsTold, OneWaits, Of, Waits
  <2>3. CASE i = n /\ j # n
    BY <1>12, <2>1, <2>3 DEF Of
  <2>4. CASE i # n /\ j = n
    BY <1>12, <2>1, <2>4 DEF Of
  <2> QED BY <2>2, <2>3, <2>4
<1>15. ServedOK'
  BY <1>1, <1>7, <1>9 DEF CallsTold, ServedOK, FinishedKept, Finished
<1>16. BooksTyped' /\ NoTwins'
  BY <1>9 DEF DispatchInv, BooksTyped, NoTwins, dispatcherVars
<1> QED BY <1>7, <1>11, <1>13, <1>14, <1>15, <1>16 DEF DispatchInv, CallsTold, EndsTold

\* Lemma: the action came back, and its workflow is counted as served.
LEMMA ReturnedStep ==
    ASSUME CapabilitiesFit, DispatchInv, WorkflowReturned
    PROVE  DispatchInv' /\ FinishedKept
<1>1. /\ TypeOK(Foreign) /\ StepInv(Foreign) /\ CallsTold
      /\ Busy /\ Top.call = "dispatch" /\ Top.at = "calling"
  BY InvTypes DEF DispatchInv, WorkflowReturned, TopIs
<1> PICK n : n = Len(stack)
  OBVIOUS
<1>2. /\ n \in Nat \ {0} /\ DOMAIN stack = 1 .. n /\ n \in DOMAIN stack /\ Len(stack) = n
      /\ Top = stack[n]
  BY <1>1, TopCall, CallKinds
<1>3. Waits(n) /\ WaitOK(n) /\ DispatchOK(n)
  BY <1>1, <1>2 DEF Waits, CallsTold
<1> PICK w : w = Of(n)
  OBVIOUS
<1>4. /\ w \in Workflow /\ w = Of(n) /\ served[w] = 0 /\ workflows[w] \in {"COMPLETED", "FAILED"}
      /\ Top.capability.workflow = w
  BY <1>1, <1>2, <1>3 DEF DispatchOK, WaitOK, Awaits, Of
<1>5. /\ served \in [Workflow -> Nat] /\ served' = [served EXCEPT ![w] = served[w] + 1]
  BY <1>4 DEF WorkflowReturned, DispatchInv, BooksTyped
<1>6. /\ served' \in [Workflow -> Nat] /\ served'[w] = 1
      /\ \A v \in Workflow : v # w => served'[v] = served[v]
  BY <1>4, <1>5
<1>7. /\ stack' \in Seq(Frame \union Foreign) /\ Moved
      /\ stack'[n] \in DispatchCall /\ stack'[n].at = "DISPATCH_COMPLETED"
      /\ stack'[n].capability = Top.capability
  BY <1>1, <1>2, GotoCall DEF WorkflowReturned, DispatchPoints
<1>8. /\ stack'[n].call = "dispatch" /\ (Of(n) = w)' /\ Len(stack') = n /\ DOMAIN stack' = 1 .. n
      /\ \A i \in 1 .. n - 1 : stack'[i] = stack[i]
  BY <1>2, <1>4, <1>7 DEF DispatchCall, Of, Moved
<1>9. StepInv(Foreign)' /\ FinishedKept /\ UNCHANGED workflows
  BY <1>1, <1>2, <1>7, <1>8, AroundStep, ForeignCalls DEF WorkflowReturned, workflowVars
<1>10. ASSUME NEW i \in DOMAIN stack'
       PROVE  DispatchOK(i)' /\ EndTold(i)'
  <2>1. CASE i = n
    BY <1>4, <1>6, <1>7, <1>8, <2>1 DEF DispatchOK, EndTold
  <2>2. CASE i # n
    <3>1. stack'[i] = stack[i] /\ DispatchOK(i) /\ EndTold(i)
      BY <1>1, <1>2, <1>8, <2>2 DEF CallsTold, DispatchInv, EndsTold
    <3>2. Of(i) \in Workflow /\ served[Of(i)] = 1 => served'[Of(i)] = 1
      BY <1>4, <1>6
    <3> QED BY <1>9, <3>1, <3>2 DEF DispatchOK, EndTold, Of
  <2> QED BY <2>1, <2>2
<1>11. ASSUME NEW i \in DOMAIN stack', Waits(i)'
       PROVE  /\ Waits(i) /\ WaitOK(i) /\ i \in 1 .. n - 2 /\ stack'[i] = stack[i]
              /\ Of(i) \in Workflow /\ Of(i) # w
  <2>1. i # n
    BY <1>7, <1>11 DEF Waits
  <2>2. i \in DOMAIN stack /\ stack'[i] = stack[i]
    BY <1>2, <1>8, <1>11, <2>1
  <2>3. Waits(i) /\ WaitOK(i) /\ DispatchOK(i)
    BY <1>1, <1>11, <2>2 DEF Waits, CallsTold
  <2>4. i + 1 # n
    BY <1>1, <1>2, <2>1, <2>3 DEF WaitOK, Awaits
  <2>5. Of(i) \in Workflow /\ Of(i) # w
    BY <1>1, <1>2, <1>3, <1>4, <2>1, <2>2, <2>3 DEF CallsTold, OneWaits, DispatchOK, Waits
  <2> QED BY <1>2, <2>1, <2>2, <2>3, <2>4, <2>5
<1>12. ASSUME NEW i \in DOMAIN stack', Waits(i)'
       PROVE  WaitOK(i)'
  <2>1. /\ Waits(i) /\ WaitOK(i) /\ i \in 1 .. n - 2 /\ stack'[i] = stack[i]
        /\ Of(i) \in Workflow /\ Of(i) # w
    BY <1>11, <1>12
  <2>2. stack'[i + 1] = stack[i + 1] /\ i # Len(stack') /\ i # Len(stack)
    BY <1>2, <1>8, <2>1
  <2>3. served'[Of(i)] = 0
    BY <1>6, <2>1 DEF WaitOK
  <2> QED BY <2>1, <2>2, <2>3 DEF WaitOK, Awaits, Of
<1>13. OneWaits'
  <2> SUFFICES ASSUME NEW i \in DOMAIN stack', NEW j \in DOMAIN stack',
                      Waits(i)', Waits(j)', (Of(i) = Of(j))'
               PROVE  i = j
    BY DEF OneWaits
  <2>1. Waits(i) /\ stack'[i] = stack[i] /\ Waits(j) /\ stack'[j] = stack[j]
    BY <1>11
  <2> QED BY <1>1, <2>1 DEF CallsTold, OneWaits, Of, Waits
<1>14. ServedOK'
  <2> SUFFICES ASSUME NEW v \in Workflow
               PROVE  served'[v] <= 1 /\ (served'[v] = 1 => workflows'[v] \in {"COMPLETED", "FAILED"})
    BY DEF ServedOK
  <2>1. CASE v = w
    BY <1>4, <1>6, <1>9, <2>1
  <2>2. CASE v # w
    BY <1>1, <1>6, <1>9, <2>2 DEF CallsTold, ServedOK
  <2> QED BY <2>1, <2>2
<1>15. BooksTyped' /\ NoTwins'
  BY <1>6 DEF WorkflowReturned, DispatchInv, BooksTyped, NoTwins
<1> QED BY <1>9, <1>10, <1>12, <1>13, <1>14, <1>15 DEF DispatchInv, CallsTold, EndsTold

-----------------------------------------------------------------------------
(* The dispatcher: the invariant is inductive *)

LEMMA RegistryStep ==
    ASSUME DispatchInv, RegistryNext, UNCHANGED <<workflowVars, dispatcherVars>>
    PROVE  DispatchInv' /\ FinishedKept
<1>1. ASSUME NEW c \in Offered, NEW event \in {"CAPABILITY_REGISTERED", "CAPABILITY_UNREGISTERED"},
             Announce(event), MayCall, RegisterCapability(c) \/ UnregisterCapability(c)
      PROVE  DispatchInv' /\ FinishedKept
  <2>1. registry' \in Seq(Offered) /\ NoTwins'
    BY <1>1, RegistryKept DEF DispatchInv, BooksTyped
  <2>2. BooksTyped'
    BY <2>1 DEF DispatchInv, BooksTyped, dispatcherVars
  <2> DEFINE f == [call |-> "registry", at |-> event]
  <2>3. f \in Foreign /\ f.call # "dispatch"
    BY DEF Foreign, RegistryCall
  <2>4. Enter(f) /\ MayCall /\ served' = served
    BY <1>1 DEF Announce, dispatcherVars
  <2> HIDE DEF f
  <2> QED BY <2>1, <2>2, <2>3, <2>4, EnterStep
<1>2. CASE RegistryReturns
  BY <1>2, LeaveStep DEF RegistryReturns
<1> QED BY <1>1, <1>2 DEF RegistryNext, RegisterCapability, UnregisterCapability

LEMMA BeginDispatchStep ==
    ASSUME DispatchInv, NEW intent \in Intents, Dispatch(intent), CapabilitiesFit
    PROVE  DispatchInv' /\ FinishedKept
<1> DEFINE f == [call |-> "dispatch", intent |-> intent, capability |-> NoCapability,
                 at |-> "INTENT_DISPATCHED"]
<1>1. f \in Foreign /\ f.at = "INTENT_DISPATCHED"
  BY DEF Foreign, DispatchCall, DispatchPoints
<1>2. Enter(f) /\ MayCall /\ UNCHANGED <<workflowVars, served>>
  BY DEF Dispatch
<1>3. BooksTyped' /\ NoTwins'
  BY DEF Dispatch, DispatchInv, BooksTyped, NoTwins, CapabilitiesFit
<1> HIDE DEF f
<1> QED BY <1>1, <1>2, <1>3, EnterStep

LEMMA ShiftStep ==
    ASSUME DispatchInv, InitializeDispatcher \/ StartDispatcher \/ StopDispatcher
    PROVE  DispatchInv' /\ FinishedKept
<1>1. UNCHANGED <<stack, workflowVars, registry, served, dispatched>> /\ dispatcher' \in States
  BY DEF InitializeDispatcher, StartDispatcher, StopDispatcher, ShiftDispatcher, States
<1>2. BooksTyped' /\ NoTwins'
  BY <1>1 DEF DispatchInv, BooksTyped, NoTwins
<1>3. stack' \in Seq(Frame \union Foreign)
  BY <1>1, InvTypes DEF TypeOK
<1> QED BY <1>1, <1>2, <1>3, OwnStep

LEMMA DispatcherStep ==
    ASSUME CapabilitiesFit, DispatchInv, [DispatcherNext]_dispatchVars
    PROVE  DispatchInv' /\ FinishedKept
<1>1. CASE Next /\ UNCHANGED <<registry, dispatcherVars>>
  BY <1>1, EngineStep
<1>2. CASE RegistryNext /\ UNCHANGED <<workflowVars, dispatcherVars>>
  BY <1>2, RegistryStep
<1>3. CASE InitializeDispatcher \/ StartDispatcher \/ StopDispatcher
  BY <1>3, ShiftStep
<1>4. CASE \E intent \in Intents : Dispatch(intent)
  BY <1>4, BeginDispatchStep
<1>5. CASE ResolveCapability
  BY <1>5, ResolveStep
<1>6. CASE Announced
  BY <1>6, GotoStep DEF Announced, TopIs, DispatchPoints
<1>7. CASE CallWorkflow
  BY <1>7, CallStep
<1>8. CASE CallRefused \/ WorkflowRaised
  BY <1>8, GotoStep DEF CallRefused, WorkflowRaised, TopIs, DispatchPoints
<1>9. CASE WorkflowReturned
  BY <1>9, ReturnedStep
<1>10. CASE DispatchReturns \/ DispatchRaises
  BY <1>10, LeaveStep DEF DispatchReturns, DispatchRaises, TopIs, Still
<1>11. CASE UNCHANGED dispatchVars
  <2>1. UNCHANGED <<stack, workflowVars, registry, served>> /\ BooksTyped' /\ NoTwins'
    BY <1>11 DEF DispatchInv, BooksTyped, NoTwins, dispatchVars, dispatcherVars
  <2>2. stack' \in Seq(Frame \union Foreign)
    BY <2>1, InvTypes DEF TypeOK
  <2> QED BY <2>1, <2>2, OwnStep
<1> QED BY <1>1, <1>2, <1>3, <1>4, <1>5, <1>6, <1>7, <1>8, <1>9, <1>10, <1>11 DEF DispatcherNext

-----------------------------------------------------------------------------
(* The dispatcher: theorems *)

LEMMA DispatcherStarts == ASSUME CapabilitiesFit, DispatcherInit PROVE DispatchInv
<1>1. StepInv(Foreign)
  BY StepInit DEF DispatcherInit
<1>2. BooksTyped /\ NoTwins
  BY DEF DispatcherInit, RegistryInit, BooksTyped, NoTwins, States, CapabilitiesFit
<1>3. CallsTold /\ EndsTold
  BY DEF DispatcherInit, Init, CallsTold, OneWaits, ServedOK, EndsTold
<1> QED BY <1>1, <1>2, <1>3 DEF DispatchInv

\* The invariant of the dispatcher with its registry and its engine.
THEOREM DispatchCorrect == ASSUME CapabilitiesFit PROVE DispatcherSpec => []DispatchInv
<1>1. DispatcherInit => DispatchInv
  BY DispatcherStarts
<1>2. DispatchInv /\ [DispatcherNext]_dispatchVars => DispatchInv'
  BY DispatcherStep
<1> QED BY <1>1, <1>2, PTL DEF DispatcherSpec

LEMMA ToldIsServed == ASSUME DispatchInv PROVE DispatchesAreServed
<1>1. TypeOK(Foreign) /\ BooksTyped /\ NoTwins /\ CallsTold
  BY InvTypes DEF DispatchInv
<1>2. DispatcherTypeOK
  BY <1>1, CallKinds DEF DispatcherTypeOK, BooksTyped, Frame, DispatchCall, RegistryCall
<1>3. ASSUME NEW i \in DOMAIN stack, stack[i].at = "DISPATCH_COMPLETED"
      PROVE  served[stack[i].capability.workflow] = 1
  <2>1. stack[i].call = "dispatch"
    BY <1>1, <1>3, CallKinds DEF Frame, Points, Finished, RegistryCall
  <2> QED BY <1>1, <1>3, <2>1 DEF CallsTold, DispatchOK, Of
<1>4. CompletedOnce
  BY <1>1, <1>3 DEF CompletedOnce, CallsTold, ServedOK
<1> QED BY <1>1, <1>2, <1>4 DEF DispatchesAreServed

\* What a dispatch announces of its workflow is true, no workflow completes two
\* dispatches, and one capability decides, for any capabilities, workflows and intents
\* and any nesting of dispatch(), execute(), cancel(), register and unregister.
THEOREM DispatchesStayTrue ==
    ASSUME CapabilitiesFit
    PROVE  DispatcherSpec => []DispatchesAreServed
BY DispatchCorrect, ToldIsServed, PTL

\* The engine keeps its promise when a dispatcher is one of its callers: a workflow runs
\* once, its steps in order, by one call, whoever of host and dispatcher executes it.
THEOREM DispatchedRunOnce ==
    ASSUME CapabilitiesFit
    PROVE  DispatcherSpec => []WorkflowsRunOnce
<1>1. DispatchInv => WorkflowsRunOnce
  BY RunnersOfCalls, ForeignCalls DEF DispatchInv, StepInv, WorkflowsRunOnce
<1> QED BY <1>1, DispatchCorrect, PTL

\* ... and no dispatch, late or repeated, overwrites a workflow that has finished.
THEOREM DispatchedStayFinished ==
    ASSUME CapabilitiesFit
    PROVE  DispatcherSpec => FinishedIsFinal
<1>1. DispatchInv /\ [DispatcherNext]_dispatchVars => FinishedKept
  BY DispatcherStep
<1>2. DispatchInv /\ [DispatcherNext]_dispatchVars =>
          [\A w \in Workflow : workflows[w] \in Finished =>
                workflows'[w] = workflows[w]]_<<stack, workflowVars>>
  BY <1>1 DEF FinishedKept
<1> QED BY <1>2, DispatchCorrect, PTL DEF DispatcherSpec, FinishedIsFinal
=============================================================================
