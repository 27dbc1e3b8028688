------------------------------ MODULE EventBus ------------------------------
(***************************************************************************)
(* The event bus (argus/events/event_bus.py) and the handlers that the     *)
(* intent router subscribes to it (IntentRouter.register_handler).         *)
(* publish() runs the handlers one after the other in the thread of the    *)
(* caller, over a copy of the list; a handler may subscribe, unsubscribe,  *)
(* publish and raise.  The router wraps its handlers: what they raise is   *)
(* announced as INTENT_FAILED and does not leave publish().                *)
(***************************************************************************)
EXTENDS CallStack, EventTypes

CONSTANTS
    Handlers,     \* callables that are subscribed as they are
    IntentNames,  \* names of intents
    Callbacks     \* callables that are registered for an intent

Adapters == [intent : IntentNames, handler : Callbacks]

ASSUME HandlersApart == Handlers \intersect Adapters = {}

VARIABLES
    subscribers  \* InMemoryEventBus._subscribers: event type -> handlers, in order

busVars == <<stack, subscribers>>

\* INTENT_ROUTED has the name of the intent in its payload, INTENT_FAILED has not.
Types == {"INTENT_ROUTED", "INTENT_FAILED"}
Failure == [type |-> "INTENT_FAILED", intent |-> "none"]
Events == [type : {"INTENT_ROUTED"}, intent : IntentNames] \union {Failure}
Subscribed(type) == ToSet(subscribers[type])

BusInit ==
    /\ stack = << >>
    /\ subscribers = [type \in Types |-> << >>]

-----------------------------------------------------------------------------
(* Subscriptions *)

Running == Head(Top.left)

\* An adapter for another intent is run like any handler, and returns at once.
Unconcerned ==
    TopIs("publish", {"handler"}) /\ Running \in Adapters /\ Running.intent # Top.intent

\* Host code runs outside of the bus, and in every handler that is concerned.
HandlersRun == HostRuns /\ ~Unconcerned

Subscribe(type, h) ==
    /\ HandlersRun
    /\ h \notin Subscribed(type)
    /\ subscribers' = [subscribers EXCEPT ![type] = Append(@, h)]
    /\ UNCHANGED stack

\* IntentRouter.register_handler subscribes an adapter of its own for each pair
\* of an intent and a callable, and refuses a pair that it has already.
RegisterHandler(adapter) == Subscribe("INTENT_ROUTED", adapter)

\* list.remove: the first one.
Removed(list, h) == RemoveAt(list, CHOOSE i \in DOMAIN list : list[i] = h)

\* Mutant of Unsubscribe: dispatches go through the list itself, by an index, and
\* one that is past h loses the handler that comes next.
UnsubscribeLive(type, h) ==
    /\ HandlersRun
    /\ h \in Subscribed(type)
    /\ subscribers' = [subscribers EXCEPT ![type] = Removed(@, h)]
    /\ stack' = [i \in DOMAIN stack |->
                     IF stack[i].type = type
                     THEN [stack[i] EXCEPT !.steady = @ \ {h},
                               !.left = IF h \in ToSet(stack[i].ran) \union {Head(@)}
                                        THEN <<Head(@)>> \o SubSeq(@, 3, Len(@)) ELSE @]
                     ELSE stack[i]]

\* Nobody holds an adapter to unsubscribe it.  A dispatch in progress goes on
\* with its copy (its history forgets that h was subscribed all the time).
Unsubscribe(type, h) ==
    /\ HandlersRun
    /\ h \in Subscribed(type)
    /\ subscribers' = [subscribers EXCEPT ![type] = Removed(@, h)]
    /\ stack' = [i \in DOMAIN stack |->
                     IF stack[i].type = type
                     THEN [stack[i] EXCEPT !.steady = @ \ {h}] ELSE stack[i]]

-----------------------------------------------------------------------------
(* publish *)

\* The copy of the list is taken when the event is published.
Dispatching(event) ==
    LET copy == subscribers[event.type] IN
    [call |-> "publish", type |-> event.type, intent |-> event.intent, left |-> copy,
     ran |-> << >>, steady |-> ToSet(copy), at |-> "handler"]

Publish(event) ==
    /\ HandlersRun /\ MayCall
    /\ subscribers[event.type] # << >>
    /\ Enter(Dispatching(event))
    /\ UNCHANGED subscribers

\* The handler that runs is done: the next of the copy, or the end of publish().
Advance ==
    IF Len(Top.left) = 1 THEN Return
    ELSE stack' = [stack EXCEPT ![Len(stack)].left = Tail(@),
                                ![Len(stack)].ran = Append(@, Running),
                                ![Len(stack)].at = "handler"]

HandlerReturns == TopIs("publish", {"handler"}) /\ Advance /\ UNCHANGED subscribers

\* What a plain handler raises leaves publish(), and the rest of the copy is
\* not run.
HandlerRaises ==
    /\ TopIs("publish", {"handler"})
    /\ Running \notin Adapters
    /\ Unwind
    /\ UNCHANGED subscribers

\* The adapter catches it and publishes INTENT_FAILED, before the next handler.
AdapterCatches ==
    /\ TopIs("publish", {"handler"})
    /\ Running \in Adapters /\ ~Unconcerned
    /\ LET failed == Dispatching(Failure) IN
       IF failed.left = << >> THEN Advance
       ELSE /\ Len(stack) < Depth
            /\ stack' = Append([stack EXCEPT ![Len(stack)].at = "calling"], failed)
    /\ UNCHANGED subscribers

FailureAnnounced == TopIs("publish", {"calling"}) /\ Advance /\ UNCHANGED subscribers

\* A handler of INTENT_FAILED raised: this does leave the adapter.
AnnouncingRaised == TopIs("publish", {"raised"}) /\ Unwind /\ UNCHANGED subscribers

BusNext ==
    \/ \E type \in Types, h \in Handlers : Subscribe(type, h) \/ Unsubscribe(type, h)
    \/ \E adapter \in Adapters : RegisterHandler(adapter)
    \/ \E event \in Events : Publish(event)
    \/ HandlerReturns \/ HandlerRaises \/ AdapterCatches
    \/ FailureAnnounced \/ AnnouncingRaised

BusSpec == BusInit /\ [][BusNext]_busVars

-----------------------------------------------------------------------------
(* Properties *)

\* Types of the subscriptions and of the dispatches in progress; no handler is
\* subscribed to one type twice.
BusTypeOK ==
    /\ subscribers \in [Types -> Seq(Handlers \union Adapters)]
    /\ \A type \in Types : IsInjective(subscribers[type])
    /\ \A i \in DOMAIN stack : stack[i].call = "publish" =>
           stack[i].type \in Types /\ stack[i].left # << >> /\ Len(stack) <= Depth

\* The steps that end a dispatch: at the end of its list, and before it.
Ends == Len(stack') < Len(stack) /\ Top.call = "publish"
Advanced == Ends => Len(Top.left) > 1 \/ Top.steady \subseteq ToSet(Append(Top.ran, Running))
Isolated == Ends /\ Len(Top.left) > 1 => Running \notin Adapters \/ Top.at = "raised"

\* A dispatch that comes to the end of its list has run every handler that was subscribed from
\* its beginning to its end, whatever the handlers did to the list meanwhile.
SteadyHandlersRun == [][Advanced]_busVars

\* No handler runs twice for one event, in particular not when it unsubscribes
\* and subscribes again while the event is dispatched.
RunsOnce ==
    \A i \in DOMAIN stack : stack[i].call = "publish" => IsInjective(stack[i].ran \o stack[i].left)

\* The promise of register_handler: a failing intent handler keeps no other
\* subscriber from the event, unless announcing the failure fails as well.
FailuresIsolated == [][Isolated]_busVars

\* Every event arrives, and once, at each handler that was there for it; and a call
\* announces only types of its own (EventTypes).
EventsArrive ==
    [](BusTypeOK /\ RunsOnce /\ OwnEvents(stack)) /\ SteadyHandlersRun /\ FailuresIsolated
=============================================================================
