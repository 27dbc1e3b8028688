----------------------------- MODULE CallStack -----------------------------
(***************************************************************************)
(* Calls in progress, for the services that run in the thread of their     *)
(* caller and without a lock.  The event bus runs handlers inside          *)
(* publish(), and steps and actions are callables of the host, so host     *)
(* code that is run by one call may make the next one: the innermost call  *)
(* is the last of the stack, and the others wait for it.                   *)
(*                                                                         *)
(* A frame is a record with a field `at`, the point the call has reached.  *)
(* At every point but those of Direct the call is running host code: the   *)
(* handlers of the event the point is named after, or a callable.  At a    *)
(* Direct point it waits for a call to another service.                    *)
(***************************************************************************)
EXTENDS Naturals, SequencesExt

CONSTANT Depth     \* bound: calls in progress at one time
VARIABLE stack

ASSUME DepthAssumption == Depth \in Nat \ {0}

Direct == {"calling", "raised"}

Busy == stack # << >>
Top == Last(stack)
TopIs(call, points) == Busy /\ Top.call = call /\ Top.at \in points

\* Somebody outside, or host code run by the innermost call, may make a call.
HostRuns == Busy => Top.at \notin Direct
MayCall == HostRuns /\ Len(stack) < Depth

Opened(frame) == Append(stack, frame)
Enter(frame) == stack' = Opened(frame)
Goto(point) == stack' = [stack EXCEPT ![Len(stack)].at = point]

\* The innermost call returns to the host code, or to the service, that made it.
Return == stack' = Front(stack)

\* An exception leaves the innermost call.  Host code may catch it or let it
\* pass; a service that made the call itself goes on at the point "raised".
Unwound ==
    LET below == Front(stack) IN
    IF below # << >> /\ Last(below).at = "calling"
    THEN [below EXCEPT ![Len(below)].at = "raised"]
    ELSE below
Unwind == stack' = Unwound
=============================================================================
