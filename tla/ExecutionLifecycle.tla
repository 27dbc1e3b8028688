------------------------- MODULE ExecutionLifecycle -------------------------
(***************************************************************************)
(* What the agent runtime promises of each execution (the docstrings of    *)
(* ExecutionStatus and IAgentRuntime): its steps are done one at a time    *)
(* and in order, a step is only begun while it is RUNNING, it is COMPLETED *)
(* once all are done, and a terminal status is final.                      *)
(***************************************************************************)
EXTENDS Naturals

CONSTANTS Ids, Lengths, None

VARIABLES
    status,  \* id -> status, or None before the execution exists
    length,  \* id -> number of steps
    done,    \* id -> number of steps done
    busy     \* id -> a step has been begun and has not ended

vars == <<status, length, done, busy>>

Terminal == {"FAILED", "COMPLETED", "CANCELLED"}

Init ==
    /\ status = [e \in Ids |-> None]
    /\ length = [e \in Ids |-> 0]
    /\ done = [e \in Ids |-> 0]
    /\ busy = [e \in Ids |-> FALSE]

Become(e, from, to) ==
    /\ status[e] \in from
    /\ status' = [status EXCEPT ![e] = to]

Create(e) ==
    /\ Become(e, {None}, "CREATED")
    /\ \E n \in Lengths : length' = [length EXCEPT ![e] = n]
    /\ UNCHANGED <<done, busy>>

Run(e) == Become(e, {"CREATED", "PAUSED"}, "RUNNING") /\ UNCHANGED <<length, done, busy>>
Pause(e) == Become(e, {"RUNNING"}, "PAUSED") /\ UNCHANGED <<length, done, busy>>

Cancel(e) ==
    /\ Become(e, {"CREATED", "RUNNING", "PAUSED"}, "CANCELLED")
    /\ UNCHANGED <<length, done, busy>>

BeginStep(e) ==
    /\ status[e] = "RUNNING"
    /\ ~ busy[e]
    /\ done[e] < length[e]
    /\ busy' = [busy EXCEPT ![e] = TRUE]
    /\ UNCHANGED <<status, length, done>>

\* A step that has begun ends, also after the execution was paused meanwhile.
EndStep(e) ==
    /\ busy[e]
    /\ busy' = [busy EXCEPT ![e] = FALSE]
    /\ done' = [done EXCEPT ![e] = @ + 1]
    /\ UNCHANGED <<status, length>>

\* It fails, or is given up before its action runs.
FailStep(e) ==
    /\ busy[e]
    /\ Become(e, {"RUNNING", "PAUSED"}, "FAILED")
    /\ busy' = [busy EXCEPT ![e] = FALSE]
    /\ UNCHANGED <<length, done>>

AbandonStep(e) ==
    /\ busy[e]
    /\ busy' = [busy EXCEPT ![e] = FALSE]
    /\ UNCHANGED <<status, length, done>>

Complete(e) ==
    /\ ~ busy[e]
    /\ done[e] = length[e]
    /\ Become(e, {"RUNNING"}, "COMPLETED")
    /\ UNCHANGED <<length, done, busy>>

Next ==
    \E e \in Ids :
        \/ Create(e) \/ Run(e) \/ Pause(e) \/ Cancel(e) \/ Complete(e)
        \/ BeginStep(e) \/ EndStep(e) \/ FailStep(e) \/ AbandonStep(e)

Spec == Init /\ [][Next]_vars
=============================================================================
