------------------------- MODULE AgentRuntimeProofs -------------------------
(***************************************************************************)
(* Proofs about AgentRuntime, for every number of executions and steps,    *)
(* every nesting depth and whatever host code calls or raises.             *)
(***************************************************************************)
EXTENDS AgentRuntime, TLAPS

\* The executions created so far are stored, and no others.
StoreOK == \A e \in Ids : executions[e] # None <=> e <= created

\* What a frame knows at each point.  A start that has not been announced yet is the
\* only frame of its execution, which is not running, paused or finished by itself:
\* so nothing is lost when the local copy is stored.
FrameOK ==
    \A d \in Frames :
        /\ pc[d] # "idle" => running[d] \in Ids /\ running[d] <= created
        /\ pc[d] = "idle" => running[d] = None
        /\ pc[d] \in {"stepping", "dispatched", "stepped"} =>
             /\ local[d] \in Nat
             /\ \A k \in Nat : k < local[d] => k \in executions[running[d]].results
        /\ pc[d] = "created" =>
             /\ Status(running[d]) \in {"CREATED", "CANCELLED"}
             /\ \A f \in Frames \ {d} : running[f] # running[d]

\* Every step before current_step has a result, and of a COMPLETED execution, every step.
ProgressOK ==
    \A e \in Ids : executions[e] # None =>
        /\ \A k \in Nat : k < executions[e].current_step => k \in executions[e].results
        /\ Status(e) = "COMPLETED" =>
             \A k \in Nat : k < plans[e] => k \in executions[e].results

Inv == TypeOK /\ StoreOK /\ FrameOK /\ ProgressOK

\* Lemma: the constants are what the types need.
LEMMA Bounds == MaxExecutions \in Nat /\ MaxSteps \in Nat /\ MaxDepth \in Nat /\ None \notin Ids
  BY BoundsAssumption, NoneAssumption DEF Ids

LEMMA InvInit == Init => Inv
<1> SUFFICES ASSUME Init
             PROVE  Inv
  OBVIOUS
<1>1. TypeOK
  BY Bounds DEF Init, TypeOK, States, Points, Ids
<1>2. StoreOK /\ FrameOK /\ ProgressOK
  BY Bounds DEF Init, StoreOK, FrameOK, ProgressOK, Ids
<1> QED BY <1>1, <1>2 DEF Inv

\* Lemma: a frame that leaves keeps the invariant.
LEMMA ReturnInv ==
    ASSUME Inv, NEW d \in Frames, Return(d),
           UNCHANGED <<state, plan, created, executions, plans>>
    PROVE  Inv'
<1>1. TypeOK'
  BY DEF Inv, TypeOK, Return, Points
<1>2. StoreOK' /\ ProgressOK'
  BY DEF Inv, StoreOK, ProgressOK, Status
<1>3. FrameOK'
  BY Bounds DEF Inv, TypeOK, FrameOK, Return, Status
<1> QED BY <1>1, <1>2, <1>3 DEF Inv

\* Lemma: so does a frame that goes to a point where it knows nothing new.
LEMMA MoveInv ==
    ASSUME Inv, NEW d \in Frames, NEW point \in Points \ {"idle", "created"}, pc[d] # "idle",
           Goto(d, point), UNCHANGED <<state, plan, created, executions, plans, running>>,
           local' \in [Frames -> Nat \cup {None}],
           \A f \in Frames \ {d} : local'[f] = local[f],
           point \in {"stepping", "dispatched", "stepped"} =>
             /\ local'[d] \in Nat
             /\ \A k \in Nat : k < local'[d] => k \in executions[running[d]].results
    PROVE  Inv'
<1>1. TypeOK'
  BY DEF Inv, TypeOK, Goto
<1>2. StoreOK' /\ ProgressOK'
  BY DEF Inv, StoreOK, ProgressOK, Status
<1>3. FrameOK'
  BY DEF Inv, TypeOK, FrameOK, Goto, Status
<1> QED BY <1>1, <1>2, <1>3 DEF Inv

\* Lemma: an update of a stored execution that only adds results, and keeps
\* current_step and COMPLETED backed by results, keeps the executions in order ...
LEMMA StoreInv ==
    ASSUME Inv, NEW e \in Ids, executions[e] # None, NEW x \in Execution, Store(e, x),
           UNCHANGED <<created, plans>>,
           \A k \in Nat : k < x.current_step => k \in x.results,
           x.status = "COMPLETED" => \A k \in Nat : k < plans[e] => k \in x.results
    PROVE  /\ executions' \in [Ids -> Execution \cup {None}]
           /\ StoreOK' /\ ProgressOK'
<1>1. executions \in [Ids -> Execution \cup {None}] /\ x # None
  BY NoneAssumption DEF Inv, TypeOK
<1>2. executions' = [executions EXCEPT ![e] = x]
  BY DEF Store
<1>3. StoreOK'
  BY <1>1, <1>2 DEF Inv, StoreOK
<1>4. ProgressOK'
  BY <1>1, <1>2 DEF Inv, ProgressOK, Status
<1> QED BY <1>1, <1>2, <1>3, <1>4

\* ... and, when it keeps what frames know, the whole invariant.
LEMMA UpdateInv ==
    ASSUME Inv, NEW e \in Ids, executions[e] # None, NEW x \in Execution, Store(e, x),
           UNCHANGED <<state, plan, created, plans, running, local>>,
           executions[e].results \subseteq x.results,
           \A k \in Nat : k < x.current_step => k \in x.results,
           x.status = "COMPLETED" => \A k \in Nat : k < plans[e] => k \in x.results,
           \A f \in Frames : pc'[f] = "created" =>
               pc[f] = "created" /\ (running[f] # e \/ x.status = "CANCELLED"),
           \A f \in Frames : pc'[f] = "idle" <=> pc[f] = "idle",
           \A f \in Frames : pc'[f] \in {"stepping", "dispatched", "stepped"} =>
               \/ pc[f] \in {"stepping", "dispatched", "stepped"},
           pc' \in [Frames -> Points]
    PROVE  Inv'
<1>1. executions' \in [Ids -> Execution \cup {None}] /\ StoreOK' /\ ProgressOK'
  BY StoreInv
<1>2. TypeOK'
  BY <1>1 DEF Inv, TypeOK
<1>3. \A i \in Ids : executions'[i] = IF i = e THEN x ELSE executions[i]
  BY DEF Store, Inv, TypeOK
<1>4. FrameOK'
  <2> SUFFICES ASSUME NEW d \in Frames
               PROVE  /\ pc'[d] # "idle" => running[d] \in Ids /\ running[d] <= created
                      /\ pc'[d] = "idle" => running[d] = None
                      /\ pc'[d] \in {"stepping", "dispatched", "stepped"} =>
                           /\ local[d] \in Nat
                           /\ \A k \in Nat : k < local[d] => k \in executions'[running[d]].results
                      /\ pc'[d] = "created" =>
                           /\ executions'[running[d]].status \in {"CREATED", "CANCELLED"}
                           /\ \A f \in Frames \ {d} : running[f] # running[d]
    BY DEF FrameOK, Status
  <2>1. pc[d] # "idle" => running[d] \in Ids /\ running[d] <= created
    BY DEF Inv, FrameOK
  <2>2. pc[d] = "idle" => running[d] = None
    BY DEF Inv, FrameOK
  <2>3. ASSUME pc'[d] \in {"stepping", "dispatched", "stepped"}
        PROVE  /\ local[d] \in Nat
               /\ \A k \in Nat : k < local[d] => k \in executions'[running[d]].results
    BY <1>3, <2>1, <2>3 DEF Inv, FrameOK
  <2>4. ASSUME pc'[d] = "created"
        PROVE  /\ executions'[running[d]].status \in {"CREATED", "CANCELLED"}
               /\ \A f \in Frames \ {d} : running[f] # running[d]
    BY <1>3, <2>1, <2>4 DEF Inv, FrameOK, Status
  <2> QED BY <2>1, <2>2, <2>3, <2>4
<1> QED BY <1>1, <1>2, <1>4 DEF Inv

\* Lemma: an execution that moves on is one.
LEMMA AdvancedType ==
    ASSUME NEW execution \in Execution, NEW step \in Nat
    PROVE  /\ Advanced(execution, step) \in Execution
           /\ Advanced(execution, step).status = execution.status
           /\ Advanced(execution, step).current_step = step + 1
           /\ Advanced(execution, step).results = execution.results \cup {step}
<1> DEFINE x == Advanced(execution, step)
<1>1. x = [execution EXCEPT !.current_step = step + 1, !.results = @ \cup {step}]
  BY DEF Advanced
<1>2. /\ x.status = execution.status /\ x.current_step = step + 1
      /\ x.results = execution.results \cup {step}
  BY <1>1 DEF Execution
<1>3. x = [status |-> x.status, current_step |-> x.current_step, results |-> x.results]
  BY <1>1 DEF Execution
<1>4. execution.status \in Statuses /\ step + 1 \in Nat
      /\ execution.results \cup {step} \in SUBSET Nat
  BY DEF Execution
<1> HIDE DEF x
<1>5. x \in Execution
  BY <1>2, <1>3, <1>4 DEF Execution
<1> QED BY <1>2, <1>5 DEF x

\* Lemma: the service's lifecycle and the planner do not touch executions.
LEMMA EnvironmentInv == Inv /\ Environment => Inv'
<1> SUFFICES ASSUME Inv, Environment
             PROVE  Inv'
  OBVIOUS
<1>1. UNCHANGED <<created, executions, plans, frameVars>>
  BY DEF Environment, Initialize, Start, Stop, SetState, EditPlan, ValidatePlan
<1>2. TypeOK'
  <2>1. state' \in States
    BY DEF Environment, Initialize, Start, Stop, SetState, EditPlan, ValidatePlan,
           Inv, TypeOK, States
  <2>2. CASE EditPlan
    <3>1. PICK n \in 0 .. MaxSteps : plan' = [steps |-> n, validated |-> FALSE]
      BY <2>2 DEF EditPlan
    <3>2. n \in Nat
      BY Bounds
    <3> QED BY <1>1, <2>1, <3>1, <3>2 DEF Inv, TypeOK, frameVars
  <2>3. CASE ValidatePlan
    BY <1>1, <2>1, <2>3 DEF ValidatePlan, Inv, TypeOK, frameVars
  <2>4. CASE UNCHANGED plan
    BY <1>1, <2>1, <2>4 DEF Inv, TypeOK, frameVars
  <2> QED
    BY <2>2, <2>3, <2>4 DEF Environment, Initialize, Start, Stop, SetState
<1>3. StoreOK' /\ FrameOK' /\ ProgressOK'
  BY <1>1 DEF frameVars, Inv, StoreOK, FrameOK, ProgressOK, Status
<1> QED BY <1>2, <1>3 DEF Inv

\* Lemma: the control operations keep the invariant.
LEMMA ControlInv == Inv /\ Control => Inv'
<1> SUFFICES ASSUME Inv, Control
             PROVE  Inv'
  OBVIOUS
<1>1. executions \in [Ids -> Execution \cup {None}] /\ pc \in [Frames -> Points]
        /\ running \in [Frames -> Ids \cup {None}] /\ created \in Nat
  BY Bounds DEF Inv, TypeOK
<1>2. ASSUME NEW d \in Frames, StartExecution(d)
      PROVE  Inv'
  <2> DEFINE new == created + 1
  <2>1. /\ new \in Ids /\ created' = new
        /\ executions' = [executions EXCEPT ![new] = NewExecution]
        /\ plans' = [plans EXCEPT ![new] = plan.steps]
        /\ running' = [running EXCEPT ![d] = new]
        /\ pc' = [pc EXCEPT ![d] = "created"] /\ pc[d] = "idle"
        /\ UNCHANGED <<state, plan, local>>
    BY <1>1, <1>2, Bounds DEF StartExecution, Store, Goto, Ids, Opens, Inv, TypeOK, Frames
  <2>2. NewExecution \in Execution /\ NewExecution # None
    BY NoneAssumption DEF NewExecution, Execution, Statuses
  <2>3. TypeOK'
    BY <2>1, <2>2 DEF Inv, TypeOK, Points, Ids
  <2>4. StoreOK'
    BY <1>1, <2>1, <2>2 DEF Inv, StoreOK, Ids
  <2>5. ProgressOK'
    BY <1>1, <2>1, <2>2 DEF Inv, TypeOK, ProgressOK, Status, NewExecution
  <2>6. FrameOK'
    <3>1. \A f \in Frames : running[f] # new
      BY <1>1, Bounds, <2>1 DEF Inv, FrameOK
    <3>2. running'[d] = new /\ pc'[d] = "created" /\ executions'[new] = NewExecution
      BY <1>1, <2>1 DEF Inv, TypeOK
    <3>3. \A f \in Frames \ {d} : running'[f] = running[f] /\ pc'[f] = pc[f]
      BY <1>1, <2>1
    <3>4. \A e \in Ids \ {new} : executions'[e] = executions[e]
      BY <1>1, <2>1
    <3> HIDE DEF new
    <3> SUFFICES ASSUME NEW f \in Frames
                 PROVE  /\ pc'[f] # "idle" => running'[f] \in Ids /\ running'[f] <= new
                        /\ pc'[f] = "idle" => running'[f] = None
                        /\ pc'[f] \in {"stepping", "dispatched", "stepped"} =>
                             /\ local[f] \in Nat
                             /\ \A k \in Nat : k < local[f] => k \in executions'[running'[f]].results
                        /\ pc'[f] = "created" =>
                             /\ executions'[running'[f]].status \in {"CREATED", "CANCELLED"}
                             /\ \A g \in Frames \ {f} : running'[g] # running'[f]
      BY <2>1 DEF FrameOK, Status
    <3>5. CASE f = d
      BY <2>1, <3>1, <3>2, <3>3, <3>5, Bounds DEF NewExecution, Ids
    <3>6. CASE f # d
      <4>1. pc[f] # "idle" => running[f] \in Ids /\ running[f] <= created /\ running[f] # new
        BY <3>1 DEF Inv, FrameOK
      <4>2. created <= new
        BY <1>1 DEF new
      <4>3. pc[f] # "idle" => running[f] <= new
        BY <1>1, <4>1 DEF new, Ids
      <4>4. /\ pc[f] = "idle" => running[f] = None
            /\ pc[f] \in {"stepping", "dispatched", "stepped"} =>
                 /\ local[f] \in Nat
                 /\ \A k \in Nat : k < local[f] => k \in executions[running[f]].results
            /\ pc[f] = "created" =>
                 /\ executions[running[f]].status \in {"CREATED", "CANCELLED"}
                 /\ \A g \in Frames \ {f} : running[g] # running[f]
        BY DEF Inv, FrameOK, Status
      <4>5. pc[f] = "created" => \A g \in Frames \ {f} : running'[g] # running'[f]
        BY <3>2, <3>3, <3>6, <4>1, <4>4
      <4> QED BY <3>3, <3>4, <3>6, <4>1, <4>3, <4>4, <4>5
    <3> QED BY <3>5, <3>6
  <2> QED BY <2>3, <2>4, <2>5, <2>6 DEF Inv
<1>3. ASSUME NEW d \in Frames, NEW e \in Ids, ResumeExecution(d, e)
      PROVE  Inv'
  <2> DEFINE x == [executions[e] EXCEPT !.status = "RUNNING"]
  <2>1. /\ executions[e] \in Execution /\ Status(e) = "PAUSED" /\ executions[e] # None
        /\ Store(e, x) /\ pc' = [pc EXCEPT ![d] = "loop"]
        /\ running' = [running EXCEPT ![d] = e]
        /\ pc[d] = "idle"
        /\ UNCHANGED <<state, plan, created, plans, local>>
    BY <1>1, <1>3 DEF ResumeExecution, Started, Goto, Opens, Frames
  <2>2. x \in Execution /\ x.results = executions[e].results
          /\ x.current_step = executions[e].current_step /\ x.status = "RUNNING"
    BY <2>1 DEF Execution, Statuses
  <2>3. executions' \in [Ids -> Execution \cup {None}] /\ StoreOK' /\ ProgressOK'
    BY <2>1, <2>2, StoreInv DEF Inv, ProgressOK
  <2>4. TypeOK'
    BY <2>1, <2>3 DEF Inv, TypeOK, Points
  <2>5. \A i \in Ids : executions'[i] = IF i = e THEN x ELSE executions[i]
    BY <1>1, <2>1 DEF Store
  <2>6. FrameOK'
    <3>1. e <= created
      BY <2>1 DEF Inv, StoreOK
    <3>2. \A f \in Frames : pc[f] = "created" => running[f] # e
      BY <2>1 DEF Inv, FrameOK
    <3> SUFFICES ASSUME NEW f \in Frames PROVE FrameOK!(f)'
      BY DEF FrameOK
    <3>3. CASE f = d
      BY <1>1, <2>1, <3>1, <3>3
    <3>4. CASE f # d
      <4>1. pc'[f] = pc[f] /\ running'[f] = running[f] /\ local'[f] = local[f] /\ created' = created
        BY <1>1, <2>1, <3>4
      <4>2. \A i \in Ids : i # e => executions'[i] = executions[i]
        BY <2>5
      <4>3. executions'[e].results = executions[e].results
        BY <2>2, <2>5
      <4>4. pc[f] = "created" => \A g \in Frames \ {f} : running'[g] # running'[f]
        BY <1>1, <2>1, <3>2 DEF Inv, FrameOK
      <4> QED BY <1>1, <3>2, <4>1, <4>2, <4>3, <4>4, Bounds DEF Inv, FrameOK, Status
    <3> QED BY <3>3, <3>4
  <2> QED BY <2>3, <2>4, <2>6 DEF Inv
<1>4. ASSUME NEW e \in Ids, PauseExecution(e)
      PROVE  Inv'
  <2> DEFINE x == [executions[e] EXCEPT !.status = "PAUSED"]
  <2>1. /\ executions[e] \in Execution /\ Status(e) = "RUNNING" /\ executions[e] # None
        /\ Store(e, x)
        /\ UNCHANGED <<state, plan, created, plans, pc, running, local>>
    BY <1>1, <1>4 DEF PauseExecution, Started, frameVars
  <2>2. x \in Execution /\ x.results = executions[e].results
          /\ x.current_step = executions[e].current_step /\ x.status = "PAUSED"
    BY <2>1 DEF Execution, Statuses
  <2>3. \A f \in Frames : pc[f] = "created" => running[f] # e
    BY <2>1 DEF Inv, FrameOK
  <2>4. \A k \in Nat : k < x.current_step => k \in x.results
    BY <2>1, <2>2 DEF Inv, ProgressOK
  <2> HIDE DEF x
  <2> QED BY <1>1, <2>1, <2>2, <2>3, <2>4, UpdateInv
<1>5. ASSUME NEW e \in Ids, CancelExecution(e)
      PROVE  Inv'
  <2> DEFINE x == [executions[e] EXCEPT !.status = "CANCELLED"]
  <2>1. /\ executions[e] \in Execution /\ executions[e] # None
        /\ Store(e, x)
        /\ UNCHANGED <<state, plan, created, plans, pc, running, local>>
    BY <1>1, <1>5 DEF CancelExecution, Started, frameVars
  <2>2. x \in Execution /\ x.results = executions[e].results
          /\ x.current_step = executions[e].current_step /\ x.status = "CANCELLED"
    BY <2>1 DEF Execution, Statuses
  <2>3. \A k \in Nat : k < x.current_step => k \in x.results
    BY <2>1, <2>2 DEF Inv, ProgressOK
  <2> HIDE DEF x
  <2> QED BY <1>1, <2>1, <2>2, <2>3, UpdateInv
<1> QED BY <1>2, <1>3, <1>4, <1>5 DEF Control

\* Lemma: the steps of a call in progress keep the invariant.
LEMMA StepInv == \A d \in Frames : Inv /\ Step(d) => Inv'
<1> SUFFICES ASSUME NEW d \in Frames, Inv, Step(d)
             PROVE  Inv'
  OBVIOUS
<1>1. /\ executions \in [Ids -> Execution \cup {None}] /\ pc \in [Frames -> Points]
      /\ running \in [Frames -> Ids \cup {None}] /\ created \in Nat
      /\ local \in [Frames -> Nat \cup {None}] /\ plans \in [Ids -> Nat]
  BY Bounds DEF Inv, TypeOK
<1> DEFINE e == running[d]
<1>2. ASSUME pc[d] # "idle"
      PROVE  /\ e \in Ids /\ executions[e] # None /\ executions[e] \in Execution
             /\ \A k \in Nat : k < executions[e].current_step => k \in executions[e].results
  <2>1. e \in Ids /\ e <= created
    BY <1>2 DEF Inv, FrameOK
  <2>2. executions[e] # None
    BY <2>1 DEF Inv, StoreOK
  <2> QED BY <1>1, <2>1, <2>2 DEF Inv, ProgressOK
<1>3. CASE MarkRunning(d)
  <2> DEFINE x == Announced(e)
  <2>1. /\ pc[d] = "created" /\ Store(e, x)
        /\ pc' = [pc EXCEPT ![d] = "announced"]
        /\ UNCHANGED <<state, plan, created, plans, running, local>>
    BY <1>3 DEF MarkRunning, At, Goto
  <2>2. e \in Ids /\ executions[e] # None
    BY <1>2, <2>1
  <2>3. x \in Execution /\ x.status = "RUNNING" /\ x.current_step = 0
    BY DEF Announced, NewExecution, Execution, Statuses
  <2>4. executions' \in [Ids -> Execution \cup {None}] /\ StoreOK' /\ ProgressOK'
    BY <2>1, <2>2, <2>3, StoreInv
  <2>5. TypeOK'
    BY <1>1, <2>1, <2>4 DEF Inv, TypeOK, Points
  <2>6. \A f \in Frames \ {d} : running[f] # e
    BY <2>1 DEF Inv, FrameOK
  <2>7. \A i \in Ids \ {e} : executions'[i] = executions[i]
    BY <1>1, <2>1 DEF Store
  <2>8. FrameOK'
    <3> HIDE DEF e, x
    <3>1. \A f \in Frames \ {d} : pc'[f] = pc[f]
      BY <1>1, <2>1
    <3>2. pc'[d] = "announced"
      BY <1>1, <2>1
    <3> SUFFICES ASSUME NEW f \in Frames
                 PROVE  /\ pc'[f] # "idle" => running[f] \in Ids /\ running[f] <= created
                        /\ pc'[f] = "idle" => running[f] = None
                        /\ pc'[f] \in {"stepping", "dispatched", "stepped"} =>
                             /\ local[f] \in Nat
                             /\ \A k \in Nat : k < local[f] => k \in executions'[running[f]].results
                        /\ pc'[f] = "created" =>
                             /\ executions'[running[f]].status \in {"CREATED", "CANCELLED"}
                             /\ \A g \in Frames \ {f} : running[g] # running[f]
      BY <2>1 DEF FrameOK, Status
    <3>3. CASE f = d
      BY <2>1, <3>2, <3>3 DEF Inv, FrameOK
    <3>4. CASE f # d
      BY <2>6, <2>7, <3>1, <3>4 DEF Inv, FrameOK, Status
    <3> QED BY <3>3, <3>4
  <2> QED BY <2>4, <2>5, <2>8 DEF Inv
<1>4. CASE EnterLoop(d)
  BY <1>1, <1>4, MoveInv DEF EnterLoop, At, Points
<1>5. CASE LeaveLoop(d)
  BY <1>5, ReturnInv DEF LeaveLoop
<1>6. CASE Complete(d)
  <2> DEFINE x == [executions[e] EXCEPT !.status = "COMPLETED"]
  <2>1. /\ pc[d] = "loop" /\ Store(e, x) /\ executions[e].current_step >= plans[e]
        /\ pc' = [pc EXCEPT ![d] = "completed"]
        /\ UNCHANGED <<state, plan, created, plans, running, local>>
    BY <1>6 DEF Complete, At, Goto
  <2>2. /\ e \in Ids /\ executions[e] # None /\ executions[e] \in Execution
        /\ \A k \in Nat : k < executions[e].current_step => k \in executions[e].results
    BY <1>2, <2>1
  <2>3. x \in Execution /\ x.results = executions[e].results
          /\ x.current_step = executions[e].current_step /\ x.status = "COMPLETED"
    BY <2>2 DEF Execution, Statuses
  <2>4. \A k \in Nat : k < plans[e] => k \in x.results
    BY <1>1, <2>1, <2>2, <2>3 DEF Execution
  <2>5. pc' \in [Frames -> Points] /\ pc'[d] = "completed"
          /\ \A f \in Frames \ {d} : pc'[f] = pc[f]
    BY <1>1, <2>1 DEF Points
  <2>6. \A f \in Frames : pc'[f] = "created" => pc[f] = "created" /\ running[f] # e
    BY <2>1, <2>5 DEF Inv, FrameOK
  <2> HIDE DEF x
  <2> QED BY <2>1, <2>2, <2>3, <2>4, <2>5, <2>6, UpdateInv
<1>7. CASE BeginStep(d)
  <2>1. /\ pc[d] = "loop" /\ local' = [local EXCEPT ![d] = executions[e].current_step]
        /\ Goto(d, "stepping")
        /\ UNCHANGED <<state, plan, created, executions, plans, running>>
    BY <1>7 DEF BeginStep, At
  <2>2. local'[d] = executions[e].current_step /\ executions[e].current_step \in Nat
    BY <1>1, <1>2, <2>1 DEF Execution
  <2>3. local' \in [Frames -> Nat \cup {None}] /\ \A f \in Frames \ {d} : local'[f] = local[f]
    BY <1>1, <2>1, <2>2
  <2> QED BY <1>2, <2>1, <2>2, <2>3, MoveInv DEF Points
<1>8. CASE Dispatch(d)
  <2>1. pc[d] = "stepping" /\ Goto(d, "dispatched")
          /\ UNCHANGED <<state, plan, created, executions, plans, running, local>>
    BY <1>8 DEF Dispatch, At
  <2>2. local[d] \in Nat /\ \A k \in Nat : k < local[d] => k \in executions[running[d]].results
    BY <2>1 DEF Inv, FrameOK
  <2> QED BY <1>1, <2>1, <2>2, MoveInv DEF Points
<1>9. CASE StepSucceeds(d)
  <2> DEFINE x == Advanced(executions[e], local[d])
  <2>1. /\ pc[d] = "dispatched" /\ Store(e, x)
        /\ pc' = [pc EXCEPT ![d] = "stepped"]
        /\ UNCHANGED <<state, plan, created, plans, running, local>>
    BY <1>9 DEF StepSucceeds, At, Goto
  <2>2. /\ e \in Ids /\ executions[e] # None /\ executions[e] \in Execution
    BY <1>2, <2>1
  <2>3. local[d] \in Nat /\ \A k \in Nat : k < local[d] => k \in executions[e].results
    BY <2>1 DEF Inv, FrameOK
  <2>5. x \in Execution /\ x.results = executions[e].results \cup {local[d]}
          /\ x.current_step = local[d] + 1 /\ x.status = executions[e].status
    BY <2>2, <2>3, AdvancedType
  <2>6. \A k \in Nat : k < x.current_step => k \in x.results
    BY <2>3, <2>5
  <2>7. x.status = "COMPLETED" => \A k \in Nat : k < plans[e] => k \in x.results
    BY <2>2, <2>5 DEF Inv, ProgressOK, Status
  <2>8. pc' \in [Frames -> Points] /\ pc'[d] = "stepped"
          /\ \A f \in Frames \ {d} : pc'[f] = pc[f]
    BY <1>1, <2>1 DEF Points
  <2>9. \A f \in Frames : pc'[f] = "created" => pc[f] = "created" /\ running[f] # e
    BY <2>1, <2>8 DEF Inv, FrameOK
  <2> HIDE DEF x
  <2> QED BY <2>1, <2>2, <2>5, <2>6, <2>7, <2>8, <2>9, UpdateInv
<1>10. CASE StepFails(d)
  <2> DEFINE x == [executions[e] EXCEPT !.status = "FAILED"]
  <2>1. /\ pc[d] = "dispatched" /\ Store(e, x)
        /\ pc' = [pc EXCEPT ![d] = "failed"]
        /\ UNCHANGED <<state, plan, created, plans, running, local>>
    BY <1>10 DEF StepFails, At, Goto
  <2>2. /\ e \in Ids /\ executions[e] # None /\ executions[e] \in Execution
        /\ \A k \in Nat : k < executions[e].current_step => k \in executions[e].results
    BY <1>2, <2>1
  <2>3. x \in Execution /\ x.results = executions[e].results
          /\ x.current_step = executions[e].current_step /\ x.status = "FAILED"
    BY <2>2 DEF Execution, Statuses
  <2>5. pc' \in [Frames -> Points] /\ pc'[d] = "failed"
          /\ \A f \in Frames \ {d} : pc'[f] = pc[f]
    BY <1>1, <2>1 DEF Points
  <2>6. \A f \in Frames : pc'[f] = "created" => pc[f] = "created" /\ running[f] # e
    BY <2>1, <2>5 DEF Inv, FrameOK
  <2> HIDE DEF x
  <2> QED BY <2>1, <2>2, <2>3, <2>5, <2>6, UpdateInv
<1>11. CASE NextStep(d)
  <2>1. pc[d] = "stepped" /\ Goto(d, "loop") /\ local' = [local EXCEPT ![d] = None]
          /\ UNCHANGED <<state, plan, created, executions, plans, running>>
    BY <1>11 DEF NextStep, At
  <2>2. local' \in [Frames -> Nat \cup {None}] /\ \A f \in Frames \ {d} : local'[f] = local[f]
    BY <1>1, <2>1
  <2> QED BY <2>1, <2>2, MoveInv DEF Points
<1>12. CASE Leave(d)
  BY <1>12, ReturnInv DEF Leave
<1>13. CASE HandlerRaises(d)
  BY <1>13, ReturnInv DEF HandlerRaises
<1> QED
  BY <1>3, <1>4, <1>5, <1>6, <1>7, <1>8, <1>9, <1>10, <1>11, <1>12, <1>13 DEF Step

LEMMA InvNext == Inv /\ [Next]_vars => Inv'
<1> SUFFICES ASSUME Inv, [Next]_vars
             PROVE  Inv'
  OBVIOUS
<1>1. CASE Next
  BY <1>1, EnvironmentInv, ControlInv, StepInv DEF Next
<1>2. CASE UNCHANGED vars
  BY <1>2 DEF vars, frameVars, Inv, TypeOK, StoreOK, FrameOK, ProgressOK, Status
<1> QED BY <1>1, <1>2

LEMMA Invariance == Spec => []Inv
BY InvInit, InvNext, PTL DEF Spec

\* Theorem: every variable keeps its type.
THEOREM TypeCorrect == Spec => []TypeOK
<1>1. Inv => TypeOK
  BY DEF Inv
<1> QED BY <1>1, Invariance, PTL

\* Theorem: no step of an execution is skipped, however calls nest.  A frame only
\* stores the position after a step whose predecessors had results when it began.
THEOREM StepsInOrder == Spec => []NoStepSkipped
<1>1. Inv => NoStepSkipped
  <2> SUFFICES ASSUME Inv, NEW e \in Started, NEW k \in 0 .. plans[e],
                      k < executions[e].current_step
               PROVE  k \in executions[e].results
    BY DEF NoStepSkipped
  <2>1. e \in Ids /\ executions[e] # None /\ plans[e] \in Nat
    BY DEF Started, Inv, TypeOK
  <2> QED BY <2>1 DEF Inv, ProgressOK
<1> QED BY <1>1, Invariance, PTL

\* Theorem: of a COMPLETED execution every step has a result.
THEOREM CompletedIsComplete == Spec => []CompletedHasAllResults
<1>1. Inv => CompletedHasAllResults
  <2> SUFFICES ASSUME Inv, NEW e \in Started, Status(e) = "COMPLETED", NEW k \in 0 .. plans[e],
                      k < plans[e]
               PROVE  k \in executions[e].results
    BY DEF CompletedHasAllResults
  <2>1. e \in Ids /\ executions[e] # None /\ plans[e] \in Nat
    BY DEF Started, Inv, TypeOK
  <2> QED BY <2>1 DEF Inv, ProgressOK
<1> QED BY <1>1, Invariance, PTL

\* Lemma: storing an execution that is not RUNNING, or keeps its status, starts none.
LEMMA NoRestart ==
    ASSUME TypeOK, NEW i \in Ids, NEW x, Store(i, x),
           x.status = executions[i].status \/ x.status # "RUNNING"
    PROVE  RunsAgainByResume
<1>1. executions \in [Ids -> Execution \cup {None}]
  BY DEF TypeOK
<1>2. \A e \in Ids : executions'[e] = IF e = i THEN x ELSE executions[e]
  BY <1>1 DEF Store
<1> QED BY <1>2 DEF RunsAgainByResume, Started, Status

LEMMA RestartNext == Inv /\ [Next]_vars => RunsAgainByResume
<1> SUFFICES ASSUME Inv, [Next]_vars
             PROVE  RunsAgainByResume
  OBVIOUS
<1>1. executions \in [Ids -> Execution \cup {None}] /\ TypeOK
        /\ running \in [Frames -> Ids \cup {None}]
  BY DEF Inv, TypeOK
<1>2. CASE UNCHANGED executions
  BY <1>2 DEF RunsAgainByResume, Status
<1>3. ASSUME NEW d \in Frames, StartExecution(d)
      PROVE  RunsAgainByResume
  <2>1. executions' = [executions EXCEPT ![created + 1] = NewExecution]
    BY <1>3 DEF StartExecution, Store
  <2>2. NewExecution.status # "RUNNING"
    BY DEF NewExecution
  <2>3. created + 1 \in Ids
    BY <1>3, Bounds DEF StartExecution, Ids, Inv, TypeOK
  <2> QED BY <1>1, <2>1, <2>2, <2>3, NoRestart DEF Store
<1>4. ASSUME NEW d \in Frames, NEW i \in Ids, ResumeExecution(d, i)
      PROVE  RunsAgainByResume
  <2>1. /\ Opens(d) /\ Status(i) = "PAUSED" /\ running' = [running EXCEPT ![d] = i]
        /\ \E x : executions' = [executions EXCEPT ![i] = x]
    BY <1>4 DEF ResumeExecution, Store
  <2>2. running'[d] = i /\ \A e \in Ids \ {i} : executions'[e] = executions[e]
    BY <1>1, <2>1
  <2> QED BY <2>1, <2>2 DEF RunsAgainByResume, Restarted, Started, Status
<1>5. ASSUME NEW i \in Ids, PauseExecution(i) \/ CancelExecution(i)
      PROVE  RunsAgainByResume
  <2>1. executions[i] \in Execution
    BY <1>1, <1>5 DEF PauseExecution, CancelExecution, Started
  <2>2. CASE PauseExecution(i)
    <3> DEFINE x == [executions[i] EXCEPT !.status = "PAUSED"]
    <3>1. Store(i, x) /\ x.status # "RUNNING"
      BY <2>1, <2>2 DEF PauseExecution, Execution
    <3> HIDE DEF x
    <3> QED BY <1>1, <3>1, NoRestart
  <2>3. CASE CancelExecution(i)
    <3> DEFINE x == [executions[i] EXCEPT !.status = "CANCELLED"]
    <3>1. Store(i, x) /\ x.status # "RUNNING"
      BY <2>1, <2>3 DEF CancelExecution, Execution
    <3> HIDE DEF x
    <3> QED BY <1>1, <3>1, NoRestart
  <2> QED BY <1>5, <2>2, <2>3
<1>6. ASSUME NEW d \in Frames, Step(d)
      PROVE  RunsAgainByResume
  <2>1. pc[d] # "idle" => running[d] \in Ids /\ executions[running[d]] \in Execution
    BY <1>1 DEF Inv, FrameOK, StoreOK
  <2>2. CASE MarkRunning(d)
    <3>1. pc[d] = "created" /\ \E x : executions' = [executions EXCEPT ![running[d]] = x]
      BY <2>2 DEF MarkRunning, At, Store
    <3>2. \A e \in Ids \ {running[d]} : executions'[e] = executions[e]
      BY <1>1, <3>1
    <3> QED BY <3>1, <3>2 DEF RunsAgainByResume, Restarted, Started, Status
  <2>3. CASE Complete(d)
    <3> DEFINE x == [executions[running[d]] EXCEPT !.status = "COMPLETED"]
    <3>1. running[d] \in Ids /\ Store(running[d], x) /\ x.status # "RUNNING"
      BY <2>1, <2>3 DEF Complete, At, Execution
    <3> HIDE DEF x
    <3> QED BY <1>1, <3>1, NoRestart
  <2>4. CASE StepFails(d)
    <3> DEFINE x == [executions[running[d]] EXCEPT !.status = "FAILED"]
    <3>1. running[d] \in Ids /\ Store(running[d], x) /\ x.status # "RUNNING"
      BY <2>1, <2>4 DEF StepFails, At, Execution
    <3> HIDE DEF x
    <3> QED BY <1>1, <3>1, NoRestart
  <2>5. CASE StepSucceeds(d)
    <3> DEFINE x == Advanced(executions[running[d]], local[d])
    <3>1. running[d] \in Ids /\ Store(running[d], x) /\ x.status = executions[running[d]].status
      BY <2>1, <2>5 DEF StepSucceeds, At, Execution, Advanced
    <3> HIDE DEF x
    <3> QED BY <1>1, <3>1, NoRestart
  <2>6. CASE UNCHANGED executions
    BY <1>2, <2>6
  <2> QED
    BY <1>6, <2>2, <2>3, <2>4, <2>5, <2>6
    DEF Step, EnterLoop, LeaveLoop, BeginStep, Dispatch, NextStep, Leave, HandlerRaises
<1>7. Environment => UNCHANGED executions
  BY DEF Environment, Initialize, Start, Stop, SetState, EditPlan, ValidatePlan
<1> QED
  BY <1>2, <1>3, <1>4, <1>5, <1>6, <1>7 DEF Next, Control, vars

\* Theorem: a call that was overtaken by a pause, a cancel or an end while its step
\* ran does not undo it; executions only start again by resume_execution.
THEOREM RestartsAreResumes == Spec => OnlyResumeRestarts
<1>1. Inv /\ [Next]_vars => [RunsAgainByResume]_vars
  BY RestartNext
<1> QED BY <1>1, Invariance, PTL DEF Spec, OnlyResumeRestarts

-----------------------------------------------------------------------------
(* Who runs an execution *)

\* What is RUNNING has a call in progress, and a call at its end has ended its execution.
RunnerOK ==
    /\ RunningHasRunner
    /\ \A d \in Frames : pc[d] \in {"completed", "failed"} => Status(running[d]) \in Terminal

\* Lemma: what a call in progress runs is a stored execution.
LEMMA Runs ==
    ASSUME Inv, NEW d \in Frames, pc[d] # "idle"
    PROVE  /\ running[d] \in Ids /\ running[d] # None /\ executions[running[d]] \in Execution
           /\ executions[running[d]] # None
<1>1. running[d] \in Ids /\ running[d] <= created
  BY DEF Inv, FrameOK
<1>2. executions[running[d]] # None
  BY <1>1 DEF Inv, StoreOK
<1> QED BY <1>1, <1>2, Bounds DEF Inv, TypeOK

\* Lemma: storing an execution that somebody runs, if it is RUNNING, and that is over
\* for who leaves it.
LEMMA StoreRunner ==
    ASSUME Inv, RunnerOK, NEW i \in Ids, NEW x \in Execution, Store(i, x),
           x.status = "RUNNING" => \E d \in Frames : running'[d] = i,
           \A d \in Frames : running[d] # None => running'[d] = running[d],
           \A d \in Frames : pc'[d] \in {"completed", "failed"} =>
              \/ running[d] = i /\ x.status \in Terminal
              \/ running[d] # i /\ pc'[d] = pc[d]
    PROVE  RunnerOK'
<1>1. \A e \in Ids : executions'[e] = IF e = i THEN x ELSE executions[e]
  BY DEF Store, Inv, TypeOK
<1>2. x # None
  BY NoneAssumption
<1>3. RunningHasRunner'
  <2> SUFFICES ASSUME NEW e \in Ids, executions'[e] # None, executions'[e].status = "RUNNING"
               PROVE  \E d \in Frames : running'[d] = e
    BY DEF RunningHasRunner, Started, Status
  <2>1. CASE e = i
    BY <1>1, <2>1
  <2>2. CASE e # i
    <3>1. PICK d \in Frames : running[d] = e
      BY <1>1, <2>2 DEF RunnerOK, RunningHasRunner, Started, Status
    <3>2. running[d] # None
      BY <3>1, Bounds
    <3> QED BY <3>1, <3>2
  <2> QED BY <2>1, <2>2
<1>4. ASSUME NEW d \in Frames, pc'[d] \in {"completed", "failed"}
      PROVE  executions'[running'[d]].status \in Terminal
  <2>1. CASE running[d] = i /\ x.status \in Terminal
    BY <1>1, <2>1, Bounds
  <2>2. CASE running[d] # i /\ pc'[d] = pc[d]
    <3>1. running[d] \in Ids /\ running[d] # None
      BY <1>4, <2>2, Runs
    <3> QED BY <1>1, <1>4, <2>2, <3>1 DEF RunnerOK, Status
  <2> QED BY <1>4, <2>1, <2>2
<1> QED BY <1>3, <1>4 DEF RunnerOK, Status

\* Lemma: every step of a call keeps runners in order, unless handlers raise.
LEMMA RunnerStep ==
    ASSUME Inv, RunnerOK, ~ HandlersMayRaise, NEW d \in Frames, Step(d)
    PROVE  RunnerOK'
<1>1. /\ executions \in [Ids -> Execution \cup {None}] /\ pc \in [Frames -> Points]
      /\ running \in [Frames -> Ids \cup {None}]
  BY DEF Inv, TypeOK
<1> DEFINE e == running[d]
<1>2. CASE UNCHANGED <<executions, running>> /\ pc'[d] \notin {"completed", "failed"}
             /\ \A f \in Frames \ {d} : pc'[f] = pc[f]
  <2>1. \A f \in Frames : pc'[f] \in {"completed", "failed"} => pc[f] = pc'[f]
    BY <1>2
  <2> QED BY <1>2, <2>1 DEF RunnerOK, RunningHasRunner, Started, Status
<1>3. CASE LeaveLoop(d) \/ Leave(d)
  <2>1. pc[d] # "idle" /\ Status(e) # "RUNNING"
    BY <1>3 DEF LeaveLoop, Leave, At, RunnerOK, Terminal
  <2>2. /\ executions' = executions /\ running' = [running EXCEPT ![d] = None]
        /\ pc' = [pc EXCEPT ![d] = "idle"]
    BY <1>3 DEF LeaveLoop, Leave, Return
  <2>3. \A f \in Frames \ {d} : running'[f] = running[f] /\ pc'[f] = pc[f]
    BY <1>1, <2>2
  <2>4. RunningHasRunner'
    <3> SUFFICES ASSUME NEW i \in Ids, executions[i] # None, Status(i) = "RUNNING"
                 PROVE  \E f \in Frames : running'[f] = i
      BY <2>2 DEF RunningHasRunner, Started, Status
    <3>1. PICK f \in Frames : running[f] = i
      BY DEF RunnerOK, RunningHasRunner, Started
    <3>2. f # d
      BY <2>1, <3>1
    <3> QED BY <2>3, <3>1, <3>2
  <2>5. pc'[d] = "idle"
    BY <1>1, <2>2
  <2> QED BY <2>2, <2>3, <2>4, <2>5 DEF RunnerOK, Status
<1>4. CASE MarkRunning(d)
  <2>1. /\ pc[d] = "created" /\ Store(e, Announced(e)) /\ running' = running
        /\ pc' = [pc EXCEPT ![d] = "announced"]
    BY <1>4 DEF MarkRunning, At, Goto
  <2>2. Announced(e) \in Execution
    BY DEF Announced, NewExecution, Execution, Statuses
  <2>3. e \in Ids /\ \A f \in Frames \ {d} : running[f] # e /\ pc'[f] = pc[f]
    BY <1>1, <2>1, Runs DEF Inv, FrameOK
  <2>4. pc'[d] = "announced"
    BY <1>1, <2>1
  <2> QED BY <2>1, <2>2, <2>3, <2>4, StoreRunner
<1>5. ASSUME NEW x \in Execution, Store(e, x), running' = running, pc[d] # "idle",
             x.status = Status(e) \/ x.status \in Terminal,
             NEW point \in {"completed", "failed", "stepped"}, pc' = [pc EXCEPT ![d] = point],
             point # "stepped" => x.status \in Terminal
      PROVE  RunnerOK'
  <2>1. e \in Ids /\ pc'[d] = point /\ \A f \in Frames \ {d} : pc'[f] = pc[f]
    BY <1>1, <1>5, Runs
  <2>2. x.status = "RUNNING" => \E f \in Frames : running'[f] = e
    BY <1>5
  <2>3. \A f \in Frames : pc'[f] \in {"completed", "failed"} =>
           \/ running[f] = e /\ x.status \in Terminal
           \/ running[f] # e /\ pc'[f] = pc[f]
    <3> SUFFICES ASSUME NEW f \in Frames, pc'[f] \in {"completed", "failed"}, running[f] = e
                 PROVE  x.status \in Terminal
      BY <1>5, <2>1
    <3>1. f # d => Status(e) \in Terminal
      BY <2>1 DEF RunnerOK
    <3> QED BY <1>5, <2>1, <3>1
  <2> HIDE DEF e
  <2> QED BY <1>5, <2>1, <2>2, <2>3, StoreRunner
<1>6. CASE Complete(d)
  <2> DEFINE x == [executions[e] EXCEPT !.status = "COMPLETED"]
  <2>1. Store(e, x) /\ running' = running /\ pc[d] # "idle" /\ pc' = [pc EXCEPT ![d] = "completed"]
    BY <1>6 DEF Complete, At, Goto
  <2>2. x \in Execution /\ x.status \in Terminal
    BY <2>1, Runs DEF Execution, Statuses, Terminal
  <2> HIDE DEF x
  <2> QED BY <1>5, <2>1, <2>2
<1>7. CASE StepFails(d)
  <2> DEFINE x == [executions[e] EXCEPT !.status = "FAILED"]
  <2>1. Store(e, x) /\ running' = running /\ pc[d] # "idle" /\ pc' = [pc EXCEPT ![d] = "failed"]
    BY <1>7 DEF StepFails, At, Goto
  <2>2. x \in Execution /\ x.status \in Terminal
    BY <2>1, Runs DEF Execution, Statuses, Terminal
  <2> HIDE DEF x
  <2> QED BY <1>5, <2>1, <2>2
<1>8. CASE StepSucceeds(d)
  <2> DEFINE x == Advanced(executions[e], local[d])
  <2>1. Store(e, x) /\ running' = running /\ pc[d] = "dispatched" /\ pc[d] # "idle"
        /\ pc' = [pc EXCEPT ![d] = "stepped"]
    BY <1>8 DEF StepSucceeds, At, Goto
  <2>2. x \in Execution /\ x.status = Status(e)
    BY <2>1, AdvancedType, Runs DEF Inv, FrameOK, Status
  <2> HIDE DEF x
  <2> QED BY <1>5, <2>1, <2>2
<1>9. CASE EnterLoop(d) \/ BeginStep(d) \/ Dispatch(d) \/ NextStep(d)
  BY <1>1, <1>2, <1>9 DEF EnterLoop, BeginStep, Dispatch, NextStep, Goto
<1> QED BY <1>3, <1>4, <1>6, <1>7, <1>8, <1>9 DEF Step, HandlerRaises

LEMMA RunnerNext == ASSUME Inv, RunnerOK, ~ HandlersMayRaise, [Next]_vars PROVE RunnerOK'
<1>1. /\ executions \in [Ids -> Execution \cup {None}] /\ pc \in [Frames -> Points]
      /\ running \in [Frames -> Ids \cup {None}]
  BY DEF Inv, TypeOK
<1>2. CASE Environment \/ UNCHANGED vars
  <2>1. UNCHANGED <<executions, running, pc>>
    BY <1>2 DEF Environment, Initialize, Start, Stop, SetState, EditPlan, ValidatePlan,
       vars, frameVars
  <2> QED BY <2>1 DEF RunnerOK, RunningHasRunner, Started, Status
<1>3. ASSUME NEW i \in Ids, NEW x \in Execution, Store(i, x), NEW d \in Frames, pc[d] = "idle",
             running' = [running EXCEPT ![d] = i], NEW point \in {"created", "loop"},
             pc' = [pc EXCEPT ![d] = point],
             \A f \in Frames : running[f] = i => pc[f] \notin {"completed", "failed"}
      PROVE  RunnerOK'
  <2>1. running[d] = None /\ running'[d] = i /\ pc'[d] = point
        /\ \A f \in Frames \ {d} : running'[f] = running[f] /\ pc'[f] = pc[f]
    BY <1>1, <1>3 DEF Inv, FrameOK
  <2> QED BY <1>3, <2>1, StoreRunner
<1>4. ASSUME NEW d \in Frames, StartExecution(d)
      PROVE  RunnerOK'
  <2>1. /\ created + 1 \in Ids /\ Store(created + 1, NewExecution) /\ pc[d] = "idle"
        /\ running' = [running EXCEPT ![d] = created + 1] /\ pc' = [pc EXCEPT ![d] = "created"]
    BY <1>4, Bounds DEF StartExecution, Goto, Opens, Inv, TypeOK, Ids, Frames
  <2>2. NewExecution \in Execution
    BY DEF NewExecution, Execution, Statuses
  <2>3. \A f \in Frames : running[f] = created + 1 => pc[f] = "idle"
    BY Bounds DEF Inv, FrameOK, TypeOK
  <2> QED BY <1>3, <2>1, <2>2, <2>3
<1>5. ASSUME NEW d \in Frames, NEW i \in Ids, ResumeExecution(d, i)
      PROVE  RunnerOK'
  <2> DEFINE x == [executions[i] EXCEPT !.status = "RUNNING"]
  <2>1. /\ Store(i, x) /\ pc[d] = "idle" /\ executions[i] \in Execution /\ Status(i) = "PAUSED"
        /\ running' = [running EXCEPT ![d] = i] /\ pc' = [pc EXCEPT ![d] = "loop"]
    BY <1>1, <1>5 DEF ResumeExecution, Goto, Opens, Started, Frames
  <2>2. x \in Execution
    BY <2>1 DEF Execution, Statuses
  <2>3. \A f \in Frames : running[f] = i => pc[f] \notin {"completed", "failed"}
    BY <2>1 DEF RunnerOK, Terminal
  <2> HIDE DEF x
  <2> QED BY <1>3, <2>1, <2>2, <2>3
<1>6. ASSUME NEW i \in Ids, PauseExecution(i) \/ CancelExecution(i)
      PROVE  RunnerOK'
  <2>1. PICK s \in {"PAUSED", "CANCELLED"} : Store(i, [executions[i] EXCEPT !.status = s])
    BY <1>6 DEF PauseExecution, CancelExecution
  <2> DEFINE x == [executions[i] EXCEPT !.status = s]
  <2>2. Status(i) \notin Terminal /\ executions[i] \in Execution /\ UNCHANGED <<running, pc>>
    BY <1>1, <1>6 DEF PauseExecution, CancelExecution, Started, Terminal, frameVars
  <2>3. x \in Execution /\ x.status # "RUNNING"
    BY <2>2 DEF Execution, Statuses
  <2>4. \A f \in Frames : running[f] = i => pc[f] \notin {"completed", "failed"}
    BY <2>2 DEF RunnerOK
  <2> HIDE DEF x
  <2> QED BY <2>1, <2>2, <2>3, <2>4, StoreRunner DEF x
<1> QED BY <1>2, <1>4, <1>5, <1>6, RunnerStep DEF Next, Control

\* Theorem: as long as handlers do not raise, an execution is RUNNING only while a call
\* runs it, whoever pauses, resumes and cancels it from inside.
THEOREM RunningIsRun == ASSUME ~ HandlersMayRaise PROVE Spec => []RunningHasRunner
<1>1. Init => RunnerOK
  BY DEF Init, RunnerOK, RunningHasRunner, Started
<1>2. Inv /\ RunnerOK /\ [Next]_vars => RunnerOK'
  BY RunnerNext
<1>3. RunnerOK => RunningHasRunner
  BY DEF RunnerOK
<1> QED BY <1>1, <1>2, <1>3, Invariance, PTL DEF Spec

-----------------------------------------------------------------------------
(* One call for each execution *)

\* No execution is run by two calls at once: host code resumes none that a call under it
\* still runs.
SoleRunner == \A d, f \in Frames : running[d] # None /\ running[d] = running[f] => d = f

\* Then the results are those of the steps before current_step, and a call in a step
\* is at the current one.
ExactOK ==
    \A e \in Ids : executions[e] # None =>
        /\ executions[e].current_step <= plans[e]
        /\ \A k \in executions[e].results : k < executions[e].current_step
        /\ Status(e) = "COMPLETED" =>
             /\ executions[e].current_step = plans[e]
             /\ \A d \in Frames : running[d] = e => pc[d] = "completed"

AtStepOK ==
    \A d \in Frames : pc[d] \in {"stepping", "dispatched"} =>
        local[d] = executions[running[d]].current_step /\ local[d] < plans[running[d]]

SoleOK == ExactOK /\ AtStepOK

\* Lemma: storing an execution in order.
LEMMA StoreSole ==
    ASSUME Inv, Inv', SoleOK, NEW i \in Ids, NEW x \in Execution, Store(i, x),
           \A e \in Ids \ {i} : plans'[e] = plans[e],
           x.current_step <= plans'[i],
           \A k \in x.results : k < x.current_step,
           x.status = "COMPLETED" =>
              /\ x.current_step = plans'[i]
              /\ \A d \in Frames : running'[d] = i => pc'[d] = "completed",
           \A d \in Frames : running'[d] # i =>
              pc'[d] = pc[d] /\ local'[d] = local[d] /\ running'[d] = running[d],
           \A d \in Frames : running'[d] = i /\ pc'[d] \in {"stepping", "dispatched"} =>
              local'[d] = x.current_step /\ x.current_step < plans'[i]
    PROVE  SoleOK'
<1>1. \A e \in Ids : executions'[e] = IF e = i THEN x ELSE executions[e]
  BY DEF Store, Inv, TypeOK
<1>2. ExactOK'
  <2> SUFFICES ASSUME NEW e \in Ids, executions'[e] # None
               PROVE  /\ executions'[e].current_step <= plans'[e]
                      /\ \A k \in executions'[e].results : k < executions'[e].current_step
                      /\ executions'[e].status = "COMPLETED" =>
                           /\ executions'[e].current_step = plans'[e]
                           /\ \A d \in Frames : running'[d] = e => pc'[d] = "completed"
    BY DEF ExactOK, Status
  <2>1. CASE e = i
    BY <1>1, <2>1
  <2>2. CASE e # i
    BY <1>1, <2>2 DEF SoleOK, ExactOK, Status
  <2> QED BY <2>1, <2>2
<1>3. ASSUME NEW d \in Frames, pc'[d] \in {"stepping", "dispatched"}
      PROVE  local'[d] = executions'[running'[d]].current_step /\ local'[d] < plans'[running'[d]]
  <2>1. CASE running'[d] = i
    BY <1>1, <1>3, <2>1
  <2>2. CASE running'[d] # i
    <3>1. running[d] \in Ids \ {i}
      BY <1>3, <2>2, Runs
    <3> QED BY <1>1, <1>3, <2>2, <3>1 DEF SoleOK, AtStepOK
  <2> QED BY <2>1, <2>2
<1> QED BY <1>2, <1>3 DEF SoleOK, AtStepOK

\* Lemma: a call that moves on without storing anything.
LEMMA MoveSole ==
    ASSUME Inv, SoleOK, NEW d \in Frames, UNCHANGED <<executions, plans>>,
           \A f \in Frames \ {d} : pc'[f] = pc[f] /\ local'[f] = local[f] /\ running'[f] = running[f],
           pc'[d] \in {"stepping", "dispatched"} =>
              local'[d] = executions[running'[d]].current_step /\ local'[d] < plans[running'[d]],
           running'[d] = None \/ (running'[d] = running[d] /\ pc[d] # "completed")
    PROVE  SoleOK'
<1>1. ExactOK'
  BY Bounds DEF SoleOK, ExactOK, Status
<1>2. AtStepOK'
  BY DEF SoleOK, AtStepOK
<1> QED BY <1>1, <1>2 DEF SoleOK

LEMMA SoleStep ==
    ASSUME Inv, Inv', SoleOK, SoleRunner, NEW d \in Frames, Step(d)
    PROVE  SoleOK'
<1>1. /\ executions \in [Ids -> Execution \cup {None}] /\ pc \in [Frames -> Points]
      /\ running \in [Frames -> Ids \cup {None}] /\ local \in [Frames -> Nat \cup {None}]
      /\ plans \in [Ids -> Nat]
  BY DEF Inv, TypeOK
<1> DEFINE e == running[d]
<1>2. /\ pc[d] # "idle" /\ e \in Ids /\ e # None /\ executions[e] \in Execution
      /\ executions[e] # None
  <2>1. pc[d] # "idle"
    BY DEF Step, MarkRunning, EnterLoop, LeaveLoop, Complete, BeginStep, Dispatch, StepSucceeds,
       StepFails, NextStep, Leave, HandlerRaises, At, Publishing, CallingOut
  <2> QED BY <2>1, Runs
<1>3. \A f \in Frames \ {d} : running[f] # e
  BY <1>2 DEF SoleRunner
<1>4. /\ executions[e].current_step \in Nat /\ executions[e].current_step <= plans[e]
      /\ plans[e] \in Nat
      /\ \A k \in executions[e].results : k < executions[e].current_step
  BY <1>1, <1>2 DEF SoleOK, ExactOK, Execution
<1>5. ASSUME NEW x \in Execution, Store(e, x), UNCHANGED <<plans, running, local>>,
             NEW point \in {"announced", "completed", "stepped", "failed"},
             pc' = [pc EXCEPT ![d] = point],
             x.current_step <= plans[e],
             \A k \in x.results : k < x.current_step,
             x.status = "COMPLETED" => x.current_step = plans[e] /\ point = "completed"
      PROVE  SoleOK'
  <2>1. pc'[d] = point /\ \A f \in Frames \ {d} : pc'[f] = pc[f]
    BY <1>1, <1>5
  <2> HIDE DEF e
  <2>2. \A f \in Frames : running'[f] # e =>
           pc'[f] = pc[f] /\ local'[f] = local[f] /\ running'[f] = running[f]
    BY <1>5, <2>1 DEF e
  <2>3. \A f \in Frames : running'[f] = e => f = d
    BY <1>3, <1>5
  <2> QED BY <1>2, <1>5, <2>1, <2>2, <2>3, StoreSole
<1>6. CASE MarkRunning(d)
  <2>1. /\ Announced(e) \in Execution /\ Announced(e).status = "RUNNING"
        /\ Announced(e).current_step = 0 /\ Announced(e).results = {}
    BY DEF Announced, NewExecution, Execution, Statuses
  <2>2. /\ Store(e, Announced(e)) /\ UNCHANGED <<plans, running, local>>
        /\ pc' = [pc EXCEPT ![d] = "announced"]
    BY <1>6 DEF MarkRunning, Goto
  <2> QED BY <1>4, <1>5, <2>1, <2>2
<1>7. CASE Complete(d)
  <2> DEFINE x == [executions[e] EXCEPT !.status = "COMPLETED"]
  <2>1. /\ Store(e, x) /\ UNCHANGED <<plans, running, local>>
        /\ pc' = [pc EXCEPT ![d] = "completed"] /\ executions[e].current_step >= plans[e]
    BY <1>7 DEF Complete, Goto
  <2>2. x \in Execution /\ x.current_step = executions[e].current_step
        /\ x.results = executions[e].results
    BY <1>2 DEF Execution, Statuses
  <2> HIDE DEF x
  <2> QED BY <1>4, <1>5, <2>1, <2>2
<1>8. CASE StepFails(d)
  <2> DEFINE x == [executions[e] EXCEPT !.status = "FAILED"]
  <2>1. /\ Store(e, x) /\ UNCHANGED <<plans, running, local>> /\ pc' = [pc EXCEPT ![d] = "failed"]
    BY <1>8 DEF StepFails, Goto
  <2>2. x \in Execution /\ x.current_step = executions[e].current_step
        /\ x.results = executions[e].results /\ x.status = "FAILED"
    BY <1>2 DEF Execution, Statuses
  <2> HIDE DEF x
  <2> QED BY <1>4, <1>5, <2>1, <2>2
<1>9. CASE StepSucceeds(d)
  <2> DEFINE x == Advanced(executions[e], local[d])
  <2>1. /\ pc[d] = "dispatched" /\ Store(e, x) /\ UNCHANGED <<plans, running, local>>
        /\ pc' = [pc EXCEPT ![d] = "stepped"]
    BY <1>9 DEF StepSucceeds, At, Goto
  <2>2. local[d] = executions[e].current_step /\ local[d] < plans[e]
    BY <2>1 DEF SoleOK, AtStepOK
  <2>3. /\ x \in Execution /\ x.current_step = local[d] + 1 /\ x.status = executions[e].status
        /\ x.results = executions[e].results \cup {local[d]}
    BY <1>2, <1>4, <2>2, AdvancedType
  <2>4. x.status # "COMPLETED"
    BY <1>2, <2>1, <2>3 DEF SoleOK, ExactOK, Status
  <2>5. \A k \in x.results : k < x.current_step
    BY <1>2, <1>4, <2>2, <2>3 DEF Execution
  <2>6. x.current_step <= plans[e]
    BY <1>4, <2>2, <2>3
  <2> HIDE DEF x
  <2> QED BY <1>5, <2>1, <2>3, <2>4, <2>5, <2>6
<1>10. CASE BeginStep(d)
  <2>1. /\ UNCHANGED <<executions, plans, running>> /\ pc[d] = "loop"
        /\ local'[d] = executions[e].current_step /\ executions[e].current_step < plans[e]
        /\ \A f \in Frames \ {d} : pc'[f] = pc[f] /\ local'[f] = local[f]
    BY <1>1, <1>10 DEF BeginStep, Goto, At
  <2> QED BY <2>1, MoveSole
<1>11. CASE Dispatch(d)
  <2>1. /\ UNCHANGED <<executions, plans, running, local>> /\ pc[d] = "stepping"
        /\ \A f \in Frames \ {d} : pc'[f] = pc[f]
    BY <1>1, <1>11 DEF Dispatch, Goto, At
  <2> QED BY <2>1, MoveSole DEF SoleOK, AtStepOK
<1>12. CASE EnterLoop(d) \/ NextStep(d)
  <2>1. /\ UNCHANGED <<executions, plans, running>> /\ pc'[d] = "loop" /\ pc[d] # "completed"
        /\ \A f \in Frames \ {d} : pc'[f] = pc[f] /\ local'[f] = local[f]
    BY <1>1, <1>12 DEF EnterLoop, NextStep, Goto, At
  <2> QED BY <2>1, MoveSole
<1>13. CASE LeaveLoop(d) \/ Leave(d) \/ HandlerRaises(d)
  <2>1. /\ UNCHANGED <<executions, plans>> /\ pc'[d] = "idle" /\ running'[d] = None
        /\ \A f \in Frames \ {d} : pc'[f] = pc[f] /\ local'[f] = local[f] /\ running'[f] = running[f]
    BY <1>1, <1>13 DEF LeaveLoop, Leave, HandlerRaises, Return
  <2> QED BY <2>1, MoveSole
<1> QED BY <1>6, <1>7, <1>8, <1>9, <1>10, <1>11, <1>12, <1>13 DEF Step

LEMMA SoleNext == ASSUME Inv, Inv', SoleOK, SoleRunner, [Next]_vars PROVE SoleOK'
<1>1. /\ executions \in [Ids -> Execution \cup {None}] /\ pc \in [Frames -> Points]
      /\ running \in [Frames -> Ids \cup {None}] /\ plans \in [Ids -> Nat] /\ created \in Nat
  BY Bounds DEF Inv, TypeOK
<1>2. CASE Environment \/ UNCHANGED vars
  <2>1. UNCHANGED <<executions, plans, running, pc, local>>
    BY <1>2 DEF Environment, Initialize, Start, Stop, SetState, EditPlan, ValidatePlan,
       vars, frameVars
  <2> QED BY <2>1 DEF SoleOK, ExactOK, AtStepOK, Status
<1>3. ASSUME NEW d \in Frames, StartExecution(d)
      PROVE  SoleOK'
  <2> DEFINE new == created + 1
  <2>1. /\ new \in Ids /\ Store(new, NewExecution) /\ pc[d] = "idle" /\ local' = local
        /\ running' = [running EXCEPT ![d] = new] /\ pc' = [pc EXCEPT ![d] = "created"]
        /\ plans' = [plans EXCEPT ![new] = plan.steps] /\ plan.steps \in Nat
    BY <1>3, Bounds DEF StartExecution, Goto, Opens, Inv, TypeOK, Ids, Frames
  <2>2. /\ NewExecution \in Execution /\ NewExecution.status = "CREATED"
        /\ NewExecution.current_step = 0 /\ NewExecution.results = {}
    BY DEF NewExecution, Execution, Statuses
  <2>3. \A f \in Frames : running[f] # new
    BY <1>1, <2>1, Bounds DEF Inv, FrameOK
  <2>4. /\ running'[d] = new /\ pc'[d] = "created" /\ plans'[new] = plan.steps
        /\ \A f \in Frames \ {d} : running'[f] = running[f] /\ pc'[f] = pc[f]
        /\ \A e \in Ids \ {new} : plans'[e] = plans[e]
    BY <1>1, <2>1
  <2> HIDE DEF new
  <2> QED BY <2>1, <2>2, <2>3, <2>4, StoreSole
<1>4. ASSUME NEW i \in Ids, NEW x \in Execution, executions[i] # None, Store(i, x), plans' = plans,
             x.current_step = executions[i].current_step, x.results = executions[i].results,
             x.status # "COMPLETED", local' = local,
             \A d \in Frames : \/ pc'[d] = pc[d] /\ running'[d] = running[d]
                               \/ running'[d] = i /\ pc'[d] = "loop"
      PROVE  SoleOK'
  <2>1. /\ x.current_step <= plans[i] /\ \A k \in x.results : k < x.current_step
        /\ \A d \in Frames : pc[d] \in {"stepping", "dispatched"} /\ running[d] = i =>
              local[d] = x.current_step /\ local[d] < plans[i]
    BY <1>4 DEF SoleOK, ExactOK, AtStepOK
  <2>2. \A d \in Frames : running'[d] = i /\ pc'[d] \in {"stepping", "dispatched"} =>
           local'[d] = x.current_step /\ x.current_step < plans'[i]
    BY <1>4, <2>1
  <2>3. \A d \in Frames : running'[d] # i =>
           pc'[d] = pc[d] /\ local'[d] = local[d] /\ running'[d] = running[d]
    BY <1>4
  <2> QED BY <1>4, <2>1, <2>2, <2>3, StoreSole
<1>5. ASSUME NEW i \in Ids, NEW s \in Statuses \ {"COMPLETED"}, executions[i] # None,
             Store(i, [executions[i] EXCEPT !.status = s]), plans' = plans, local' = local,
             \A d \in Frames : \/ pc'[d] = pc[d] /\ running'[d] = running[d]
                               \/ running'[d] = i /\ pc'[d] = "loop"
      PROVE  SoleOK'
  <2> DEFINE x == [executions[i] EXCEPT !.status = s]
  <2>1. /\ x \in Execution /\ x.current_step = executions[i].current_step
        /\ x.results = executions[i].results /\ x.status = s
    BY <1>1, <1>5 DEF Execution, Statuses
  <2>2. Store(i, x)
    BY <1>5
  <2> HIDE DEF x
  <2> QED BY <1>4, <1>5, <2>1, <2>2
<1>6. ASSUME NEW d \in Frames, NEW i \in Ids, ResumeExecution(d, i)
      PROVE  SoleOK'
  <2>1. /\ Store(i, [executions[i] EXCEPT !.status = "RUNNING"]) /\ executions[i] # None
        /\ running' = [running EXCEPT ![d] = i] /\ pc' = [pc EXCEPT ![d] = "loop"]
        /\ UNCHANGED <<plans, local>>
    BY <1>6 DEF ResumeExecution, Goto, Started
  <2>2. \A f \in Frames : \/ pc'[f] = pc[f] /\ running'[f] = running[f]
                          \/ running'[f] = i /\ pc'[f] = "loop"
    BY <1>1, <2>1
  <2> QED BY <1>5, <2>1, <2>2 DEF Statuses
<1>7. ASSUME NEW i \in Ids, PauseExecution(i)
      PROVE  SoleOK'
  BY <1>5, <1>7 DEF PauseExecution, Started, frameVars, Statuses
<1>8. ASSUME NEW i \in Ids, CancelExecution(i)
      PROVE  SoleOK'
  BY <1>5, <1>8 DEF CancelExecution, Started, frameVars, Statuses
<1> QED BY <1>2, <1>3, <1>6, <1>7, <1>8, SoleStep DEF Next, Control

LEMMA SoleHolds == Spec /\ []SoleRunner => []SoleOK
<1>1. Init => SoleOK
  BY DEF Init, SoleOK, ExactOK, AtStepOK
<1>2. Inv /\ Inv' /\ SoleOK /\ SoleRunner /\ [Next]_vars => SoleOK'
  BY SoleNext
<1> QED BY <1>1, <1>2, Invariance, PTL DEF Spec

\* Theorem: as long as no execution is run by two calls at once, a COMPLETED execution
\* has no next step, whatever else host code starts, pauses, resumes and cancels.
THEOREM CompletedHasNoNext == Spec /\ []SoleRunner => []CompletedIsAtEnd
<1>1. SoleOK => CompletedIsAtEnd
  BY DEF SoleOK, ExactOK, CompletedIsAtEnd, Started
<1> QED BY <1>1, SoleHolds, PTL

\* Theorem: and no step is dispatched twice.
THEOREM StepsAreNotRepeated == Spec /\ []SoleRunner => StepsRunOnce
<1> DEFINE Once == \A d \in Frames : pc[d] = "stepping" /\ pc'[d] = "dispatched" =>
                      local[d] \notin executions[running[d]].results
<1>1. Inv /\ SoleOK => Once
  <2> SUFFICES ASSUME Inv, SoleOK, NEW d \in Frames, pc[d] = "stepping",
                      local[d] \in executions[running[d]].results
               PROVE  FALSE
    OBVIOUS
  <2>1. running[d] \in Ids /\ executions[running[d]] # None
    BY Runs
  <2>2. local[d] = executions[running[d]].current_step /\ local[d] \in Nat
    BY DEF SoleOK, AtStepOK, Inv, FrameOK
  <2> QED BY <2>1, <2>2 DEF SoleOK, ExactOK
<1>2. Spec /\ []SoleRunner => [][Once]_vars
  <2>1. Spec /\ []SoleRunner => []Inv /\ []SoleOK
    BY Invariance, SoleHolds, PTL
  <2> QED BY <1>1, <2>1, PTL
<1> QED BY <1>2 DEF StepsRunOnce

\* Lemma: the hypothesis holds when host code resumes nothing from inside.
LEMMA SoleByHost == ASSUME "resume" \notin HostCalls PROVE Spec => []SoleRunner
<1>1. Init => SoleRunner
  BY DEF Init, SoleRunner
<1>2. Inv /\ SoleRunner /\ [Next]_vars => SoleRunner'
  <2> SUFFICES ASSUME Inv, SoleRunner, [Next]_vars PROVE SoleRunner'
    OBVIOUS
  <2>1. running \in [Frames -> Ids \cup {None}] /\ created \in Nat
    BY Bounds DEF Inv, TypeOK
  <2>2. ASSUME NEW d \in Frames, NEW e, running' = [running EXCEPT ![d] = e],
               e = None \/ \A f \in Frames : running[f] # e
        PROVE  SoleRunner'
    BY <2>1, <2>2 DEF SoleRunner
  <2>3. ASSUME NEW d \in Frames, StartExecution(d)
        PROVE  SoleRunner'
    <3>1. \A f \in Frames : running[f] # created + 1
      BY <2>1, NoneAssumption DEF Inv, FrameOK
    <3> QED BY <2>2, <2>3, <3>1 DEF StartExecution
  <2>4. ASSUME NEW d \in Frames, NEW e \in Ids, ResumeExecution(d, e)
        PROVE  SoleRunner'
    <3>1. Idle
      BY <2>4 DEF ResumeExecution, MayCall
    <3>2. \A f \in Frames : running[f] # e
      BY <3>1, Bounds DEF Idle, Inv, FrameOK
    <3> QED BY <2>2, <2>4, <3>2 DEF ResumeExecution
  <2>5. ASSUME NEW d \in Frames, LeaveLoop(d) \/ Leave(d) \/ HandlerRaises(d)
        PROVE  SoleRunner'
    BY <2>2, <2>5 DEF LeaveLoop, Leave, HandlerRaises, Return
  <2>6. CASE UNCHANGED running
    BY <2>6 DEF SoleRunner
  <2>7. ASSUME NEW d \in Frames, Step(d), ~ (LeaveLoop(d) \/ Leave(d) \/ HandlerRaises(d))
        PROVE  UNCHANGED running
    BY <2>7 DEF Step, MarkRunning, EnterLoop, Complete, BeginStep, Dispatch, StepSucceeds,
       StepFails, NextStep
  <2>8. Environment \/ UNCHANGED vars \/ (\E e \in Ids : PauseExecution(e) \/ CancelExecution(e))
          => UNCHANGED running
    BY DEF Environment, Initialize, Start, Stop, SetState, EditPlan, ValidatePlan,
       PauseExecution, CancelExecution, vars, frameVars
  <2> QED BY <2>3, <2>4, <2>5, <2>6, <2>7, <2>8 DEF Next, Control
<1> QED BY <1>1, <1>2, Invariance, PTL DEF Spec

-----------------------------------------------------------------------------
(* The life of an execution *)

\* What it means for host code neither to resume nor to cancel: a start that has not
\* been announced is as it was created, and a step fails while it may.
LifeOK ==
    /\ plan.steps \in 0 .. MaxSteps
    /\ \A d \in Frames :
         /\ pc[d] = "created" => executions[running[d]] = NewExecution
         /\ pc[d] \in {"stepping", "dispatched"} => Status(running[d]) \in {"RUNNING", "PAUSED"}

HostIsTame == HostCalls \subseteq {"start", "pause"}

\* Lemma: storing an execution that no other call knows of.
LEMMA StoreLife ==
    ASSUME Inv, Inv', LifeOK, NEW i \in Ids, NEW x, Store(i, x), plan' = plan,
           \A d \in Frames :
              \/ pc'[d] = pc[d] /\ running'[d] = running[d] /\ running[d] # i
              \/ /\ running'[d] = i
                 /\ pc'[d] = "created" => x = NewExecution
                 /\ pc'[d] \in {"stepping", "dispatched"} => x.status \in {"RUNNING", "PAUSED"}
    PROVE  LifeOK'
<1>1. \A e \in Ids : executions'[e] = IF e = i THEN x ELSE executions[e]
  BY DEF Store, Inv, TypeOK
<1>2. ASSUME NEW d \in Frames
      PROVE  /\ pc'[d] = "created" => executions'[running'[d]] = NewExecution
             /\ pc'[d] \in {"stepping", "dispatched"} =>
                   executions'[running'[d]].status \in {"RUNNING", "PAUSED"}
  <2>1. CASE running'[d] = i
    BY <1>1, <2>1
  <2>2. CASE pc'[d] = pc[d] /\ running'[d] = running[d] /\ running[d] # i
    <3>1. pc[d] # "idle" => running[d] \in Ids
      BY Runs
    <3> QED BY <1>1, <2>2, <3>1 DEF LifeOK, Status
  <2> QED BY <2>1, <2>2
<1> QED BY <1>2 DEF LifeOK, Status

LEMMA LifeStep ==
    ASSUME Inv, Inv', LifeOK, SoleRunner, NEW d \in Frames, Step(d)
    PROVE  LifeOK'
<1>1. /\ executions \in [Ids -> Execution \cup {None}] /\ pc \in [Frames -> Points]
      /\ running \in [Frames -> Ids \cup {None}]
  BY DEF Inv, TypeOK
<1> DEFINE e == running[d]
<1>2. pc[d] # "idle" /\ e \in Ids /\ e # None
  <2>1. pc[d] # "idle"
    BY DEF Step, MarkRunning, EnterLoop, LeaveLoop, Complete, BeginStep, Dispatch, StepSucceeds,
       StepFails, NextStep, Leave, HandlerRaises, At, Publishing, CallingOut
  <2> QED BY <2>1, Runs
<1>3. \A f \in Frames \ {d} : running[f] # e
  BY <1>2 DEF SoleRunner
<1>4. ASSUME NEW x, Store(e, x), UNCHANGED <<plan, running>>,
             NEW point \in {"announced", "completed", "stepped", "failed"},
             pc' = [pc EXCEPT ![d] = point]
      PROVE  LifeOK'
  <2>1. pc'[d] = point /\ \A f \in Frames \ {d} : pc'[f] = pc[f]
    BY <1>1, <1>4
  <2> QED BY <1>2, <1>3, <1>4, <2>1, StoreLife
<1>5. CASE MarkRunning(d) \/ Complete(d) \/ StepSucceeds(d) \/ StepFails(d)
  BY <1>4, <1>5 DEF MarkRunning, Complete, StepSucceeds, StepFails, Goto
<1>6. CASE BeginStep(d) \/ Dispatch(d)
  <2>1. /\ UNCHANGED <<executions, running, plan>> /\ pc'[d] \in {"stepping", "dispatched"}
        /\ pc[d] \in {"loop", "stepping"} /\ (pc[d] = "loop" => Status(e) = "RUNNING")
        /\ \A f \in Frames \ {d} : pc'[f] = pc[f]
    BY <1>1, <1>6 DEF BeginStep, Dispatch, Goto, At
  <2> QED BY <2>1 DEF LifeOK, Status
<1>7. CASE EnterLoop(d) \/ NextStep(d)
  <2>1. /\ UNCHANGED <<executions, running, plan>> /\ pc'[d] = "loop"
        /\ \A f \in Frames \ {d} : pc'[f] = pc[f]
    BY <1>1, <1>7 DEF EnterLoop, NextStep, Goto, At
  <2> QED BY <2>1 DEF LifeOK, Status
<1>8. CASE LeaveLoop(d) \/ Leave(d) \/ HandlerRaises(d)
  <2>1. /\ UNCHANGED <<executions, plan>> /\ pc'[d] = "idle"
        /\ \A f \in Frames \ {d} : pc'[f] = pc[f] /\ running'[f] = running[f]
    BY <1>1, <1>8 DEF LeaveLoop, Leave, HandlerRaises, Return
  <2> QED BY <2>1 DEF LifeOK, Status
<1> QED BY <1>5, <1>6, <1>7, <1>8 DEF Step

LEMMA LifeNext == ASSUME Inv, Inv', LifeOK, SoleRunner, HostIsTame, [Next]_vars PROVE LifeOK'
<1>1. /\ executions \in [Ids -> Execution \cup {None}] /\ pc \in [Frames -> Points]
      /\ running \in [Frames -> Ids \cup {None}] /\ created \in Nat
  BY Bounds DEF Inv, TypeOK
<1>2. CASE Environment \/ UNCHANGED vars
  <2>1. UNCHANGED <<executions, running, pc>>
    BY <1>2 DEF Environment, Initialize, Start, Stop, SetState, EditPlan, ValidatePlan,
       vars, frameVars
  <2>2. plan'.steps \in 0 .. MaxSteps
    <3>1. CASE EditPlan
      BY <3>1 DEF EditPlan
    <3>2. CASE ValidatePlan
      BY <3>2 DEF ValidatePlan, LifeOK, Inv, TypeOK
    <3>3. CASE UNCHANGED plan
      BY <3>3 DEF LifeOK
    <3> QED BY <1>2, <3>1, <3>2, <3>3 DEF Environment, Initialize, Start, Stop, SetState, vars
  <2> QED BY <2>1, <2>2 DEF LifeOK, Status
<1>3. ASSUME NEW d \in Frames, StartExecution(d)
      PROVE  LifeOK'
  <2> DEFINE new == created + 1
  <2>1. /\ new \in Ids /\ Store(new, NewExecution) /\ plan' = plan
        /\ running' = [running EXCEPT ![d] = new] /\ pc' = [pc EXCEPT ![d] = "created"]
    BY <1>3, Bounds DEF StartExecution, Goto, Inv, TypeOK, Ids
  <2>2. \A f \in Frames : running[f] # new
    BY <1>1, <2>1, Bounds DEF Inv, FrameOK
  <2>3. /\ running'[d] = new /\ pc'[d] = "created"
        /\ \A f \in Frames \ {d} : running'[f] = running[f] /\ pc'[f] = pc[f]
    BY <1>1, <2>1
  <2> HIDE DEF new
  <2> QED BY <2>1, <2>2, <2>3, StoreLife
<1>4. ASSUME NEW d \in Frames, NEW i \in Ids, ResumeExecution(d, i)
      PROVE  LifeOK'
  <2>1. /\ \E x : Store(i, x)
        /\ running' = [running EXCEPT ![d] = i] /\ pc' = [pc EXCEPT ![d] = "loop"] /\ plan' = plan
        /\ Idle
    BY <1>4 DEF ResumeExecution, Goto, MayCall, HostIsTame
  <2>2. \A f \in Frames : running[f] # i
    BY <2>1, Bounds DEF Idle, Inv, FrameOK
  <2>3. /\ running'[d] = i /\ pc'[d] = "loop"
        /\ \A f \in Frames \ {d} : running'[f] = running[f] /\ pc'[f] = pc[f]
    BY <1>1, <2>1
  <2> QED BY <2>1, <2>2, <2>3, StoreLife
<1>5. ASSUME NEW i \in Ids, PauseExecution(i)
      PROVE  LifeOK'
  <2> DEFINE x == [executions[i] EXCEPT !.status = "PAUSED"]
  <2>1. /\ Store(i, x) /\ UNCHANGED <<plan, pc, running>>
        /\ executions[i] \in Execution /\ Status(i) = "RUNNING"
    BY <1>1, <1>5 DEF PauseExecution, Started, frameVars
  <2>2. x.status = "PAUSED"
    BY <2>1 DEF Execution
  <2>3. \A f \in Frames : running[f] = i => pc[f] # "created"
    BY <2>1 DEF Inv, FrameOK
  <2> HIDE DEF x
  <2> QED BY <2>1, <2>2, <2>3, StoreLife
<1>6. ASSUME NEW i \in Ids, CancelExecution(i)
      PROVE  LifeOK'
  <2>1. \A f \in Frames : pc[f] = "idle"
    BY <1>6 DEF CancelExecution, MayCall, HostIsTame, Idle
  <2>2. UNCHANGED <<plan, pc, running>>
    BY <1>6 DEF CancelExecution, frameVars
  <2> QED BY <2>1, <2>2 DEF LifeOK
<1> QED BY <1>2, <1>3, <1>4, <1>5, <1>6, LifeStep DEF Next, Control

\* What the life of an execution is made of, in terms of the runtime.
LStatus == [e \in Ids |-> IF executions[e] = None THEN None ELSE Status(e)]
LDone == [e \in Ids |-> IF executions[e] = None THEN 0 ELSE executions[e].current_step]
LBusy == [e \in Ids |-> Busy(e)]

\* Lemma: so a step that leaves these alone is a stutter.
LEMMA LifeStutters ==
    ASSUME UNCHANGED <<LStatus, plans, LDone, LBusy>>
    PROVE  UNCHANGED Lifecycle!vars
  BY DEF Lifecycle!vars, LStatus, LDone, LBusy

\* Lemma: and one that changes them for one execution is a step of its life.
LEMMA LifeMoves ==
    ASSUME NEW e \in Ids
    PROVE  /\ /\ LStatus[e] = None /\ LStatus' = [LStatus EXCEPT ![e] = "CREATED"]
              /\ \E n \in 0 .. MaxSteps : plans' = [plans EXCEPT ![e] = n]
              /\ UNCHANGED <<LDone, LBusy>>
              => Lifecycle!Create(e)
           /\ /\ LStatus[e] \in {"CREATED", "PAUSED"} /\ LStatus' = [LStatus EXCEPT ![e] = "RUNNING"]
              /\ UNCHANGED <<plans, LDone, LBusy>>
              => Lifecycle!Run(e)
           /\ /\ LStatus[e] = "RUNNING" /\ LStatus' = [LStatus EXCEPT ![e] = "PAUSED"]
              /\ UNCHANGED <<plans, LDone, LBusy>>
              => Lifecycle!Pause(e)
           /\ /\ LStatus[e] \in {"CREATED", "RUNNING", "PAUSED"}
              /\ LStatus' = [LStatus EXCEPT ![e] = "CANCELLED"]
              /\ UNCHANGED <<plans, LDone, LBusy>>
              => Lifecycle!Cancel(e)
  BY DEF Lifecycle!Create, Lifecycle!Run, Lifecycle!Pause, Lifecycle!Cancel, Lifecycle!Become,
         LStatus, LDone, LBusy

LEMMA LifeMoves2 ==
    ASSUME NEW e \in Ids
    PROVE  /\ /\ LStatus[e] = "RUNNING" /\ ~ LBusy[e] /\ LDone[e] < plans[e]
              /\ LBusy' = [LBusy EXCEPT ![e] = TRUE]
              /\ UNCHANGED <<LStatus, plans, LDone>>
              => Lifecycle!BeginStep(e)
           /\ /\ LBusy[e] /\ LBusy' = [LBusy EXCEPT ![e] = FALSE]
              /\ LDone' = [LDone EXCEPT ![e] = @ + 1] /\ UNCHANGED <<LStatus, plans>>
              => Lifecycle!EndStep(e)
           /\ /\ LBusy[e] /\ LStatus[e] \in {"RUNNING", "PAUSED"}
              /\ LStatus' = [LStatus EXCEPT ![e] = "FAILED"]
              /\ LBusy' = [LBusy EXCEPT ![e] = FALSE] /\ UNCHANGED <<plans, LDone>>
              => Lifecycle!FailStep(e)
           /\ /\ LBusy[e] /\ LBusy' = [LBusy EXCEPT ![e] = FALSE]
              /\ UNCHANGED <<LStatus, plans, LDone>>
              => Lifecycle!AbandonStep(e)
           /\ /\ ~ LBusy[e] /\ LDone[e] = plans[e] /\ LStatus[e] = "RUNNING"
              /\ LStatus' = [LStatus EXCEPT ![e] = "COMPLETED"]
              /\ UNCHANGED <<plans, LDone, LBusy>>
              => Lifecycle!Complete(e)
  BY DEF Lifecycle!BeginStep, Lifecycle!EndStep, Lifecycle!FailStep, Lifecycle!AbandonStep,
         Lifecycle!Complete, Lifecycle!Become, LStatus, LDone, LBusy

\* Lemma: what storing an execution means for its life.
LEMMA StoreMaps ==
    ASSUME Inv, NEW i \in Ids, NEW x \in Execution, Store(i, x)
    PROVE  /\ LStatus' = [LStatus EXCEPT ![i] = x.status]
           /\ LDone' = [LDone EXCEPT ![i] = x.current_step]
<1>1. \A e \in Ids : executions'[e] = IF e = i THEN x ELSE executions[e]
  BY DEF Store, Inv, TypeOK
<1>2. x # None
  BY NoneAssumption
<1>3. \A e \in Ids : LStatus'[e] = IF e = i THEN x.status ELSE LStatus[e]
  BY <1>1, <1>2 DEF LStatus, Status
<1>4. \A e \in Ids : LDone'[e] = IF e = i THEN x.current_step ELSE LDone[e]
  BY <1>1, <1>2 DEF LDone
<1>5. LStatus' = [LStatus EXCEPT ![i] = x.status]
  BY <1>3 DEF LStatus
<1>6. LDone' = [LDone EXCEPT ![i] = x.current_step]
  BY <1>4 DEF LDone
<1> QED BY <1>5, <1>6

\* Lemma: and what a move of its call.
InStep(point) == point \in {"stepping", "dispatched"}

\* Lemma: the points at which a call is in a step.
LEMMA InStepPoints ==
    /\ InStep("stepping") /\ InStep("dispatched")
    /\ ~ InStep("idle") /\ ~ InStep("created") /\ ~ InStep("announced") /\ ~ InStep("loop")
    /\ ~ InStep("stepped") /\ ~ InStep("failed") /\ ~ InStep("completed")
  BY DEF InStep

\* Lemma: a call that moves takes its execution into a step, or out of it.
LEMMA MoveMaps ==
    ASSUME Inv, SoleRunner, NEW d \in Frames, pc[d] # "idle", NEW point,
           pc'[d] = point, running'[d] = running[d] \/ ~ InStep(point),
           \A f \in Frames \ {d} : pc'[f] = pc[f] /\ running'[f] = running[f]
    PROVE  /\ LBusy[running[d]] <=> InStep(pc[d])
           /\ InStep(point) => LBusy' = [LBusy EXCEPT ![running[d]] = TRUE]
           /\ ~ InStep(point) => LBusy' = [LBusy EXCEPT ![running[d]] = FALSE]
           /\ (InStep(point) <=> InStep(pc[d])) => LBusy' = LBusy
<1>1. PICK i \in Ids : i = running[d] /\ i # None /\ \A f \in Frames \ {d} : running[f] # i
  BY Runs DEF SoleRunner
<1>2. Busy(i) <=> InStep(pc[d])
  BY <1>1 DEF Busy, InStep
<1>3. Busy(i)' <=> InStep(point)
  <2>1. ASSUME Busy(i)'
        PROVE  InStep(point)
    <3>1. PICK f \in Frames : running'[f] = i /\ pc'[f] \in {"stepping", "dispatched"}
      BY <2>1 DEF Busy
    <3>2. f = d
      BY <1>1, <3>1
    <3> QED BY <3>1, <3>2 DEF InStep
  <2>2. ASSUME InStep(point)
        PROVE  Busy(i)'
    <3>1. running'[d] = i /\ pc'[d] \in {"stepping", "dispatched"}
      BY <1>1, <2>2 DEF InStep
    <3> QED BY <3>1 DEF Busy
  <2> QED BY <2>1, <2>2
<1>4. \A e \in Ids \ {i} : Busy(e)' <=> Busy(e)
  BY <1>1 DEF Busy, InStep
<1>5. /\ \A e \in Ids : LBusy[e] = Busy(e) /\ LBusy'[e] = Busy(e)'
      /\ LBusy[i] = Busy(i) /\ LBusy'[i] = Busy(i)'
  BY <1>1 DEF LBusy
<1>6. /\ \A e \in Ids : Busy(e) \in BOOLEAN /\ Busy(e)' \in BOOLEAN
      /\ Busy(i) \in BOOLEAN /\ Busy(i)' \in BOOLEAN
  BY DEF Busy
<1>7. \A e \in Ids \ {i} : LBusy'[e] = LBusy[e]
  BY <1>4, <1>5, <1>6
<1>8. /\ LBusy = [e \in Ids |-> LBusy[e]] /\ LBusy' = [e \in Ids |-> LBusy'[e]]
  BY DEF LBusy
<1>9. InStep(point) => LBusy'[i] = TRUE
  <2>1. InStep(point) => Busy(i)' = TRUE
    BY <1>3, <1>6
  <2> QED BY <1>5, <2>1
<1>10. ~ InStep(point) => LBusy'[i] = FALSE
  <2>1. ~ InStep(point) => Busy(i)' = FALSE
    BY <1>3, <1>6
  <2> QED BY <1>5, <2>1
<1>11. (InStep(point) <=> InStep(pc[d])) => LBusy'[i] = LBusy[i]
  <2>1. (InStep(point) <=> InStep(pc[d])) => Busy(i)' = Busy(i)
    BY <1>2, <1>3, <1>6
  <2> QED BY <1>5, <2>1
<1>12. InStep(point) => LBusy' = [LBusy EXCEPT ![i] = TRUE]
  BY <1>1, <1>7, <1>8, <1>9
<1>13. ~ InStep(point) => LBusy' = [LBusy EXCEPT ![i] = FALSE]
  BY <1>1, <1>7, <1>8, <1>10
<1>14. (InStep(point) <=> InStep(pc[d])) => LBusy' = LBusy
  BY <1>1, <1>7, <1>8, <1>11
<1> QED BY <1>1, <1>2, <1>5, <1>12, <1>13, <1>14

\* Lemma: every step of a call is a step of the life of its execution, or a stutter.
LEMMA StepLives ==
    ASSUME Inv, SoleOK, SoleRunner, LifeOK, NEW d \in Frames, Step(d)
    PROVE  [Lifecycle!Next]_(Lifecycle!vars)
<1>1. /\ executions \in [Ids -> Execution \cup {None}] /\ pc \in [Frames -> Points]
      /\ running \in [Frames -> Ids \cup {None}] /\ local \in [Frames -> Nat \cup {None}]
      /\ plans \in [Ids -> Nat]
  BY DEF Inv, TypeOK
<1>0. pc[d] # "idle"
  BY DEF Step, MarkRunning, EnterLoop, LeaveLoop, Complete, BeginStep, Dispatch, StepSucceeds,
     StepFails, NextStep, Leave, HandlerRaises, At, Publishing, CallingOut
<1>2. PICK e \in Ids : /\ e = running[d] /\ e # None
                      /\ executions[e] \in Execution /\ executions[e] # None
  BY <1>0, Runs
<1>3. /\ LStatus[e] = Status(e) /\ LDone[e] = executions[e].current_step
  BY <1>2 DEF LStatus, LDone
<1>4. ASSUME NEW point, pc' = [pc EXCEPT ![d] = point],
             running' = running \/ (running' = [running EXCEPT ![d] = None] /\ ~ InStep(point))
      PROVE  /\ LBusy[e] <=> InStep(pc[d])
             /\ InStep(point) => LBusy' = [LBusy EXCEPT ![e] = TRUE]
             /\ ~ InStep(point) => LBusy' = [LBusy EXCEPT ![e] = FALSE]
             /\ (InStep(point) <=> InStep(pc[d])) => LBusy' = LBusy
  <2>1. /\ pc'[d] = point /\ (running'[d] = running[d] \/ ~ InStep(point))
        /\ \A f \in Frames \ {d} : pc'[f] = pc[f] /\ running'[f] = running[f]
    BY <1>1, <1>4
  <2> QED BY <1>0, <1>2, <2>1, MoveMaps
<1>5. CASE EnterLoop(d) \/ NextStep(d) \/ Dispatch(d) \/ LeaveLoop(d) \/ Leave(d)
  <2>1. UNCHANGED <<LStatus, LDone, plans>>
    BY <1>5 DEF EnterLoop, NextStep, Dispatch, LeaveLoop, Leave, LStatus, LDone, Status
  <2>2. CASE Dispatch(d)
    <3>1. pc[d] = "stepping" /\ pc' = [pc EXCEPT ![d] = "dispatched"] /\ running' = running
      BY <2>2 DEF Dispatch, Goto, At
    <3>2. LBusy' = LBusy
      BY <1>4, <3>1, InStepPoints
    <3> QED BY <2>1, <3>2, LifeStutters
  <2>3. CASE EnterLoop(d) \/ NextStep(d)
    <3>1. /\ pc[d] = "announced" \/ pc[d] = "stepped"
          /\ pc' = [pc EXCEPT ![d] = "loop"] /\ running' = running
      BY <2>3 DEF EnterLoop, NextStep, Goto, At
    <3>2. ~ InStep(pc[d])
      BY <3>1, InStepPoints
    <3>3. LBusy' = LBusy
      BY <1>4, <3>1, <3>2, InStepPoints
    <3> QED BY <2>1, <3>3, LifeStutters
  <2>4. CASE LeaveLoop(d) \/ Leave(d)
    <3>1. /\ pc[d] = "loop" \/ pc[d] = "completed" \/ pc[d] = "failed"
          /\ pc' = [pc EXCEPT ![d] = "idle"] /\ running' = [running EXCEPT ![d] = None]
      BY <2>4 DEF LeaveLoop, Leave, Return, At
    <3>2. ~ InStep(pc[d])
      BY <3>1, InStepPoints
    <3>3. LBusy' = LBusy
      BY <1>4, <3>1, <3>2, InStepPoints
    <3> QED BY <2>1, <3>3, LifeStutters
  <2> QED BY <1>5, <2>2, <2>3, <2>4
<1>6. CASE HandlerRaises(d)
  <2>1. /\ pc' = [pc EXCEPT ![d] = "idle"] /\ running' = [running EXCEPT ![d] = None]
        /\ UNCHANGED <<executions, plans>>
    BY <1>6 DEF HandlerRaises, Return
  <2>2. UNCHANGED <<LStatus, LDone, plans>>
    BY <2>1 DEF LStatus, LDone, Status
  <2>3. ~ InStep("idle")
    BY InStepPoints
  <2>4. CASE InStep(pc[d])
    <3>1. Lifecycle!AbandonStep(e)
      BY <1>2, <1>4, <2>1, <2>2, <2>3, <2>4, LifeMoves2
    <3> QED BY <1>2, <3>1 DEF Lifecycle!Next
  <2>5. CASE ~ InStep(pc[d])
    BY <1>4, <2>1, <2>2, <2>3, <2>5, LifeStutters
  <2> QED BY <2>4, <2>5
<1>7. CASE MarkRunning(d)
  <2>1. /\ pc[d] = "created" /\ Store(e, Announced(e)) /\ pc' = [pc EXCEPT ![d] = "announced"]
        /\ UNCHANGED <<plans, running>>
    BY <1>2, <1>7 DEF MarkRunning, Goto, At
  <2>2. /\ Announced(e) \in Execution /\ Announced(e).status = "RUNNING"
        /\ Announced(e).current_step = 0
    BY DEF Announced, NewExecution, Execution, Statuses
  <2>3. executions[e] = NewExecution
    BY <1>2, <2>1 DEF LifeOK
  <2>4. LStatus[e] = "CREATED" /\ LDone[e] = 0
    BY <1>3, <2>3 DEF NewExecution, Status
  <2>5. LStatus' = [LStatus EXCEPT ![e] = "RUNNING"] /\ LDone' = [LDone EXCEPT ![e] = 0]
    BY <1>2, <2>1, <2>2, StoreMaps
  <2>6. LDone' = LDone
    BY <1>2, <2>4, <2>5 DEF LDone
  <2>7. LBusy' = LBusy
    BY <1>4, <2>1, InStepPoints
  <2>8. Lifecycle!Run(e)
    BY <1>2, <2>1, <2>4, <2>5, <2>6, <2>7, LifeMoves
  <2> QED BY <1>2, <2>8 DEF Lifecycle!Next
<1>8. CASE Complete(d)
  <2> DEFINE x == [executions[e] EXCEPT !.status = "COMPLETED"]
  <2>1. /\ pc[d] = "loop" /\ Store(e, x) /\ pc' = [pc EXCEPT ![d] = "completed"]
        /\ UNCHANGED <<plans, running>> /\ Status(e) = "RUNNING"
        /\ executions[e].current_step >= plans[e]
    BY <1>2, <1>8 DEF Complete, Goto, At
  <2>2. x \in Execution /\ x.current_step = executions[e].current_step /\ x.status = "COMPLETED"
    BY <1>2 DEF Execution, Statuses
  <2>3. LDone[e] = plans[e]
    <3>1. executions[e].current_step <= plans[e] /\ plans[e] \in Nat
          /\ executions[e].current_step \in Nat
      BY <1>1, <1>2 DEF SoleOK, ExactOK, Execution
    <3> QED BY <1>3, <2>1, <3>1
  <2>4. LStatus' = [LStatus EXCEPT ![e] = "COMPLETED"] /\ LDone' = [LDone EXCEPT ![e] = LDone[e]]
    <3> HIDE DEF x
    <3> QED BY <1>2, <1>3, <2>1, <2>2, StoreMaps
  <2>5. LDone' = LDone
    BY <1>2, <2>4 DEF LDone
  <2>6. ~ LBusy[e] /\ LBusy' = LBusy
    BY <1>4, <2>1, InStepPoints
  <2>7. Lifecycle!Complete(e)
    BY <1>2, <1>3, <2>1, <2>3, <2>4, <2>5, <2>6, LifeMoves2
  <2> QED BY <1>2, <2>7 DEF Lifecycle!Next
<1>9. CASE BeginStep(d)
  <2>1. /\ pc[d] = "loop" /\ pc' = [pc EXCEPT ![d] = "stepping"]
        /\ UNCHANGED <<executions, plans, running>> /\ Status(e) = "RUNNING"
        /\ executions[e].current_step < plans[e]
    BY <1>2, <1>9 DEF BeginStep, Goto, At
  <2>2. UNCHANGED <<LStatus, LDone>>
    BY <2>1 DEF LStatus, LDone, Status
  <2>3. ~ LBusy[e] /\ LBusy' = [LBusy EXCEPT ![e] = TRUE]
    BY <1>4, <2>1, InStepPoints
  <2>4. Lifecycle!BeginStep(e)
    BY <1>2, <1>3, <2>1, <2>2, <2>3, LifeMoves2
  <2> QED BY <1>2, <2>4 DEF Lifecycle!Next
<1>10. CASE StepSucceeds(d)
  <2> DEFINE x == Advanced(executions[e], local[d])
  <2>1. /\ pc[d] = "dispatched" /\ Store(e, x) /\ pc' = [pc EXCEPT ![d] = "stepped"]
        /\ UNCHANGED <<plans, running>>
    BY <1>2, <1>10 DEF StepSucceeds, Goto, At
  <2>2. local[d] = executions[e].current_step /\ local[d] \in Nat
    BY <1>2, <2>1 DEF SoleOK, AtStepOK, Inv, FrameOK
  <2>3. x \in Execution /\ x.status = Status(e) /\ x.current_step = LDone[e] + 1
    <3>1. /\ x \in Execution /\ x.status = executions[e].status
          /\ x.current_step = local[d] + 1
      BY <1>2, <2>2, AdvancedType
    <3> HIDE DEF x
    <3> QED BY <1>3, <2>2, <3>1 DEF Status
  <2>4. LStatus' = [LStatus EXCEPT ![e] = Status(e)] /\ LDone' = [LDone EXCEPT ![e] = LDone[e] + 1]
    <3> HIDE DEF x
    <3> QED BY <1>2, <2>1, <2>3, StoreMaps
  <2>5. LStatus' = LStatus
    BY <1>2, <1>3, <2>4 DEF LStatus
  <2>6. LBusy[e] /\ LBusy' = [LBusy EXCEPT ![e] = FALSE]
    BY <1>4, <2>1, InStepPoints
  <2>7. Lifecycle!EndStep(e)
    BY <1>2, <2>1, <2>4, <2>5, <2>6, LifeMoves2
  <2> QED BY <1>2, <2>7 DEF Lifecycle!Next
<1>11. CASE StepFails(d)
  <2> DEFINE x == [executions[e] EXCEPT !.status = "FAILED"]
  <2>1. /\ pc[d] = "dispatched" /\ Store(e, x) /\ pc' = [pc EXCEPT ![d] = "failed"]
        /\ UNCHANGED <<plans, running>>
    BY <1>2, <1>11 DEF StepFails, Goto, At
  <2>2. x \in Execution /\ x.current_step = executions[e].current_step /\ x.status = "FAILED"
    BY <1>2 DEF Execution, Statuses
  <2>3. Status(e) \in {"RUNNING", "PAUSED"}
    BY <1>2, <2>1 DEF LifeOK
  <2>4. LStatus' = [LStatus EXCEPT ![e] = "FAILED"] /\ LDone' = [LDone EXCEPT ![e] = LDone[e]]
    <3> HIDE DEF x
    <3> QED BY <1>2, <1>3, <2>1, <2>2, StoreMaps
  <2>5. LDone' = LDone
    BY <1>2, <2>4 DEF LDone
  <2>6. LBusy[e] /\ LBusy' = [LBusy EXCEPT ![e] = FALSE]
    BY <1>4, <2>1, InStepPoints
  <2>7. Lifecycle!FailStep(e)
    BY <1>2, <1>3, <2>1, <2>3, <2>4, <2>5, <2>6, LifeMoves2
  <2> QED BY <1>2, <2>7 DEF Lifecycle!Next
<1> QED BY <1>5, <1>6, <1>7, <1>8, <1>9, <1>10, <1>11 DEF Step

\* Lemma: so is every operation.
LEMMA ControlLives ==
    ASSUME Inv, LifeOK, HostIsTame, Control
    PROVE  [Lifecycle!Next]_(Lifecycle!vars)
<1>1. /\ executions \in [Ids -> Execution \cup {None}] /\ pc \in [Frames -> Points]
      /\ running \in [Frames -> Ids \cup {None}] /\ created \in Nat /\ plans \in [Ids -> Nat]
  BY Bounds DEF Inv, TypeOK
<1>2. ASSUME NEW d \in Frames, NEW i, running' = [running EXCEPT ![d] = i], NEW point,
             pc' = [pc EXCEPT ![d] = point], ~ InStep(point), pc[d] = "idle"
      PROVE  LBusy' = LBusy
  <2>1. \A f \in Frames : InStep(pc'[f]) <=> InStep(pc[f])
    BY <1>1, <1>2 DEF InStep
  <2>2. \A f \in Frames : InStep(pc[f]) => running'[f] = running[f]
    BY <1>1, <1>2 DEF InStep
  <2>3. \A e \in Ids : Busy(e)' <=> Busy(e)
    BY <2>1, <2>2 DEF Busy, InStep
  <2>4. \A e \in Ids : Busy(e) \in BOOLEAN /\ Busy(e)' \in BOOLEAN
    BY DEF Busy
  <2>5. \A e \in Ids : LBusy'[e] = LBusy[e]
    BY <2>3, <2>4 DEF LBusy
  <2> QED BY <2>5 DEF LBusy
<1>3. ASSUME NEW d \in Frames, StartExecution(d)
      PROVE  \E e \in Ids : Lifecycle!Create(e)
  <2> DEFINE new == created + 1
  <2>1. /\ new \in Ids /\ Store(new, NewExecution) /\ pc[d] = "idle"
        /\ running' = [running EXCEPT ![d] = new] /\ pc' = [pc EXCEPT ![d] = "created"]
        /\ plans' = [plans EXCEPT ![new] = plan.steps] /\ plan.steps \in 0 .. MaxSteps
    BY <1>3, Bounds DEF StartExecution, Goto, Opens, Inv, TypeOK, LifeOK, Ids, Frames
  <2>2. /\ NewExecution \in Execution /\ NewExecution.status = "CREATED"
        /\ NewExecution.current_step = 0
    BY DEF NewExecution, Execution, Statuses
  <2>3. executions[new] = None
    BY <1>1, <2>1 DEF Inv, StoreOK
  <2> HIDE DEF new
  <2>4. LStatus[new] = None /\ LDone[new] = 0
    BY <2>1, <2>3 DEF LStatus, LDone
  <2>5. LStatus' = [LStatus EXCEPT ![new] = "CREATED"] /\ LDone' = [LDone EXCEPT ![new] = 0]
    BY <2>1, <2>2, StoreMaps
  <2>6. LDone' = LDone
    BY <2>1, <2>4, <2>5 DEF LDone
  <2>7. LBusy' = LBusy
    BY <1>2, <2>1, InStepPoints
  <2> QED BY <2>1, <2>4, <2>5, <2>6, <2>7, LifeMoves
<1>4. ASSUME NEW e \in Ids, NEW s \in Statuses, executions[e] # None,
             Store(e, [executions[e] EXCEPT !.status = s])
      PROVE  /\ LStatus' = [LStatus EXCEPT ![e] = s] /\ LDone' = LDone
             /\ LStatus[e] = Status(e)
  <2> DEFINE x == [executions[e] EXCEPT !.status = s]
  <2>1. x \in Execution /\ x.status = s /\ x.current_step = executions[e].current_step
    BY <1>1, <1>4 DEF Execution
  <2>2. LStatus[e] = Status(e) /\ LDone[e] = executions[e].current_step
    BY <1>4 DEF LStatus, LDone
  <2>3. LStatus' = [LStatus EXCEPT ![e] = s] /\ LDone' = [LDone EXCEPT ![e] = LDone[e]]
    <3>1. Store(e, x)
      BY <1>4
    <3> HIDE DEF x
    <3> QED BY <2>1, <2>2, <3>1, StoreMaps
  <2>4. LDone' = LDone
    BY <2>3 DEF LDone
  <2> QED BY <2>2, <2>3, <2>4
<1>5. ASSUME NEW d \in Frames, NEW e \in Ids, ResumeExecution(d, e)
      PROVE  Lifecycle!Run(e)
  <2>1. /\ Status(e) = "PAUSED" /\ executions[e] # None /\ plans' = plans
        /\ Store(e, [executions[e] EXCEPT !.status = "RUNNING"]) /\ pc[d] = "idle"
        /\ running' = [running EXCEPT ![d] = e] /\ pc' = [pc EXCEPT ![d] = "loop"]
    BY <1>5 DEF ResumeExecution, Goto, Opens, Started, Frames
  <2>2. LBusy' = LBusy
    BY <1>2, <2>1, InStepPoints
  <2> QED BY <1>4, <2>1, <2>2, LifeMoves DEF Statuses
<1>6. ASSUME NEW e \in Ids, PauseExecution(e)
      PROVE  Lifecycle!Pause(e)
  <2>1. /\ Status(e) = "RUNNING" /\ executions[e] # None /\ UNCHANGED <<plans, pc, running>>
        /\ Store(e, [executions[e] EXCEPT !.status = "PAUSED"])
    BY <1>6 DEF PauseExecution, Started, frameVars
  <2>2. LBusy' = LBusy
    BY <2>1 DEF LBusy, Busy
  <2> QED BY <1>4, <2>1, <2>2, LifeMoves DEF Statuses
<1>7. ASSUME NEW e \in Ids, CancelExecution(e)
      PROVE  Lifecycle!Cancel(e)
  <2>1. /\ Status(e) \notin Terminal /\ executions[e] # None /\ UNCHANGED <<plans, pc, running>>
        /\ Store(e, [executions[e] EXCEPT !.status = "CANCELLED"])
    BY <1>7 DEF CancelExecution, Started, frameVars
  <2>2. LBusy' = LBusy
    BY <2>1 DEF LBusy, Busy
  <2>3. Status(e) \in Statuses
    BY <1>1, <2>1 DEF Status, Execution
  <2>4. Status(e) \in {"CREATED", "RUNNING", "PAUSED"}
    BY <2>1, <2>3 DEF Statuses, Terminal
  <2> QED BY <1>4, <2>1, <2>2, <2>4, LifeMoves DEF Statuses
<1> QED BY <1>3, <1>5, <1>6, <1>7 DEF Control, Lifecycle!Next

\* Theorem: when host code inside the runtime starts and pauses executions but neither
\* resumes nor cancels, the life of every execution is as promised: one step at a
\* time and in order, COMPLETED exactly at the end, and what has ended stays so, also
\* when handlers raise half way.
THEOREM RuntimeImplementsLifecycle == ASSUME HostIsTame PROVE Spec => IsLifecycle
<1>1. Init => LifeOK
  BY Bounds DEF Init, LifeOK
<1>2. Inv /\ Inv' /\ SoleRunner /\ LifeOK /\ [Next]_vars => LifeOK'
  BY LifeNext
<1>3. Spec => []SoleRunner
  BY SoleByHost DEF HostIsTame
<1>4. Spec => []LifeOK
  BY <1>1, <1>2, <1>3, Invariance, PTL DEF Spec
<1>5. Init => Lifecycle!Init
  BY DEF Init, Lifecycle!Init, Busy
<1>6. Inv /\ SoleOK /\ SoleRunner /\ LifeOK /\ [Next]_vars => [Lifecycle!Next]_(Lifecycle!vars)
  <2> SUFFICES ASSUME Inv, SoleOK, SoleRunner, LifeOK, [Next]_vars
               PROVE  [Lifecycle!Next]_(Lifecycle!vars)
    OBVIOUS
  <2>1. CASE Environment \/ UNCHANGED vars
    <3>1. UNCHANGED <<executions, plans, running, pc>>
      BY <2>1 DEF Environment, Initialize, Start, Stop, SetState, EditPlan, ValidatePlan,
         vars, frameVars
    <3>2. UNCHANGED <<LStatus, plans, LDone, LBusy>>
      BY <3>1 DEF LStatus, LDone, LBusy, Busy, Status
    <3> QED BY <3>2, LifeStutters
  <2> QED BY <2>1, StepLives, ControlLives DEF Next
<1> QED BY <1>3, <1>4, <1>5, <1>6, SoleHolds, Invariance, PTL DEF Spec, IsLifecycle, Lifecycle!Spec
=============================================================================
