---------------------------- MODULE AgentService ----------------------------
(***************************************************************************)
(* The chain behind AgentService.run (argus/agent/service.py): the         *)
(* cognitive pipeline builds a context and a planning session without      *)
(* goals and tasks, the planner makes a plan for it, the execution engine  *)
(* resolves the tasks of the plan, and the response engine wraps it all.   *)
(* Only the planner publishes, so host code runs inside a request in one   *)
(* place, the handlers of PLAN_CREATED: they may edit the new plan, stop   *)
(* the services, raise, or run another request.                            *)
(***************************************************************************)
EXTENDS Planner

CONSTANT MaxRequests   \* bound: requests that reach the planner

VARIABLES
    agentService,       \* AgentService._state
    cognitivePipeline,  \* CognitivePipeline._state
    requests,           \* history: number of requests that reached the planner
    answers             \* history: the responses returned, in order

agentVars == <<agentService, cognitivePipeline, requests, answers>>
chainVars == <<stack, registry, plannerVars, agentVars>>

ChainInit ==
    /\ PlannerInit
    /\ agentService = "CREATED"
    /\ cognitivePipeline = "CREATED"
    /\ requests = 0
    /\ answers = << >>

Elsewhere == UNCHANGED <<registry, plannerVars>>

Forward(from, to) ==
    <<from, to>> \in {<<"CREATED", "INITIALIZING">>, <<"INITIALIZING", "RUNNING">>,
                      <<"RUNNING", "STOPPED">>}

\* initialize, start and stop.
ShiftAgent(to) ==
    /\ HostRuns
    /\ Forward(agentService, to)
    /\ agentService' = to
    /\ Elsewhere
    /\ UNCHANGED <<stack, cognitivePipeline, requests, answers>>

ShiftPipeline(to) ==
    /\ HostRuns
    /\ Forward(cognitivePipeline, to)
    /\ cognitivePipeline' = to
    /\ Elsewhere
    /\ UNCHANGED <<stack, agentService, requests, answers>>

-----------------------------------------------------------------------------
(* What follows the planner: neither service is asked for its state. *)

\* CapabilityExecutor.resolve looks the task up by its name.
Resolve(task) ==
    IF \E c \in Registered : c.name = task.name THEN "COMPLETED" ELSE "NOT_FOUND"

\* ExecutionEngine.execute resolves every task and ignores the outcomes.
ExecuteTasks(tasks) ==
    [status |-> "COMPLETED", completed |-> tasks, failed |-> << >>,
     outcomes |-> [i \in DOMAIN tasks |-> Resolve(tasks[i])]]

BuildResponse(plan, status, execution) ==
    [plan |-> plan, status |-> status, execution |-> execution.status,
     completed |-> execution.completed]

-----------------------------------------------------------------------------
(* run *)

\* AgentService.run and CognitivePipeline.run, as far as the call of the planner.
\* A pipeline that is not RUNNING ends the request with AgentExecutionError.
Run ==
    /\ MayCall /\ Len(stack) + 1 < Depth
    /\ agentService = "RUNNING"
    /\ cognitivePipeline = "RUNNING"
    /\ requests < MaxRequests
    /\ requests' = requests + 1
    /\ PlanCreation(0, Opened([call |-> "run", request |-> requests', plan |-> Len(plans'),
                               at |-> "calling"]))
    /\ UNCHANGED <<agentService, cognitivePipeline, answers>>

\* The response tells of the plan as plan_session returned it: as it was created,
\* with its status CREATED and its tasks, of which there are none.
Deliver ==
    /\ TopIs("run", {"calling"})
    /\ answers' = Append(answers,
           [request |-> Top.request,
            response |-> BuildResponse(Top.plan, NewPlan.status, ExecuteTasks(<< >>))])
    /\ Return
    /\ Elsewhere
    /\ UNCHANGED <<agentService, cognitivePipeline, requests>>

\* PipelineExecutionError, wrapped again.
RunRaises ==
    /\ TopIs("run", {"raised"})
    /\ Unwind
    /\ Elsewhere
    /\ UNCHANGED agentVars

ChainNext ==
    \/ PlannerNext /\ UNCHANGED agentVars
    \/ \E to \in {"INITIALIZING", "RUNNING", "STOPPED"} : ShiftAgent(to) \/ ShiftPipeline(to)
    \/ Run \/ Deliver \/ RunRaises

ChainSpec == ChainInit /\ [][ChainNext]_chainVars

-----------------------------------------------------------------------------
(* Properties *)

\* Types of the chain; a response tells of a plan that exists, as it was created.
ChainTypeOK ==
    /\ {agentService, cognitivePipeline} \subseteq
           {"CREATED", "INITIALIZING", "RUNNING", "STOPPED"}
    /\ requests \in 0 .. MaxRequests
    /\ answers \in Seq([request : 1 .. requests,
                         response : [plan : DOMAIN plans, status : {"CREATED"},
                                     execution : {"COMPLETED"}, completed : {<< >>}]])

\* However requests nest in the publication of each other's plans, a request is
\* answered once at most, with a plan of its own: no two requests get one plan,
\* and an earlier request never gets a plan that was made later.
RequestsKeptApart ==
    \A i, j \in DOMAIN answers : i # j =>
        /\ answers[i].request # answers[j].request
        /\ answers[i].request < answers[j].request =>
               answers[i].response.plan < answers[j].response.plan

\* The chain keeps its requests apart, and the plans it makes for them are whole,
\* whatever the handlers of the publications in between do to either.
ChainIsSound == PlansAreWhole /\ ChainTypeOK /\ RequestsKeptApart
=============================================================================
