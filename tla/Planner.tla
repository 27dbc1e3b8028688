------------------------------ MODULE Planner ------------------------------
(***************************************************************************)
(* The planner (argus/planner/planner.py) with the capability registry.    *)
(* Every operation fetches the stored plan, stores a changed copy and      *)
(* publishes; plan_session is a sequence of them, and the handlers in      *)
(* between may edit and validate the same plan and change the registry.    *)
(***************************************************************************)
EXTENDS CapabilityRegistry

CONSTANTS
    MaxPlans,   \* bound: plans created
    MaxSteps,   \* bound: steps made, over all plans
    MaxGoals,   \* bound: goals of a planning session
    Required    \* the capability ids that steps ask for

VARIABLES
    plans,    \* Planner._plans, in the order they were created
    made,     \* history: number of steps made, the last step id
    removed,  \* history: the step ids that remove_step took away
    known     \* history: plan -> capability ids registered when it was validated

plannerVars == <<plans, made, removed, known>>

PlanStatuses == {"CREATED", "VALIDATED", "READY", "FAILED", "COMPLETED"}
NewPlan == [steps |-> << >>, status |-> "CREATED"]

PlannerInit ==
    /\ stack = << >>
    /\ RegistryInit
    /\ plans = << >>
    /\ made = 0
    /\ removed = {}
    /\ known = << >>

\* The stored plan is replaced and PLAN_UPDATED is published by a call of its own.
Renumbered(steps) == [i \in DOMAIN steps |-> [steps[i] EXCEPT !.order = i]]
SetPlan(p, steps, status) ==
    plans' = [plans EXCEPT ![p] = [steps |-> steps, status |-> status]]
Update(p, steps) ==
    /\ SetPlan(p, steps, "CREATED")
    /\ Enter([call |-> "planner", at |-> "PLAN_UPDATED"])
    /\ UNCHANGED <<registry, known>>

-----------------------------------------------------------------------------
(* The operations *)

WithStep(p, id, needs, optional) ==
    Append(plans[p].steps,
           [id |-> id, order |-> Len(plans[p].steps) + 1, needs |-> needs, optional |-> optional])

AddStep(p, needs, optional) ==
    /\ MayCall
    /\ made < MaxSteps
    /\ made' = made + 1
    /\ Update(p, WithStep(p, made', needs, optional))
    /\ UNCHANGED removed

\* Ids of steps are unique, so all steps but those of the id are all steps but one.
RemoveStep(p, id) ==
    /\ MayCall
    /\ \E i \in DOMAIN plans[p].steps :
           /\ plans[p].steps[i].id = id
           /\ Update(p, Renumbered(RemoveAt(plans[p].steps, i)))
    /\ removed' = removed \union {id}
    /\ UNCHANGED made

\* step_ids is a permutation of the plan's steps.
ReorderSteps(p) ==
    /\ MayCall
    /\ \E order \in SetToSeqs(DOMAIN plans[p].steps) :
           Update(p, Renumbered([i \in DOMAIN order |-> plans[p].steps[order[i]]]))
    /\ UNCHANGED <<made, removed>>

Missing(p) == {s \in ToSet(plans[p].steps) : ~s.optional /\ ~Known(s.needs)}

\* A plan that lacks a capability is stored as FAILED, and nothing is published.
ValidatePlan(p) ==
    /\ MayCall
    /\ IF Missing(p) = {}
       THEN /\ SetPlan(p, plans[p].steps, "VALIDATED")
            /\ known' = [known EXCEPT ![p] = {c.id : c \in Registered}]
            /\ Enter([call |-> "planner", at |-> "PLAN_VALIDATED"])
       ELSE /\ SetPlan(p, plans[p].steps, "FAILED")
            /\ UNCHANGED <<stack, known>>
    /\ UNCHANGED <<registry, made, removed>>

\* create_plan, alone or for a planning session with so many goals.
PlanCreation(goals, below) ==
    /\ Len(plans) < MaxPlans
    /\ plans' = Append(plans, NewPlan)
    /\ known' = Append(known, {})
    /\ stack' = Append(below, [call |-> "plan_session", plan |-> Len(plans'), goals |-> goals,
                               at |-> "PLAN_CREATED"])
    /\ UNCHANGED <<registry, made, removed>>

CreatePlan(goals) == MayCall /\ PlanCreation(goals, stack)

\* Mutant of NextGoal: the first step is added to the plan that create_plan
\* returned, and not to the one that is stored.
NextGoalOfCreated(needs) ==
    /\ Busy /\ Top.call = "plan_session"
    /\ Top.goals > 0
    /\ made < MaxSteps
    /\ made' = made + 1
    /\ LET all == WithStep(Top.plan, made', needs, FALSE) IN
       SetPlan(Top.plan, IF Top.at = "PLAN_CREATED" THEN <<Last(all)>> ELSE all, "CREATED")
    /\ stack' = [stack EXCEPT ![Len(stack)].goals = @ - 1, ![Len(stack)].at = "PLAN_UPDATED"]
    /\ UNCHANGED <<registry, removed, known>>

\* plan_session adds the step of its next goal through add_step, which fetches
\* the plan anew, and publishes.
NextGoal(needs) ==
    /\ Busy /\ Top.call = "plan_session"
    /\ Top.goals > 0
    /\ made < MaxSteps
    /\ made' = made + 1
    /\ SetPlan(Top.plan, WithStep(Top.plan, made', needs, FALSE), "CREATED")
    /\ stack' = [stack EXCEPT ![Len(stack)].goals = @ - 1, ![Len(stack)].at = "PLAN_UPDATED"]
    /\ UNCHANGED <<registry, removed, known>>

\* A publication is over and the call returns, or a handler raised out of it.
PlannerReturns ==
    /\ Busy /\ Top.call \in {"planner", "plan_session"}
    /\ \/ (Top.call = "plan_session" => Top.goals = 0) /\ Return
       \/ Unwind
    /\ UNCHANGED <<registry, plannerVars>>

PlannerNext ==
    \/ RegistryNext /\ UNCHANGED plannerVars
    \/ \E goals \in 0 .. MaxGoals : CreatePlan(goals)
    \/ \E needs \in Required : NextGoal(needs)
    \/ PlannerReturns
    \/ \E p \in DOMAIN plans :
          \/ ValidatePlan(p) \/ ReorderSteps(p)
          \/ \E needs \in Required, optional \in BOOLEAN : AddStep(p, needs, optional)
          \/ \E id \in 1 .. made : RemoveStep(p, id)

PlannerSpec == PlannerInit /\ [][PlannerNext]_<<stack, registry, plannerVars>>

-----------------------------------------------------------------------------
(* Properties *)

Step == [id : Nat, order : Nat, needs : Required, optional : BOOLEAN]

\* Types of plans and registry.
PlannerTypeOK ==
    /\ registry \in Seq(Offered)
    /\ plans \in Seq([steps : Seq(Step), status : PlanStatuses])
    /\ made \in 0 .. MaxSteps /\ removed \subseteq 1 .. made
    /\ Len(known) = Len(plans)

StepIds(p) == {plans[p].steps[i].id : i \in DOMAIN plans[p].steps}

\* Edits that nest in the publications of other edits lose nothing: every step
\* that was made stands in exactly one place, unless it was removed.
NoStepLost ==
    /\ UNION {StepIds(p) : p \in DOMAIN plans} = (1 .. made) \ removed
    /\ \A p, q \in DOMAIN plans : \A i \in DOMAIN plans[p].steps, j \in DOMAIN plans[q].steps :
           plans[p].steps[i].id = plans[q].steps[j].id => p = q /\ i = j

\* The order numbers of a plan count its steps from the first to the last,
\* after any mix of additions, removals and permutations.
OrdersCount ==
    \A p \in DOMAIN plans : \A i \in DOMAIN plans[p].steps : plans[p].steps[i].order = i

\* A VALIDATED plan is the one that was validated: each capability it requires
\* was registered at that moment, and no edit, by whatever handler, happened since.
ValidatedWasComplete ==
    \A p \in DOMAIN plans : plans[p].status = "VALIDATED" =>
        \A i \in DOMAIN plans[p].steps :
            plans[p].steps[i].optional \/ plans[p].steps[i].needs \in known[p]

\* Edits, validations and sessions that nest in each other's publications leave
\* every plan with all its steps, counted, and no VALIDATED one that was not.
PlansAreWhole == PlannerTypeOK /\ NoStepLost /\ OrdersCount /\ ValidatedWasComplete
=============================================================================
