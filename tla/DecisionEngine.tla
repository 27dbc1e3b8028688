--------------------------- MODULE DecisionEngine ---------------------------
(***************************************************************************)
(* The decision engine (argus/decision/engine.py): rules in the order of   *)
(* their registration, and evaluate_all(), which asks the predicate of     *)
(* each rule by priority.  Predicates and event handlers are host code:    *)
(* they may register and remove rules and evaluate again meanwhile.        *)
(***************************************************************************)
EXTENDS CallStack, EventTypes, Integers

CONSTANT Rules    \* the rules: records of an id and a priority

ASSUME RulesAssumption == \A rule \in Rules : rule.priority \in Int

VARIABLE rules   \* DecisionEngine._rules, in _registration_order

decisionVars == <<stack, rules>>

DecisionInit == stack = << >> /\ rules = << >>

RegisterRule(rule) ==
    /\ HostRuns
    /\ \A i \in DOMAIN rules : rules[i].id # rule.id
    /\ rules' = Append(rules, rule)
    /\ UNCHANGED stack

\* The order of registration without one of the rules.
Unregistered(rule) == RemoveAt(rules, CHOOSE i \in DOMAIN rules : rules[i] = rule)

\* Mutant of RemoveRule: evaluations go through the list itself, by an index, and
\* miss the rule that comes next.
RemoveRuleLive(rule) ==
    /\ HostRuns
    /\ rule \in ToSet(rules)
    /\ rules' = Unregistered(rule)
    /\ stack' = [i \in DOMAIN stack |->
                    [stack[i] EXCEPT !.steady = @ \ {rule},
                        !.left = IF rule \in ToSet(stack[i].asked) /\ @ # << >> THEN Tail(@) ELSE @]]

\* A rule that is removed and registered again stands last among its equals.  (An
\* evaluation in progress keeps its list; its history forgets the rule.)
RemoveRule(rule) ==
    /\ HostRuns
    /\ rule \in ToSet(rules)
    /\ rules' = Unregistered(rule)
    /\ stack' = [i \in DOMAIN stack |-> [stack[i] EXCEPT !.steady = @ \ {rule}]]

\* Ascending priority, and the order of registration among equals: the n-th has n - 1
\* before it.
GoesBefore(i, j) ==
    \/ rules[i].priority < rules[j].priority
    \/ rules[i].priority = rules[j].priority /\ i < j
Earlier(i) == {j \in DOMAIN rules : GoesBefore(j, i)}
ListRules ==
    [n \in DOMAIN rules |-> rules[CHOOSE i \in DOMAIN rules : Cardinality(Earlier(i)) = n - 1]]

-----------------------------------------------------------------------------
(* evaluate_all; evaluate() is evaluate_all() of one result *)

Begin ==
    /\ MayCall
    /\ Enter([call |-> "evaluate", left |-> ListRules, asked |-> << >>, matched |-> << >>,
              steady |-> ToSet(rules), at |-> "predicate"])
    /\ UNCHANGED rules

Asking == TopIs("evaluate", {"predicate"}) /\ Top.left # << >>
Rule == Head(Top.left)

\* The predicate answers.
PredicateAnswers(yes) ==
    /\ Asking
    /\ stack' = [stack EXCEPT ![Len(stack)] =
                    [Top EXCEPT !.left = Tail(@), !.asked = Append(@, Rule),
                                !.matched = IF yes THEN Append(@, Rule) ELSE @]]
    /\ UNCHANGED rules

\* The predicate raises: DECISION_FAILED, and RuleEvaluationError after it.
PredicateRaises == Asking /\ Goto("DECISION_FAILED") /\ UNCHANGED rules

AllAsked ==
    /\ \/ TopIs("evaluate", {"predicate"}) /\ Top.left = << >> /\ Goto("DECISION_EVALUATED")
       \/ TopIs("evaluate", {"DECISION_EVALUATED"}) /\ Goto("DECISION_CREATED")
    /\ UNCHANGED rules

EvaluationReturns ==
    /\ \/ TopIs("evaluate", {"DECISION_CREATED"}) /\ Return
       \/ Busy /\ Top.at # "predicate" /\ Unwind
    /\ UNCHANGED rules

DecisionNext ==
    \/ \E rule \in Rules : RegisterRule(rule) \/ RemoveRule(rule)
    \/ \E yes \in BOOLEAN : PredicateAnswers(yes)
    \/ Begin \/ PredicateRaises \/ AllAsked \/ EvaluationReturns

DecisionSpec == DecisionInit /\ [][DecisionNext]_decisionVars

-----------------------------------------------------------------------------
(* Properties *)

\* Types of the rules and evaluations; ids are unique.
DecisionTypeOK ==
    /\ rules \in Seq(Rules)
    /\ \A i, j \in DOMAIN rules : rules[i].id = rules[j].id => i = j

Evaluations == {frame \in ToSet(stack) : frame.call = "evaluate"}

\* A decision has asked every rule that was registered from the beginning of the
\* evaluation to its end, and none twice, whatever the predicates of other rules
\* did to the registry in between.
EveryRuleAsked ==
    \A frame \in Evaluations : frame.at \in {"DECISION_EVALUATED", "DECISION_CREATED"} =>
        frame.steady \subseteq ToSet(frame.asked) /\ IsInjective(frame.asked)

RegisteredAt(rule) == CHOOSE i \in DOMAIN rules : rules[i] = rule

\* Among the matched rules a lower priority number comes first, and the earlier
\* registration among equals that stayed registered.
MatchedInOrder ==
    \A frame \in Evaluations : \A i, j \in DOMAIN frame.matched : i < j =>
        LET first == frame.matched[i]  second == frame.matched[j] IN
        /\ first.priority <= second.priority
        /\ first.priority = second.priority /\ {first, second} \subseteq frame.steady
               => RegisteredAt(first) < RegisteredAt(second)

\* An evaluation is one of the rules as they were when it began, in their order,
\* whatever its predicates do to the rules; and a call announces only types of its
\* own (EventTypes).
DecisionsAreSound == DecisionTypeOK /\ EveryRuleAsked /\ MatchedInOrder /\ OwnEvents(stack)
=============================================================================
