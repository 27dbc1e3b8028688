------------------------- MODULE WorkflowEngineProofs -------------------------
(***************************************************************************)
(* The workflow engine, for any number of workflows and steps and any      *)
(* depth of nested calls: a workflow has one runner, its steps run once    *)
(* and in order, and what is finished stays as it is.                      *)
(***************************************************************************)
EXTENDS WorkflowEngine, SequenceTheorems, TLAPS

Points == {"STARTED", "STEP_STARTED", "action", "STEP_COMPLETED"} \union Finished
Frame == [call : {"execute"}, workflow : Workflow, step : Nat, at : Points]

\* The calls of the services the engine is composed with, on the same stack: they
\* may wait for a call of execute() and go on where an exception of it is noticed.
AtRaised(call) == [call EXCEPT !.at = "raised"]
OtherCalls(others) ==
    \A o \in others :
        /\ o.call # "execute"
        /\ o.at = "calling" => AtRaised(o) \in others /\ AtRaised(o).at = "raised"

TypeOK(others) ==
    /\ stack \in Seq(Frame \union others)
    /\ workflows \in [Workflow -> {"ABSENT", "PENDING", "RUNNING"} \union Finished]
    /\ ran \in [Workflow -> Seq(Nat)]
    /\ abandoned \subseteq Workflow

-----------------------------------------------------------------------------
(* What an action does to the stack *)

\* A step keeps a call, or changes a call that is not one of the engine.
Kept(i) ==
    \/ stack'[i] = stack[i]
    \/ stack[i].call # "execute" /\ stack'[i].call # "execute"

Pushed(f) ==
    /\ Len(stack') = Len(stack) + 1
    /\ stack'[Len(stack) + 1] = f
    /\ \A i \in 1 .. Len(stack) : Kept(i)

Changed(f) ==
    /\ Len(stack') = Len(stack) /\ Len(stack) \in Nat \ {0}
    /\ stack'[Len(stack)] = f
    /\ \A i \in 1 .. Len(stack) - 1 : stack'[i] = stack[i]

Popped ==
    /\ Len(stack') = Len(stack) - 1 /\ Len(stack) \in Nat \ {0}
    /\ \A i \in 1 .. Len(stack) - 1 : Kept(i)

\* Lemma: every call is one of the engine or one of the others.
LEMMA CallsAre ==
    ASSUME NEW others, OtherCalls(others), TypeOK(others)
    PROVE  /\ Len(stack) \in Nat /\ DOMAIN stack = 1 .. Len(stack)
           /\ \A i \in DOMAIN stack : IF stack[i].call = "execute" THEN stack[i] \in Frame
                                                                  ELSE stack[i] \in others
<1>1. Len(stack) \in Nat /\ DOMAIN stack = 1 .. Len(stack)
  BY DEF TypeOK
<1>2. \A i \in 1 .. Len(stack) : stack[i] \in Frame \union others
  BY <1>1 DEF TypeOK
<1> QED BY <1>1, <1>2 DEF Frame, OtherCalls

\* Lemma: the innermost call, when it is one of the engine.
LEMMA TopIsFrame ==
    ASSUME NEW others, OtherCalls(others), TypeOK(others), Busy, Top.call = "execute"
    PROVE  Len(stack) \in Nat \ {0} /\ Top \in Frame /\ Top = stack[Len(stack)]
<1>1. Len(stack) \in Nat \ {0} /\ Top = stack[Len(stack)]
  BY DEF TypeOK, Busy, Top, Last
<1> QED BY <1>1, CallsAre

\* Lemma: a new call is pushed.
LEMMA PushFrame ==
    ASSUME NEW others, OtherCalls(others), TypeOK(others), NEW f \in Frame \union others,
           stack' = Append(stack, f)
    PROVE  stack' \in Seq(Frame \union others) /\ Pushed(f)
BY DEF TypeOK, Pushed, Kept

\* Lemma: the innermost call moves to another point of execute().
LEMMA MoveFrame ==
    ASSUME NEW others, OtherCalls(others), TypeOK(others), Busy, Top.call = "execute",
           NEW point \in Points, Goto(point)
    PROVE  stack' \in Seq(Frame \union others) /\ Changed([Top EXCEPT !.at = point])
<1>1. Len(stack) \in Nat \ {0} /\ Top \in Frame /\ Top = stack[Len(stack)]
  BY TopIsFrame
<1> DEFINE f == [Top EXCEPT !.at = point]
<1>2. f \in Frame
  BY <1>1 DEF Frame
<1>3. stack' = [stack EXCEPT ![Len(stack)] = f]
  BY <1>1 DEF Goto
<1>4. stack' \in Seq(Frame \union others) /\ Changed(f)
  <2> HIDE DEF f
  <2> QED BY <1>1, <1>2, <1>3 DEF TypeOK, Changed
<1> QED BY <1>4

\* Lemma: the calls below the innermost one.
LEMMA FrontCalls ==
    ASSUME NEW others, TypeOK(others), Busy
    PROVE  /\ Len(stack) \in Nat \ {0}
           /\ Front(stack) \in Seq(Frame \union others)
           /\ Len(Front(stack)) = Len(stack) - 1
           /\ \A i \in 1 .. Len(stack) - 1 : Front(stack)[i] = stack[i]
<1>1. Len(stack) \in Nat \ {0} /\ Front(stack) = SubSeq(stack, 1, Len(stack) - 1)
  BY DEF TypeOK, Busy, Front
<1> DEFINE n == Len(stack) - 1
<1>2. n \in Nat /\ \A i \in 1 .. n : stack[i] \in Frame \union others
  BY <1>1 DEF TypeOK
<1>3. Front(stack) = SubSeq(stack, 1, n)
  BY <1>1
<1> HIDE DEF n
<1>4. SubSeq(stack, 1, n) \in Seq(Frame \union others)
  BY <1>2, SubSeqProperties
<1>5. Len(SubSeq(stack, 1, n)) = IF 1 <= n THEN n - 1 + 1 ELSE 0
  BY <1>2, SubSeqProperties
<1>6. \A i \in 1 .. n - 1 + 1 : SubSeq(stack, 1, n)[i] = stack[1 + i - 1]
  BY <1>2, SubSeqProperties
<1>7. Len(Front(stack)) = n /\ \A i \in 1 .. n : Front(stack)[i] = stack[i]
  BY <1>2, <1>3, <1>5, <1>6
<1> QED BY <1>1, <1>3, <1>4, <1>7 DEF n

\* Lemma: the innermost call returns.
LEMMA PopReturn ==
    ASSUME NEW others, TypeOK(others), Busy, Return
    PROVE  /\ stack' \in Seq(Frame \union others) /\ Popped
           /\ \A i \in 1 .. Len(stack) - 1 : stack'[i] = stack[i]
BY FrontCalls DEF Return, Popped, Kept

\* Lemma: the innermost call raises, and a call that waited for it goes on at
\* "raised"; a call of the engine never waits.
LEMMA PopUnwind ==
    ASSUME NEW others, OtherCalls(others), TypeOK(others), Busy, Unwind
    PROVE  /\ stack' \in Seq(Frame \union others) /\ Popped
           /\ \A i \in 1 .. Len(stack) - 1 :
                  stack'[i] = IF i = Len(stack) - 1 /\ stack[i].at = "calling"
                              THEN AtRaised(stack[i]) ELSE stack[i]
<1> DEFINE n == Len(stack) - 1
           g == AtRaised(stack[n])
<1>1. /\ n \in Nat /\ Front(stack) \in Seq(Frame \union others) /\ Len(Front(stack)) = n
      /\ \A i \in 1 .. n : Front(stack)[i] = stack[i]
  <2>1. Len(stack) \in Nat \ {0}
    BY FrontCalls
  <2>2. n \in Nat
    BY <2>1
  <2> QED BY <2>2, FrontCalls
<1>2. n # 0 => n \in DOMAIN stack /\ Last(Front(stack)) = stack[n] /\ Front(stack) # << >>
  <2>1. n # 0 => n \in DOMAIN stack
    BY <1>1, FrontCalls, CallsAre
  <2>2. n # 0 => Last(Front(stack)) = stack[n] /\ Front(stack) # << >>
    <3> HIDE DEF n
    <3> QED BY <1>1 DEF Last
  <2> QED BY <2>1, <2>2
<1>3. CASE n # 0 /\ stack[n].at = "calling"
  <2>1. stack[n].call # "execute"
    BY <1>2, <1>3, CallsAre DEF Frame, Points, Finished
  <2>2. stack[n] \in others
    BY <1>2, <1>3, <2>1, CallsAre
  <2>3. g \in others /\ g.call # "execute"
    BY <1>3, <2>2 DEF OtherCalls
  <2>4. stack' = [Front(stack) EXCEPT ![n] = g]
    <3>1. Front(stack)[n] = stack[n]
      BY <1>1, <1>3
    <3> QED BY <1>1, <1>2, <1>3, <3>1 DEF Unwind, Unwound, AtRaised
  <2> HIDE DEF g, n
  <2>5. /\ Len(stack') = n /\ stack' \in Seq(Frame \union others)
        /\ stack'[n] = g /\ \A i \in 1 .. n : i # n => stack'[i] = stack[i]
    BY <1>1, <1>3, <2>3, <2>4
  <2>6. \A i \in 1 .. n : Kept(i)
    BY <2>1, <2>3, <2>5 DEF Kept
  <2> QED BY <1>3, <2>5, <2>6, FrontCalls DEF Popped, g, n
<1>4. CASE ~(n # 0 /\ stack[n].at = "calling")
  <2>1. stack' = Front(stack)
    <3>1. Front(stack) = << >> => n = 0
      BY <1>1
    <3> QED BY <1>1, <1>2, <1>4, <3>1 DEF Unwind, Unwound
  <2> QED BY <1>1, <1>4, <2>1, FrontCalls DEF Popped, Kept
<1> QED BY <1>3, <1>4

LEMMA PopFrame ==
    ASSUME NEW others, OtherCalls(others), TypeOK(others), Busy, Return \/ Unwind
    PROVE  stack' \in Seq(Frame \union others) /\ Popped
BY PopReturn, PopUnwind

-----------------------------------------------------------------------------
(* Types *)

LEMMA TypeInit == ASSUME NEW others, Init PROVE TypeOK(others)
BY DEF Init, TypeOK

\* A call that begins enters a frame, over a call that waits for it.
LEMMA BeginType ==
    ASSUME NEW others, OtherCalls(others), TypeOK(others), NEW w \in Workflow,
           NEW below \in Seq(Frame \union others), Begin(w, below), Len(below) = Len(stack),
           \A i \in 1 .. Len(stack) :
               below[i] = stack[i] \/ (below[i].call # "execute" /\ stack[i].call # "execute")
    PROVE  /\ TypeOK(others)'
           /\ Pushed([call |-> "execute", workflow |-> w, step |-> 0, at |-> "STARTED"])
<1> DEFINE f == [call |-> "execute", workflow |-> w, step |-> 0, at |-> "STARTED"]
<1>1. f \in Frame
  BY DEF Frame, Points
<1>2. stack' \in Seq(Frame \union others) /\ Pushed(f)
  <2>1. stack' = Append(below, f)
    BY DEF Begin
  <2> HIDE DEF f
  <2> QED BY <1>1, <2>1 DEF Pushed, Kept
<1> QED BY <1>2 DEF Begin, SetWorkflow, TypeOK

LEMMA CancelType ==
    ASSUME NEW others, OtherCalls(others), TypeOK(others), NEW w \in Workflow, Cancel(w)
    PROVE  /\ TypeOK(others)'
           /\ Pushed([call |-> "execute", workflow |-> w, step |-> 0, at |-> "CANCELLED"])
<1> DEFINE f == [call |-> "execute", workflow |-> w, step |-> 0, at |-> "CANCELLED"]
<1>1. f \in Frame
  BY DEF Frame, Points, Finished
<1>2. stack' \in Seq(Frame \union others) /\ Pushed(f)
  BY <1>1, PushFrame DEF Cancel, Enter, Opened
<1> QED BY <1>2 DEF Cancel, SetWorkflow, TypeOK, Finished

LEMMA BeginStepType ==
    ASSUME NEW others, OtherCalls(others), TypeOK(others), BeginStep
    PROVE  TypeOK(others)' /\ Changed([Top EXCEPT !.step = @ + 1, !.at = "STEP_STARTED"])
<1> DEFINE f == [Top EXCEPT !.step = @ + 1, !.at = "STEP_STARTED"]
<1>1. Len(stack) \in Nat \ {0} /\ Top \in Frame /\ Top = stack[Len(stack)]
  BY TopIsFrame DEF BeginStep, TopIs
<1>2. f \in Frame
  <2> DEFINE g == [Top EXCEPT !.step = @ + 1]
  <2>1. g \in Frame
    BY <1>1 DEF Frame
  <2>2. f = [g EXCEPT !.at = "STEP_STARTED"]
    OBVIOUS
  <2> HIDE DEF f, g
  <2> QED BY <2>1, <2>2 DEF Frame, Points
<1>3. stack' = [stack EXCEPT ![Len(stack)] = f]
  BY <1>1 DEF BeginStep
<1> HIDE DEF f
<1>4. stack' \in Seq(Frame \union others) /\ Changed(f)
  BY <1>1, <1>2, <1>3 DEF TypeOK, Changed, Kept
<1> QED BY <1>4 DEF TypeOK, BeginStep, workflowVars, f

LEMMA CallActionType ==
    ASSUME NEW others, OtherCalls(others), TypeOK(others), CallAction
    PROVE  TypeOK(others)' /\ Changed([Top EXCEPT !.at = "action"])
<1>1. Top \in Frame
  BY TopIsFrame DEF CallAction, TopIs
<1>2. stack' \in Seq(Frame \union others) /\ Changed([Top EXCEPT !.at = "action"])
  BY MoveFrame DEF CallAction, TopIs, Points
<1>3. ran' \in [Workflow -> Seq(Nat)]
  BY <1>1 DEF CallAction, TypeOK, Frame
<1> QED BY <1>2, <1>3 DEF TypeOK, CallAction

LEMMA ActionReturnsType ==
    ASSUME NEW others, OtherCalls(others), TypeOK(others), ActionReturns
    PROVE  TypeOK(others)' /\ Changed([Top EXCEPT !.at = "STEP_COMPLETED"])
<1>1. stack' \in Seq(Frame \union others) /\ Changed([Top EXCEPT !.at = "STEP_COMPLETED"])
  BY MoveFrame DEF ActionReturns, TopIs, Points
<1> QED BY <1>1 DEF TypeOK, ActionReturns, workflowVars

LEMMA FinishType ==
    ASSUME NEW others, OtherCalls(others), TypeOK(others), Busy, Top.call = "execute",
           NEW result \in Finished, Finish(result)
    PROVE  TypeOK(others)' /\ Changed([Top EXCEPT !.at = result])
<1>1. stack' \in Seq(Frame \union others) /\ Changed([Top EXCEPT !.at = result])
  BY MoveFrame DEF Finish, Points
<1> QED BY <1>1 DEF TypeOK, Finish

LEMMA ExecuteReturnsType ==
    ASSUME NEW others, OtherCalls(others), TypeOK(others), ExecuteReturns
    PROVE  TypeOK(others)' /\ Popped
BY PopFrame DEF ExecuteReturns, TopIs, TypeOK, workflowVars

LEMMA ExecuteRaisesType ==
    ASSUME NEW others, OtherCalls(others), TypeOK(others), ExecuteRaises
    PROVE  TypeOK(others)' /\ Popped
<1>1. Top \in Frame
  BY TopIsFrame DEF ExecuteRaises
<1>2. stack' \in Seq(Frame \union others) /\ Popped
  BY PopFrame DEF ExecuteRaises
<1> QED BY <1>1, <1>2 DEF ExecuteRaises, TypeOK, Frame

-----------------------------------------------------------------------------
(* Runners *)

Running(i) == i \in DOMAIN stack /\ stack[i].call = "execute" /\ stack[i].at \notin Finished

\* A call that is not at its end runs a workflow that is RUNNING, alone; and a
\* RUNNING workflow has such a call, or was left by an exception.
RunnersOK ==
    /\ \A i \in DOMAIN stack : Running(i) => workflows[stack[i].workflow] = "RUNNING"
    /\ \A i, j \in DOMAIN stack :
           Running(i) /\ Running(j) /\ stack[i].workflow = stack[j].workflow => i = j
    /\ \A w \in Workflow : workflows[w] = "RUNNING" =>
           w \in abandoned \/ \E i \in DOMAIN stack : Running(i) /\ stack[i].workflow = w

RunInv(others) == TypeOK(others) /\ RunnersOK

\* Lemma: calls are about workflows, and their indices are numbers.
LEMMA Calls ==
    ASSUME NEW others, OtherCalls(others), TypeOK(others)
    PROVE  /\ Len(stack) \in Nat /\ DOMAIN stack = 1 .. Len(stack)
           /\ \A i \in DOMAIN stack : stack[i].call = "execute" => stack[i].workflow \in Workflow
BY CallsAre DEF Frame

\* Lemma: the calls around the innermost one stay as they are.
LEMMA OthersStay ==
    ASSUME NEW others, OtherCalls(others), TypeOK(others), TypeOK(others)', NEW f, Changed(f)
    PROVE  /\ DOMAIN stack' = DOMAIN stack /\ Len(stack) \in DOMAIN stack
           /\ stack'[Len(stack)] = f
           /\ \A i \in DOMAIN stack : i # Len(stack) => Kept(i)
<1>1. Len(stack) \in Nat /\ DOMAIN stack = 1 .. Len(stack)
  BY Calls
<1>2. \A i \in DOMAIN stack : i # Len(stack) => stack'[i] = stack[i]
  BY <1>1 DEF Changed
<1> QED BY <1>1, <1>2 DEF Changed, TypeOK, Kept

\* Lemma: a call that begins is the one runner of its workflow.
LEMMA RunnersBegin ==
    ASSUME NEW others, OtherCalls(others), RunInv(others), TypeOK(others)',
           NEW w \in Workflow, NEW f, Pushed(f),
           f.call = "execute", f.workflow = w, f.at \notin Finished, workflows[w] = "PENDING",
           workflows' = [workflows EXCEPT ![w] = "RUNNING"], abandoned' = abandoned
    PROVE  RunnersOK'
<1>1. /\ Len(stack) \in Nat /\ DOMAIN stack = 1 .. Len(stack)
      /\ \A i \in DOMAIN stack : stack[i].call = "execute" => stack[i].workflow \in Workflow
  BY Calls DEF RunInv
<1>2. /\ DOMAIN stack' = 1 .. Len(stack) + 1
      /\ stack'[Len(stack) + 1] = f
      /\ \A i \in DOMAIN stack : i \in DOMAIN stack' /\ Kept(i)
      /\ \A i \in DOMAIN stack' : i \in DOMAIN stack \/ i = Len(stack) + 1
  BY <1>1 DEF Pushed, TypeOK
<1>3. workflows'[w] = "RUNNING" /\ \A v \in Workflow : v # w => workflows'[v] = workflows[v]
  BY DEF RunInv, TypeOK
<1>4. \A i \in DOMAIN stack : Running(i) => stack[i].workflow # w
  BY DEF RunInv, RunnersOK
<1>5. \A i \in DOMAIN stack : (Running(i)' <=> Running(i)) /\ (Running(i) => stack'[i] = stack[i])
  BY <1>2 DEF Running, Kept
<1>6. \A i \in DOMAIN stack' : Running(i)' => workflows'[stack'[i].workflow] = "RUNNING"
  BY <1>1, <1>2, <1>3, <1>5 DEF RunInv, RunnersOK
<1>7. \A i, j \in DOMAIN stack' :
          Running(i)' /\ Running(j)' /\ stack'[i].workflow = stack'[j].workflow => i = j
  BY <1>1, <1>2, <1>4, <1>5 DEF RunInv, RunnersOK
<1>8. \A v \in Workflow : workflows'[v] = "RUNNING" =>
          v \in abandoned' \/ \E i \in DOMAIN stack' : Running(i)' /\ stack'[i].workflow = v
  <2> SUFFICES ASSUME NEW v \in Workflow, workflows'[v] = "RUNNING", v \notin abandoned
               PROVE  \E i \in DOMAIN stack' : Running(i)' /\ stack'[i].workflow = v
    OBVIOUS
  <2>1. CASE v = w
    BY <1>1, <1>2, <2>1 DEF Running, Kept
  <2>2. CASE v # w
    BY <1>2, <1>3, <1>5, <2>2 DEF RunInv, RunnersOK
  <2> QED BY <2>1, <2>2
<1> QED BY <1>6, <1>7, <1>8 DEF RunnersOK

\* Lemma: a step that starts no runner and changes no RUNNING workflow keeps the
\* runners; what it stops has been abandoned.
LEMMA RunnersKept ==
    ASSUME NEW others, OtherCalls(others), RunInv(others), TypeOK(others)',
           abandoned \subseteq abandoned',
           \A w \in Workflow : workflows'[w] = "RUNNING" <=> workflows[w] = "RUNNING",
           \A i \in DOMAIN stack' : Running(i)' =>
               i \in DOMAIN stack /\ Running(i) /\ stack'[i].workflow = stack[i].workflow,
           \A i \in DOMAIN stack : Running(i) =>
               \/ i \in DOMAIN stack' /\ Running(i)' /\ stack'[i].workflow = stack[i].workflow
               \/ stack[i].workflow \in abandoned'
    PROVE  RunnersOK'
<1>1. \A i \in DOMAIN stack : stack[i].call = "execute" => stack[i].workflow \in Workflow
  BY Calls DEF RunInv
<1>2. \A i \in DOMAIN stack' : Running(i)' => workflows'[stack'[i].workflow] = "RUNNING"
  BY <1>1 DEF RunInv, RunnersOK, Running
<1>3. \A i, j \in DOMAIN stack' :
          Running(i)' /\ Running(j)' /\ stack'[i].workflow = stack'[j].workflow => i = j
  BY DEF RunInv, RunnersOK
<1>4. \A w \in Workflow : workflows'[w] = "RUNNING" =>
          w \in abandoned' \/ \E i \in DOMAIN stack' : Running(i)' /\ stack'[i].workflow = w
  BY DEF RunInv, RunnersOK
<1> QED BY <1>2, <1>3, <1>4 DEF RunnersOK

\* Lemma: an innermost call that goes on goes on running.
LEMMA RunnersMove ==
    ASSUME NEW others, OtherCalls(others), RunInv(others), TypeOK(others)',
           NEW f, Changed(f), f.workflow = Top.workflow,
           f.call = "execute", Top.call = "execute",
           Top.at \notin Finished, f.at \notin Finished, UNCHANGED <<workflows, abandoned>>
    PROVE  RunnersOK'
<1>1. Len(stack) \in Nat \ {0} /\ DOMAIN stack = 1 .. Len(stack) /\ Top = stack[Len(stack)]
  BY Calls DEF RunInv, Changed, Top, Last
<1>2. /\ DOMAIN stack' = DOMAIN stack
      /\ stack'[Len(stack)] = f
      /\ \A i \in DOMAIN stack : i # Len(stack) => Kept(i)
  BY OthersStay DEF RunInv
<1>3. \A i \in DOMAIN stack : (Running(i)' <=> Running(i)) /\ (Running(i) => stack'[i].workflow = stack[i].workflow)
  BY <1>1, <1>2 DEF Running, Kept
<1> QED BY <1>2, <1>3, RunnersKept

\* Lemma: an innermost call that comes to its end leaves no other runner.
LEMMA RunnersFinish ==
    ASSUME NEW others, OtherCalls(others), RunInv(others), TypeOK(others)',
           NEW f, Changed(f), f.workflow = Top.workflow,
           f.call = "execute", Top.call = "execute", f.at \in Finished,
           Top.at \notin Finished, workflows' = [workflows EXCEPT ![Top.workflow] = f.at],
           abandoned' = abandoned
    PROVE  RunnersOK'
<1>1. Len(stack) \in Nat \ {0} /\ DOMAIN stack = 1 .. Len(stack) /\ Top = stack[Len(stack)]
  BY Calls DEF RunInv, Changed, Top, Last
<1>2. /\ DOMAIN stack' = DOMAIN stack
      /\ stack'[Len(stack)] = f
      /\ \A i \in DOMAIN stack : i # Len(stack) => Kept(i)
  BY OthersStay DEF RunInv
<1>3. \A i \in DOMAIN stack : stack[i].call = "execute" => stack[i].workflow \in Workflow
  BY Calls DEF RunInv
<1>4. /\ workflows'[Top.workflow] # "RUNNING"
      /\ \A w \in Workflow : w # Top.workflow => workflows'[w] = workflows[w]
  BY <1>1, <1>3 DEF RunInv, TypeOK, Finished
<1>5. \A i \in DOMAIN stack : i = Len(stack) => Running(i) /\ ~Running(i)'
  BY <1>1, <1>2 DEF Running, Kept
<1>6. \A i \in DOMAIN stack : i # Len(stack) =>
          (Running(i)' <=> Running(i)) /\ (Running(i) => stack'[i] = stack[i])
  BY <1>2 DEF Running, Kept
<1>7. \A i \in DOMAIN stack : Running(i)' => Running(i) /\ stack[i].workflow # Top.workflow
  BY <1>1, <1>5, <1>6 DEF RunInv, RunnersOK
<1>8. \A i \in DOMAIN stack' : Running(i)' => workflows'[stack'[i].workflow] = "RUNNING"
  BY <1>2, <1>3, <1>4, <1>5, <1>6, <1>7 DEF RunInv, RunnersOK
<1>9. \A i, j \in DOMAIN stack' :
          Running(i)' /\ Running(j)' /\ stack'[i].workflow = stack'[j].workflow => i = j
  BY <1>2, <1>5, <1>6 DEF RunInv, RunnersOK
<1>10. \A w \in Workflow : workflows'[w] = "RUNNING" =>
          w \in abandoned' \/ \E i \in DOMAIN stack' : Running(i)' /\ stack'[i].workflow = w
  <2> SUFFICES ASSUME NEW w \in Workflow, workflows'[w] = "RUNNING", w \notin abandoned
               PROVE  \E i \in DOMAIN stack' : Running(i)' /\ stack'[i].workflow = w
    OBVIOUS
  <2>1. w # Top.workflow /\ workflows[w] = "RUNNING"
    BY <1>4
  <2>2. PICK i \in DOMAIN stack : Running(i) /\ stack[i].workflow = w
    BY <2>1 DEF RunInv, RunnersOK
  <2>3. i # Len(stack)
    BY <1>1, <2>1, <2>2
  <2> QED BY <1>2, <1>6, <2>2, <2>3
<1> QED BY <1>8, <1>9, <1>10 DEF RunnersOK

\* Lemma: an innermost call that is gone had ended, or has been abandoned.
LEMMA RunnersPop ==
    ASSUME NEW others, OtherCalls(others), RunInv(others), TypeOK(others)',
           Popped, UNCHANGED workflows, abandoned \subseteq abandoned',
           Top.call = "execute" =>
               \/ Top.at \in Finished
               \/ workflows[Top.workflow] = "RUNNING" => Top.workflow \in abandoned'
    PROVE  RunnersOK'
<1>1. Len(stack) \in Nat \ {0} /\ DOMAIN stack = 1 .. Len(stack) /\ Top = stack[Len(stack)]
  BY Calls DEF RunInv, Popped, Top, Last
<1>2. /\ DOMAIN stack' = 1 .. Len(stack) - 1
      /\ \A i \in DOMAIN stack' : i \in DOMAIN stack /\ Kept(i)
      /\ \A i \in DOMAIN stack : i # Len(stack) => i \in DOMAIN stack'
  BY <1>1 DEF Popped, TypeOK
<1>3. \A i \in DOMAIN stack' : (Running(i)' <=> Running(i)) /\ (Running(i) => stack'[i] = stack[i])
  BY <1>2 DEF Running, Kept
<1>4. Running(Len(stack)) => Top.workflow \in abandoned'
  BY <1>1 DEF Running, RunInv, RunnersOK
<1>5. \A i \in DOMAIN stack : Running(i) =>
          \/ i \in DOMAIN stack' /\ Running(i)' /\ stack'[i].workflow = stack[i].workflow
          \/ stack[i].workflow \in abandoned'
  BY <1>1, <1>2, <1>3, <1>4
<1> QED BY <1>2, <1>3, <1>5, RunnersKept

\* Lemma: a cancelled workflow gets a call that runs nothing.
LEMMA RunnersCancel ==
    ASSUME NEW others, OtherCalls(others), RunInv(others), TypeOK(others)',
           NEW w \in Workflow, NEW f, Pushed(f), f.at \in Finished,
           workflows[w] = "PENDING", workflows' = [workflows EXCEPT ![w] = "CANCELLED"],
           abandoned' = abandoned
    PROVE  RunnersOK'
<1>1. Len(stack) \in Nat /\ DOMAIN stack = 1 .. Len(stack)
  BY Calls DEF RunInv
<1>2. /\ DOMAIN stack' = 1 .. Len(stack) + 1
      /\ \A i \in DOMAIN stack' : i \notin DOMAIN stack => stack'[i] = f
      /\ \A i \in DOMAIN stack : i \in DOMAIN stack' /\ Kept(i)
  BY <1>1 DEF Pushed, TypeOK
<1>3. \A i \in DOMAIN stack' : (Running(i)' <=> Running(i)) /\ (Running(i) => stack'[i] = stack[i])
  BY <1>2 DEF Running, Kept
<1>4. \A v \in Workflow : workflows'[v] = "RUNNING" <=> workflows[v] = "RUNNING"
  BY DEF RunInv, TypeOK
<1> QED BY <1>2, <1>3, <1>4, RunnersKept DEF Running, Kept

-----------------------------------------------------------------------------
(* The inductive invariant *)

LEMMA RunInit == ASSUME NEW others, Init PROVE RunInv(others)
BY DEF Init, RunInv, TypeOK, RunnersOK

\* Lemma: a call of execute() begins, over a call that waits for it or over none.
LEMMA RunBegin ==
    ASSUME NEW others, OtherCalls(others), RunInv(others), NEW w \in Workflow,
           NEW below \in Seq(Frame \union others), Begin(w, below), Len(below) = Len(stack),
           \A i \in 1 .. Len(stack) :
               below[i] = stack[i] \/ (below[i].call # "execute" /\ stack[i].call # "execute")
    PROVE  RunInv(others)'
<1> DEFINE f == [call |-> "execute", workflow |-> w, step |-> 0, at |-> "STARTED"]
<1>1. TypeOK(others)' /\ Pushed(f)
  BY BeginType DEF RunInv
<1>2. f.call = "execute" /\ f.workflow = w /\ f.at \notin Finished
  BY DEF Finished
<1> HIDE DEF f
<1> QED BY <1>1, <1>2, RunnersBegin DEF Begin, SetWorkflow, RunInv

\* Lemma: a step of another component, which leaves the workflows and the calls of
\* the engine alone.
LEMMA RunAround ==
    ASSUME NEW others, OtherCalls(others), RunInv(others), TypeOK(others)',
           UNCHANGED workflowVars,
           \A i \in DOMAIN stack : stack[i].call = "execute" => i \in DOMAIN stack' /\ stack'[i] = stack[i],
           \A i \in DOMAIN stack' : stack'[i].call = "execute" => i \in DOMAIN stack /\ stack'[i] = stack[i]
    PROVE  RunInv(others)'
<1>1. \A i \in DOMAIN stack' : Running(i)' => i \in DOMAIN stack /\ Running(i) /\ stack'[i] = stack[i]
  BY DEF Running
<1>2. \A i \in DOMAIN stack : Running(i) => i \in DOMAIN stack' /\ Running(i)' /\ stack'[i] = stack[i]
  BY DEF Running
<1>3. UNCHANGED <<workflows, abandoned>>
  BY DEF workflowVars
<1> QED BY <1>1, <1>2, <1>3, RunnersKept DEF RunInv

LEMMA RunStep ==
    ASSUME NEW others, OtherCalls(others), RunInv(others), [Next]_<<stack, workflowVars>>
    PROVE  RunInv(others)'
<1> USE DEF RunInv
<1>1. CASE Initialize \/ Start \/ Stop
  BY <1>1 DEF Initialize, Start, Stop, Shift, TypeOK, RunnersOK, Running
<1>2. ASSUME NEW w \in Workflow, Register(w)
      PROVE  RunInv(others)'
  <2>1. TypeOK(others)'
    BY <1>2 DEF Register, SetWorkflow, TypeOK
  <2>2. \A v \in Workflow : workflows'[v] = "RUNNING" <=> workflows[v] = "RUNNING"
    BY <1>2 DEF Register, SetWorkflow, TypeOK
  <2> QED BY <1>2, <2>1, <2>2, RunnersKept DEF Register, Running
<1>3. ASSUME NEW w \in Workflow, Cancel(w)
      PROVE  RunInv(others)'
  <2> DEFINE f == [call |-> "execute", workflow |-> w, step |-> 0, at |-> "CANCELLED"]
  <2>1. TypeOK(others)' /\ Pushed(f) /\ f.at \in Finished
    BY <1>3, CancelType DEF Finished
  <2> HIDE DEF f
  <2> QED BY <1>3, <2>1, RunnersCancel DEF Cancel, SetWorkflow
<1>4. ASSUME NEW w \in Workflow, Execute(w)
      PROVE  RunInv(others)'
  BY <1>4, RunBegin DEF Execute, TypeOK
<1>5. CASE BeginStep
  <2> DEFINE f == [Top EXCEPT !.step = @ + 1, !.at = "STEP_STARTED"]
  <2>1. Top \in Frame /\ Top.call = "execute" /\ Top.at \in {"STARTED", "STEP_COMPLETED"}
    BY <1>5, TopIsFrame DEF BeginStep, TopIs
  <2>2. f.call = "execute" /\ f.workflow = Top.workflow /\ f.at = "STEP_STARTED"
    BY <2>1 DEF Frame
  <2>3. TypeOK(others)' /\ Changed(f)
    BY <1>5, BeginStepType
  <2> HIDE DEF f
  <2> QED BY <1>5, <2>1, <2>2, <2>3, RunnersMove DEF BeginStep, workflowVars, Finished
<1>6. CASE CallAction
  <2>1. Top \in Frame /\ Top.call = "execute" /\ Top.at = "STEP_STARTED"
    BY <1>6, TopIsFrame DEF CallAction, TopIs
  <2> DEFINE f == [Top EXCEPT !.at = "action"]
  <2>2. f.call = "execute" /\ f.workflow = Top.workflow /\ f.at = "action"
    BY <2>1 DEF Frame
  <2>3. TypeOK(others)' /\ Changed(f)
    BY <1>6, CallActionType
  <2> HIDE DEF f
  <2> QED BY <1>6, <2>1, <2>2, <2>3, RunnersMove DEF CallAction, Finished
<1>7. CASE ActionReturns
  <2>1. Top \in Frame /\ Top.call = "execute" /\ Top.at = "action"
    BY <1>7, TopIsFrame DEF ActionReturns, TopIs
  <2> DEFINE f == [Top EXCEPT !.at = "STEP_COMPLETED"]
  <2>2. f.call = "execute" /\ f.workflow = Top.workflow /\ f.at = "STEP_COMPLETED"
    BY <2>1 DEF Frame
  <2>3. TypeOK(others)' /\ Changed(f)
    BY <1>7, ActionReturnsType
  <2> HIDE DEF f
  <2> QED BY <1>7, <2>1, <2>2, <2>3, RunnersMove DEF ActionReturns, workflowVars, Finished
<1>8. ASSUME NEW result \in Finished, Busy, Top.call = "execute", Top.at \notin Finished, Finish(result)
      PROVE  RunInv(others)'
  <2> DEFINE f == [Top EXCEPT !.at = result]
  <2>1. Top \in Frame /\ Top.call = "execute"
    BY <1>8, TopIsFrame
  <2>2. f.call = "execute" /\ f.workflow = Top.workflow /\ f.at = result
    BY <2>1 DEF Frame
  <2>3. TypeOK(others)' /\ Changed(f)
    BY <1>8, FinishType
  <2> HIDE DEF f
  <2> QED BY <1>8, <2>2, <2>3, RunnersFinish DEF Finish
<1>9. CASE ActionRaises
  BY <1>8, <1>9 DEF ActionRaises, TopIs, Finished
<1>10. CASE Complete
  BY <1>8, <1>10 DEF Complete, TopIs, Finished
<1>11. CASE ExecuteReturns
  BY <1>11, ExecuteReturnsType, RunnersPop DEF ExecuteReturns, TopIs, workflowVars
<1>12. CASE ExecuteRaises
  BY <1>12, ExecuteRaisesType, RunnersPop DEF ExecuteRaises
<1>13. CASE UNCHANGED <<stack, workflowVars>>
  BY <1>13 DEF workflowVars, TypeOK, RunnersOK, Running
<1> QED BY <1>1, <1>2, <1>3, <1>4, <1>5, <1>6, <1>7, <1>9, <1>10, <1>11, <1>12, <1>13 DEF Next

THEOREM InvariantCorrect == Spec => []RunInv({})
<1>1. OtherCalls({})
  BY DEF OtherCalls
<1>2. Init => RunInv({})
  BY RunInit
<1>3. RunInv({}) /\ [Next]_<<stack, workflowVars>> => RunInv({})'
  BY <1>1, RunStep
<1> QED BY <1>2, <1>3, PTL DEF Spec

\* Lemma: the invariant is the property, seen from the calls.
LEMMA RunnersOfCalls ==
    ASSUME NEW others, OtherCalls(others), RunInv(others)
    PROVE  RunningHasOneRunner
<1>1. \A i \in DOMAIN stack, w \in Workflow :
          Executing(stack[i], w) <=> Running(i) /\ stack[i].workflow = w
  BY DEF Executing, Running
<1> QED BY <1>1 DEF RunInv, RunnersOK, RunningHasOneRunner

\* A RUNNING workflow is run by one call and no other, unless an exception left it:
\* execute() cannot be entered twice for one workflow, however calls nest.
THEOREM RunnersAreSingle == Spec => []RunningHasOneRunner
<1>1. RunInv({}) => RunningHasOneRunner
  BY RunnersOfCalls DEF OtherCalls
<1> QED BY <1>1, InvariantCorrect, PTL

FinishedKept == \A w \in Workflow : workflows[w] \in Finished => workflows'[w] = workflows[w]

\* Lemma: a workflow enters another state by the operation for it.
LEMMA FinalSet ==
    ASSUME NEW others, TypeOK(others), NEW w \in Workflow, NEW from \in {"ABSENT", "PENDING"},
           NEW to, SetWorkflow(w, from, to)
    PROVE  FinishedKept
BY DEF SetWorkflow, TypeOK, Finished, FinishedKept

\* Lemma: _finish stores over a RUNNING workflow only.
LEMMA FinalFinish ==
    ASSUME NEW others, OtherCalls(others), RunInv(others), Busy, Top.call = "execute",
           Top.at \notin Finished, NEW result, Finish(result)
    PROVE  FinishedKept /\ Top.workflow \in Workflow /\ workflows[Top.workflow] = "RUNNING"
<1>1. Len(stack) \in DOMAIN stack /\ Top = stack[Len(stack)] /\ Top \in Frame
  BY TopIsFrame, CallsAre DEF RunInv
<1>2. workflows[Top.workflow] = "RUNNING" /\ Top.workflow \in Workflow
  BY <1>1 DEF RunInv, RunnersOK, Running, Frame
<1> QED BY <1>2 DEF Finish, RunInv, TypeOK, Finished, FinishedKept

LEMMA FinalStep ==
    ASSUME NEW others, OtherCalls(others), RunInv(others), [Next]_<<stack, workflowVars>>
    PROVE  FinishedKept
<1> USE DEF RunInv
<1>1. CASE UNCHANGED workflows
  BY <1>1 DEF FinishedKept
<1>2. CASE ActionRaises \/ Complete
  BY <1>2, FinalFinish DEF ActionRaises, Complete, TopIs, Finished
<1>3. ASSUME NEW w \in Workflow, Register(w) \/ Cancel(w) \/ Execute(w)
      PROVE  FinishedKept
  BY <1>3, FinalSet DEF Register, Cancel, Execute, Begin
<1> QED BY <1>1, <1>2, <1>3
        DEF Next, Initialize, Start, Stop, Shift, BeginStep, CallAction, ActionReturns,
            ExecuteReturns, ExecuteRaises, workflowVars

\* What is COMPLETED, FAILED or CANCELLED is never stored over, not even by the
\* unconditional store of _finish: the call that makes it is the one runner.
THEOREM FinishedStays == Spec => FinishedIsFinal
<1>1. RunInv({}) /\ [Next]_<<stack, workflowVars>> => FinishedKept
  BY FinalStep DEF OtherCalls
<1> QED BY <1>1, InvariantCorrect, PTL DEF Spec, FinishedIsFinal, FinishedKept

-----------------------------------------------------------------------------
(* The steps *)

\* How many actions were called, by the point a running call has reached.
Paced(f, n) ==
    /\ f.step <= Steps
    /\ f.at = "STARTED" => f.step = 0 /\ n = 0
    /\ f.at = "STEP_STARTED" => f.step >= 1 /\ n = f.step - 1
    /\ f.at \in {"action", "STEP_COMPLETED"} => f.step >= 1 /\ n = f.step

PaceOK == \A i \in DOMAIN stack : Running(i) => Paced(stack[i], Len(ran[stack[i].workflow]))

StepInv(others) == RunInv(others) /\ RanOnceInOrder /\ PaceOK

\* Lemma: a step that calls no action keeps the pace of the calls it leaves alone.
LEMMA PaceKept ==
    ASSUME PaceOK, ran' = ran,
           \A i \in DOMAIN stack' : Running(i)' =>
               \/ i \in DOMAIN stack /\ stack'[i] = stack[i]
               \/ Paced(stack'[i], Len(ran[stack'[i].workflow]))
    PROVE  PaceOK'
BY DEF PaceOK, Running, Paced

LEMMA OrderKept ==
    ASSUME RanOnceInOrder, UNCHANGED <<workflows, ran>>
    PROVE  RanOnceInOrder'
BY DEF RanOnceInOrder

\* Lemma: a step that ends the innermost call, or calls none, keeps the order.
LEMMA StepPop ==
    ASSUME NEW others, OtherCalls(others), StepInv(others), RunInv(others)',
           Popped, UNCHANGED <<workflows, ran>>
    PROVE  StepInv(others)'
<1>1. \A i \in DOMAIN stack' : Running(i)' => i \in DOMAIN stack /\ stack'[i] = stack[i]
  BY Calls DEF Popped, StepInv, RunInv, TypeOK, Kept, Running
<1> QED BY <1>1, PaceKept, OrderKept DEF StepInv

LEMMA StepPush ==
    ASSUME NEW others, OtherCalls(others), StepInv(others), RunInv(others)',
           NEW w \in Workflow, NEW f, Pushed(f), ran' = ran,
           f.at \in Finished \/ Paced(f, Len(ran[f.workflow])),
           NEW to \in {"RUNNING", "CANCELLED"}, SetWorkflow(w, "PENDING", to)
    PROVE  StepInv(others)'
<1>1. \A i \in DOMAIN stack' : Running(i)' =>
          stack'[i] = f \/ (i \in DOMAIN stack /\ stack'[i] = stack[i])
  <2>1. Len(stack) \in Nat /\ DOMAIN stack = 1 .. Len(stack)
    BY Calls DEF StepInv, RunInv
  <2>2. DOMAIN stack' = 1 .. Len(stack) + 1
    BY <2>1 DEF Pushed, RunInv, TypeOK
  <2> QED BY <2>1, <2>2 DEF Pushed, Kept, Running
<1>2. PaceOK'
  BY <1>1, PaceKept DEF Running, StepInv
<1>3. RanOnceInOrder'
  BY DEF RanOnceInOrder, StepInv, SetWorkflow, RunInv, TypeOK
<1> QED BY <1>2, <1>3 DEF StepInv

\* Lemma: the innermost call goes on without calling an action.
LEMMA StepMove ==
    ASSUME NEW others, OtherCalls(others), StepInv(others), RunInv(others)',
           NEW f, Changed(f), UNCHANGED <<workflows, ran>>,
           Paced(f, Len(ran[f.workflow]))
    PROVE  StepInv(others)'
<1>1. \A i \in DOMAIN stack' : Running(i)' =>
          stack'[i] = f \/ (i \in DOMAIN stack /\ stack'[i] = stack[i])
  BY OthersStay DEF StepInv, RunInv, Kept, Running
<1>2. PaceOK'
  BY <1>1, PaceKept DEF StepInv
<1> QED BY <1>2, OrderKept DEF StepInv

\* Lemma: the innermost call calls the action of its step, which is the next one.
LEMMA StepAction ==
    ASSUME NEW others, OtherCalls(others), StepInv(others), RunInv(others)',
           CallAction
    PROVE  StepInv(others)'
<1> DEFINE v == Top.workflow
           f == [Top EXCEPT !.at = "action"]
<1>1. /\ Len(stack) \in DOMAIN stack /\ Top = stack[Len(stack)] /\ Top \in Frame
      /\ Top.at = "STEP_STARTED" /\ Top.call = "execute"
  BY TopIsFrame, CallsAre DEF CallAction, TopIs, StepInv, RunInv
<1>2. Running(Len(stack)) /\ v \in Workflow
  BY <1>1 DEF Running, Finished, Frame
<1>3. Top.step <= Steps /\ Top.step >= 1 /\ Len(ran[v]) = Top.step - 1 /\ Top.step \in Nat
  BY <1>1, <1>2 DEF StepInv, PaceOK, Paced, Frame
<1>4. workflows[v] = "RUNNING"
  BY <1>1, <1>2 DEF StepInv, RunInv, RunnersOK
<1>5. ran[v] \in Seq(Nat) /\ ran' = [ran EXCEPT ![v] = Append(ran[v], Top.step)]
  BY <1>2 DEF CallAction, StepInv, RunInv, TypeOK
<1>6. /\ Len(ran'[v]) = Top.step
      /\ ran'[v][Top.step] = Top.step
      /\ \A i \in 1 .. Top.step - 1 : ran'[v][i] = ran[v][i]
      /\ \A w \in Workflow : w # v => ran'[w] = ran[w]
  <2>1. ran \in [Workflow -> Seq(Nat)]
    BY DEF StepInv, RunInv, TypeOK
  <2>2. ran'[v] = Append(ran[v], Top.step) /\ \A w \in Workflow : w # v => ran'[w] = ran[w]
    BY <1>2, <1>5, <2>1
  <2> HIDE DEF v
  <2> QED BY <1>3, <1>5, <2>2
<1>7. RanOnceInOrder'
  <2> SUFFICES ASSUME NEW w \in Workflow
      PROVE  LET n == Len(ran'[w]) IN
             /\ \A i \in 1 .. n : ran'[w][i] = i
             /\ workflows'[w] \in {"ABSENT", "PENDING", "CANCELLED"} => n = 0
             /\ workflows'[w] = "COMPLETED" => n = Steps
             /\ workflows'[w] = "FAILED" => n \in 1 .. Steps
    BY DEF RanOnceInOrder
  <2>1. workflows' = workflows
    BY DEF CallAction
  <2>2. CASE w # v
    BY <1>6, <2>1, <2>2 DEF StepInv, RanOnceInOrder
  <2>3. CASE w = v
    <3>1. \A i \in 1 .. Top.step - 1 : ran[v][i] = i
      BY <1>2, <1>3 DEF StepInv, RanOnceInOrder
    <3>2. \A i \in 1 .. Top.step : ran'[v][i] = i
      <4> HIDE DEF v
      <4> QED BY <1>3, <1>6, <3>1
    <3> QED BY <1>4, <1>6, <2>1, <2>3, <3>2
  <2> QED BY <2>2, <2>3
<1>8. Changed(f)
  BY CallActionType DEF StepInv, RunInv
<1>9. f.workflow = v /\ f.step = Top.step /\ f.at = "action"
  BY <1>1 DEF Frame
<1>10. /\ DOMAIN stack' = DOMAIN stack
       /\ stack'[Len(stack)] = f
       /\ \A i \in DOMAIN stack : i # Len(stack) => Kept(i)
  BY <1>8, OthersStay DEF StepInv, RunInv
<1>11. \A i \in DOMAIN stack : Running(i) /\ i # Len(stack) => stack[i].workflow \in Workflow \ {v}
  BY <1>1, <1>2, Calls DEF StepInv, RunInv, RunnersOK, Running
<1>12. PaceOK'
  <2> SUFFICES ASSUME NEW i \in DOMAIN stack', Running(i)'
               PROVE  Paced(stack'[i], Len(ran'[stack'[i].workflow]))
    BY DEF PaceOK, Paced
  <2>1. CASE i = Len(stack)
    <3> HIDE DEF f, v
    <3> QED BY <1>3, <1>6, <1>9, <1>10, <2>1 DEF Paced
  <2>2. CASE i # Len(stack)
    <3>1. Running(i) /\ stack'[i] = stack[i] /\ i \in DOMAIN stack
      BY <1>10, <2>2 DEF Running, Kept, Kept
    <3>2. ran'[stack[i].workflow] = ran[stack[i].workflow]
      BY <1>6, <1>11, <2>2, <3>1
    <3> QED BY <3>1, <3>2 DEF StepInv, PaceOK
  <2> QED BY <2>1, <2>2
<1> QED BY <1>7, <1>12 DEF StepInv

\* Lemma: a workflow that ends has run all its steps, or failed in one of them.
LEMMA StepFinish ==
    ASSUME NEW others, OtherCalls(others), StepInv(others), RunInv(others)',
           NEW result \in {"COMPLETED", "FAILED"}, Busy, Top.call = "execute",
           Top.at \notin Finished, Finish(result),
           Len(ran[Top.workflow]) \in 1 .. Steps,
           result = "COMPLETED" => Len(ran[Top.workflow]) = Steps
    PROVE  StepInv(others)'
<1>1. Top \in Frame
  BY TopIsFrame DEF StepInv, RunInv
<1>2. Changed([Top EXCEPT !.at = result])
  BY FinishType DEF StepInv, RunInv, Finished
<1>3. [Top EXCEPT !.at = result].at \in Finished
  BY <1>1 DEF Frame, Finished
<1>4. \A i \in DOMAIN stack' : Running(i)' => i \in DOMAIN stack /\ stack'[i] = stack[i]
  BY <1>2, <1>3, OthersStay DEF StepInv, RunInv, Running, Kept
<1>5. PaceOK'
  BY <1>4, PaceKept DEF Finish, StepInv
<1>6. RanOnceInOrder'
  BY <1>1 DEF Finish, StepInv, RanOnceInOrder, RunInv, TypeOK, Frame
<1> QED BY <1>5, <1>6 DEF StepInv

\* Lemma: a workflow that begins has run no step.
LEMMA StepBegin ==
    ASSUME Steps \in Nat, NEW others, OtherCalls(others), StepInv(others), NEW w \in Workflow,
           NEW below \in Seq(Frame \union others), Begin(w, below), Len(below) = Len(stack),
           \A i \in 1 .. Len(stack) :
               below[i] = stack[i] \/ (below[i].call # "execute" /\ stack[i].call # "execute")
    PROVE  StepInv(others)'
<1> DEFINE f == [call |-> "execute", workflow |-> w, step |-> 0, at |-> "STARTED"]
<1>1. Pushed(f) /\ RunInv(others)'
  BY BeginType, RunBegin DEF StepInv, RunInv
<1>2. SetWorkflow(w, "PENDING", "RUNNING") /\ ran' = ran
  BY DEF Begin
<1>3. Len(ran[w]) = 0
  BY <1>2 DEF SetWorkflow, StepInv, RanOnceInOrder
<1>4. Paced(f, Len(ran[f.workflow]))
  BY <1>3 DEF Paced
<1> HIDE DEF f
<1> QED BY <1>1, <1>2, <1>4, StepPush

\* Lemma: a step of another component, which leaves the workflows and the calls of
\* the engine alone.
LEMMA StepAround ==
    ASSUME NEW others, OtherCalls(others), StepInv(others), TypeOK(others)',
           UNCHANGED workflowVars,
           \A i \in DOMAIN stack : stack[i].call = "execute" => i \in DOMAIN stack' /\ stack'[i] = stack[i],
           \A i \in DOMAIN stack' : stack'[i].call = "execute" => i \in DOMAIN stack /\ stack'[i] = stack[i]
    PROVE  StepInv(others)'
<1>1. RunInv(others)'
  BY RunAround DEF StepInv
<1>2. \A i \in DOMAIN stack' : Running(i)' => i \in DOMAIN stack /\ stack'[i] = stack[i]
  BY DEF Running
<1> QED BY <1>1, <1>2, PaceKept, OrderKept DEF StepInv, workflowVars

LEMMA StepInit == ASSUME NEW others, Init PROVE StepInv(others)
BY RunInit DEF Init, StepInv, RanOnceInOrder, PaceOK

LEMMA StepStep ==
    ASSUME Steps \in Nat, NEW others, OtherCalls(others), StepInv(others), [Next]_<<stack, workflowVars>>
    PROVE  StepInv(others)'
<1>1. RunInv(others)'
  BY RunStep DEF StepInv
<1>2. Busy /\ Top.call = "execute" =>
              /\ Len(stack) \in DOMAIN stack /\ Top = stack[Len(stack)] /\ Top \in Frame
              /\ Top.at \notin Finished => Paced(Top, Len(ran[Top.workflow]))
  BY TopIsFrame, CallsAre DEF StepInv, RunInv, PaceOK, Running
<1>3. CASE BeginStep
  <2>0. Busy /\ Top.call = "execute"
    BY <1>3 DEF BeginStep, TopIs
  <2> DEFINE f == [Top EXCEPT !.step = @ + 1, !.at = "STEP_STARTED"]
  <2>1. Top.at \in {"STARTED", "STEP_COMPLETED"} /\ Top.step < Steps /\ Top.step \in Nat
    BY <1>2, <2>0, <1>3 DEF BeginStep, TopIs, Frame
  <2>2. Len(ran[Top.workflow]) = Top.step
    BY <1>2, <2>0, <2>1 DEF Paced, Finished
  <2>3. f.workflow = Top.workflow /\ f.at = "STEP_STARTED" /\ f.step = Top.step + 1
    BY <1>2, <2>0 DEF Frame
  <2>4. Changed(f)
    BY <1>3, BeginStepType DEF StepInv, RunInv
  <2> HIDE DEF f
  <2>5. Paced(f, Len(ran[f.workflow]))
    BY <2>1, <2>2, <2>3 DEF Paced
  <2> QED BY <1>1, <1>3, <2>4, <2>5, StepMove DEF BeginStep, workflowVars
<1>4. CASE ActionReturns
  <2>0. Busy /\ Top.call = "execute"
    BY <1>4 DEF ActionReturns, TopIs
  <2> DEFINE f == [Top EXCEPT !.at = "STEP_COMPLETED"]
  <2>1. Top.at = "action"
    BY <1>4 DEF ActionReturns, TopIs
  <2>2. f.workflow = Top.workflow /\ f.at = "STEP_COMPLETED" /\ f.step = Top.step
    BY <1>2, <2>0 DEF Frame
  <2>3. Changed(f)
    BY <1>4, ActionReturnsType DEF StepInv, RunInv
  <2> HIDE DEF f
  <2>4. Paced(f, Len(ran[f.workflow]))
    BY <1>2, <2>0, <2>1, <2>2 DEF Paced, Finished
  <2> QED BY <1>1, <1>4, <2>3, <2>4, StepMove DEF ActionReturns, workflowVars
<1>5. CASE ActionRaises \/ Complete
  <2>0. Busy /\ Top.call = "execute"
    BY <1>5 DEF ActionRaises, Complete, TopIs
  <2>1. Top.at \in {"action", "STEP_COMPLETED"} /\ (Complete => Top.step = Steps)
    BY <1>5 DEF ActionRaises, Complete, TopIs
  <2>2. Len(ran[Top.workflow]) = Top.step /\ Top.step \in 1 .. Steps
    BY <1>2, <2>0, <2>1 DEF Paced, Finished, Frame
  <2>3. Top.at \notin Finished
    BY <2>1 DEF Finished
  <2>4. CASE ActionRaises
    BY <1>1, <2>0, <2>2, <2>3, <2>4, StepFinish DEF ActionRaises
  <2>5. CASE Complete
    BY <1>1, <2>0, <2>1, <2>2, <2>3, <2>5, StepFinish DEF Complete
  <2> QED BY <1>5, <2>4, <2>5
<1>6. CASE ExecuteReturns
  BY <1>1, <1>6, ExecuteReturnsType, StepPop DEF ExecuteReturns, workflowVars, StepInv, RunInv
<1>7. CASE ExecuteRaises
  BY <1>1, <1>7, ExecuteRaisesType, StepPop DEF ExecuteRaises, StepInv, RunInv
<1>8. CASE CallAction
  BY <1>1, <1>8, StepAction
<1>9. CASE Initialize \/ Start \/ Stop \/ UNCHANGED <<stack, workflowVars>>
  BY <1>1, <1>9, OrderKept, PaceKept
     DEF Initialize, Start, Stop, Shift, workflowVars, StepInv
<1>10. ASSUME NEW w \in Workflow, Register(w)
       PROVE  StepInv(others)'
  <2>1. RanOnceInOrder'
    BY <1>10 DEF Register, SetWorkflow, RanOnceInOrder, StepInv, RunInv, TypeOK
  <2>2. PaceOK'
    BY <1>10, PaceKept DEF Register, StepInv
  <2> QED BY <1>1, <2>1, <2>2 DEF StepInv
<1>11. ASSUME NEW w \in Workflow, Cancel(w)
       PROVE  StepInv(others)'
  BY <1>1, <1>11, CancelType, StepPush DEF Cancel, StepInv, RunInv, Finished
<1>12. ASSUME NEW w \in Workflow, Execute(w)
       PROVE  StepInv(others)'
  BY <1>12, StepBegin DEF Execute, StepInv, RunInv, TypeOK
<1> QED BY <1>3, <1>4, <1>5, <1>6, <1>7, <1>8, <1>9, <1>10, <1>11, <1>12 DEF Next

\* A workflow runs at most once, its steps one after the other from the first, all of
\* them when it is COMPLETED: the loop of execute(), whatever its steps and handlers call.
THEOREM RunsOnceInOrder == ASSUME Steps \in Nat PROVE Spec => []RanOnceInOrder
<1>1. Init => StepInv({})
  BY StepInit
<1>2. StepInv({}) /\ [Next]_<<stack, workflowVars>> => StepInv({})'
  BY StepStep DEF OtherCalls
<1>3. StepInv({}) => RanOnceInOrder
  BY DEF StepInv
<1> QED BY <1>1, <1>2, <1>3, PTL DEF Spec

\* The two together: nested calls, errors and late results leave a workflow with one
\* execution at most, by one call of execute() at a time.
THEOREM WorkflowsAreSound == ASSUME Steps \in Nat PROVE Spec => []WorkflowsRunOnce
<1>1. RanOnceInOrder /\ RunningHasOneRunner <=> WorkflowsRunOnce
  BY DEF WorkflowsRunOnce
<1> QED BY <1>1, RunnersAreSingle, RunsOnceInOrder, PTL
-----------------------------------------------------------------------------
(* Services that call the engine, and whose calls are on its stack *)

\* A new call, made by host code.
Entered ==
    /\ MayCall /\ Len(stack') = Len(stack) + 1
    /\ \A i \in 1 .. Len(stack) : stack'[i] = stack[i]

\* The innermost call moves on.
Moved ==
    /\ Busy /\ Len(stack') = Len(stack)
    /\ \A i \in 1 .. Len(stack) - 1 : stack'[i] = stack[i]

\* The innermost call raises, and the one below it goes on.
GoesOn(i) == IF stack[i].at = "calling" THEN AtRaised(stack[i]) ELSE stack[i]
Raised ==
    /\ Busy /\ Len(stack') = Len(stack) - 1
    /\ \A i \in 1 .. Len(stack) - 1 :
           stack'[i] = IF i = Len(stack) - 1 THEN GoesOn(i) ELSE stack[i]

\* The innermost call returns.
Returned ==
    /\ Busy /\ Len(stack') = Len(stack) - 1
    /\ \A i \in 1 .. Len(stack) - 1 : stack'[i] = stack[i]

LEMMA TopCall ==
    ASSUME NEW others, TypeOK(others), Busy
    PROVE  /\ Len(stack) \in Nat \ {0} /\ DOMAIN stack = 1 .. Len(stack)
           /\ Len(stack) \in DOMAIN stack /\ Top = stack[Len(stack)]
           /\ Top \in Frame \union others
BY DEF Busy, Top, Last, TypeOK

LEMMA EnterCall ==
    ASSUME NEW others, TypeOK(others), NEW f \in Frame \union others, MayCall, Enter(f)
    PROVE  stack' \in Seq(Frame \union others) /\ Entered /\ stack'[Len(stack) + 1] = f
<1>1. stack' = Append(stack, f)
  BY DEF Enter, Opened
<1> QED BY <1>1 DEF TypeOK, Entered

\* Lemma: a call that is not of the engine moves on.
LEMMA MoveCall ==
    ASSUME NEW others, TypeOK(others), Busy, NEW f \in others,
           stack' = [stack EXCEPT ![Len(stack)] = f]
    PROVE  stack' \in Seq(Frame \union others) /\ Moved /\ stack'[Len(stack)] = f
<1> PICK n : n = Len(stack)
  OBVIOUS
<1>1. n \in Nat \ {0} /\ stack \in Seq(Frame \union others) /\ Len(stack) = n
  BY TopCall DEF TypeOK
<1>2. stack' = [stack EXCEPT ![n] = f] /\ f \in Frame \union others
  OBVIOUS
<1>3. /\ stack' \in Seq(Frame \union others) /\ Len(stack') = n /\ stack'[n] = f
      /\ \A i \in 1 .. n - 1 : stack'[i] = stack[i]
  BY <1>1, <1>2
<1> QED BY <1>1, <1>3 DEF Moved

LEMMA ReturnCall ==
    ASSUME NEW others, TypeOK(others), Busy, Return
    PROVE  stack' \in Seq(Frame \union others) /\ Returned
BY PopReturn DEF Returned, Popped

LEMMA UnwindCall ==
    ASSUME NEW others, OtherCalls(others), TypeOK(others), Busy, Unwind
    PROVE  stack' \in Seq(Frame \union others) /\ Raised
BY PopUnwind DEF Raised, GoesOn, Popped

\* Lemma: what a step of the engine does to the calls, and tells of the workflow of
\* the call it works on.
LEMMA EngineMoves ==
    ASSUME NEW others, OtherCalls(others), RunInv(others), Next
    PROVE  \/ UNCHANGED stack
           \/ /\ Entered
              /\ stack'[Len(stack) + 1].call = "execute"
              /\ stack'[Len(stack) + 1].at \in {"STARTED", "CANCELLED"}
              /\ stack'[Len(stack) + 1].at = "CANCELLED" =>
                     workflows'[stack'[Len(stack) + 1].workflow] = "CANCELLED"
           \/ /\ Moved
              /\ Top.call = "execute" /\ Top.at \notin Finished
              /\ stack'[Len(stack)].call = "execute"
              /\ stack'[Len(stack)].workflow = Top.workflow
              /\ stack'[Len(stack)].at # "CANCELLED"
              /\ stack'[Len(stack)].at \in Points
              /\ stack'[Len(stack)].at \in Finished =>
                     workflows'[Top.workflow] = stack'[Len(stack)].at
           \/ Returned /\ Top.call = "execute" /\ Top.at \in Finished
           \/ Raised /\ Top.call = "execute"
<1> USE DEF RunInv
<1>1. CASE Initialize \/ Start \/ Stop \/ \E w \in Workflow : Register(w)
  BY <1>1 DEF Initialize, Start, Stop, Shift, Register
<1>2. ASSUME NEW w \in Workflow, Cancel(w) \/ Execute(w)
      PROVE  /\ Entered
             /\ stack'[Len(stack) + 1].call = "execute"
             /\ stack'[Len(stack) + 1].at \in {"STARTED", "CANCELLED"}
             /\ stack'[Len(stack) + 1].at = "CANCELLED" =>
                    workflows'[stack'[Len(stack) + 1].workflow] = "CANCELLED"
  <2> PICK at \in {"STARTED", "CANCELLED"} :
          /\ Enter([call |-> "execute", workflow |-> w, step |-> 0, at |-> at])
          /\ at = "CANCELLED" => workflows' = [workflows EXCEPT ![w] = "CANCELLED"]
    BY <1>2 DEF Cancel, Execute, Begin, SetWorkflow, Enter, Opened
  <2> DEFINE f == [call |-> "execute", workflow |-> w, step |-> 0, at |-> at]
  <2>1. f \in Frame /\ f.call = "execute" /\ f.workflow = w /\ f.at = at
    BY DEF Frame, Points, Finished
  <2>2. MayCall /\ Enter(f)
    BY <1>2 DEF Cancel, Execute, MayCall
  <2> HIDE DEF f
  <2>3. Entered /\ stack'[Len(stack) + 1] = f
    BY <2>1, <2>2, EnterCall
  <2> QED BY <2>1, <2>3 DEF TypeOK
<1>3. ASSUME NEW point \in Points, TopIs("execute", {"STARTED", "STEP_STARTED", "action", "STEP_COMPLETED"}),
             Changed([Top EXCEPT !.at = point]), point # "CANCELLED",
             point \in Finished => workflows' = [workflows EXCEPT ![Top.workflow] = point]
      PROVE  /\ Moved
             /\ Top.call = "execute" /\ Top.at \notin Finished
             /\ stack'[Len(stack)].call = "execute"
             /\ stack'[Len(stack)].workflow = Top.workflow
             /\ stack'[Len(stack)].at # "CANCELLED"
             /\ stack'[Len(stack)].at \in Points
             /\ stack'[Len(stack)].at \in Finished =>
                    workflows'[Top.workflow] = stack'[Len(stack)].at
  <2> DEFINE f == [Top EXCEPT !.at = point]
  <2>1. Top \in Frame
    BY <1>3, TopIsFrame DEF TopIs
  <2>2. f.call = "execute" /\ f.workflow = Top.workflow /\ f.at = point
    BY <2>1 DEF Frame
  <2>3. Changed(f) /\ Top.call = "execute" /\ Top.at \notin Finished /\ Busy
    BY <1>3 DEF TopIs, Finished
  <2>4. Top.workflow \in Workflow
    BY <2>1 DEF Frame
  <2> HIDE DEF f
  <2> QED BY <1>3, <2>2, <2>3, <2>4 DEF Changed, Moved, TypeOK
<1>4. CASE BeginStep
  <2> DEFINE f == [Top EXCEPT !.step = @ + 1, !.at = "STEP_STARTED"]
  <2>1. Top \in Frame /\ Busy /\ Top.call = "execute" /\ Top.at \notin Finished
    BY <1>4, TopIsFrame DEF BeginStep, TopIs, Finished
  <2>2. f.call = "execute" /\ f.workflow = Top.workflow /\ f.at = "STEP_STARTED"
    BY <2>1 DEF Frame
  <2>3. Changed(f)
    BY <1>4, BeginStepType
  <2> HIDE DEF f
  <2> QED BY <2>1, <2>2, <2>3 DEF Changed, Moved, Points, Finished
<1>5. CASE CallAction
  BY <1>3, <1>5, CallActionType DEF CallAction, TopIs, Points, Finished
<1>6. CASE ActionReturns
  BY <1>3, <1>6, ActionReturnsType DEF ActionReturns, TopIs, Points, Finished
<1>7. CASE ActionRaises
  BY <1>3, <1>7, FinishType DEF ActionRaises, TopIs, Points, Finished, Finish
<1>8. CASE Complete
  BY <1>3, <1>8, FinishType DEF Complete, TopIs, Points, Finished, Finish
<1>9. CASE ExecuteReturns
  BY <1>9, ReturnCall DEF ExecuteReturns, TopIs
<1>10. CASE ExecuteRaises
  BY <1>10, UnwindCall DEF ExecuteRaises
<1> QED BY <1>1, <1>2, <1>4, <1>5, <1>6, <1>7, <1>8, <1>9, <1>10 DEF Next

\* Lemma: a service calls execute() and waits for it.
LEMMA CallOver ==
    ASSUME Steps \in Nat, NEW others, OtherCalls(others), StepInv(others), Busy, Top.call # "execute",
           NEW t \in others, NEW w \in Workflow, Begin(w, [stack EXCEPT ![Len(stack)] = t])
    PROVE  /\ StepInv(others)' /\ FinishedKept
           /\ workflows[w] = "PENDING"
           /\ Len(stack') = Len(stack) + 1
           /\ stack'[Len(stack)] = t
           /\ stack'[Len(stack) + 1] = [call |-> "execute", workflow |-> w, step |-> 0, at |-> "STARTED"]
           /\ \A i \in 1 .. Len(stack) - 1 : stack'[i] = stack[i]
<1> PICK n : n = Len(stack)
  OBVIOUS
<1> PICK below : below = [stack EXCEPT ![n] = t]
  OBVIOUS
<1>0. RunInv(others) /\ TypeOK(others)
  BY DEF StepInv, RunInv
<1>1. n \in Nat \ {0} /\ DOMAIN stack = 1 .. n /\ n = Len(stack) /\ Top = stack[n]
  BY <1>0, TopCall
<1>2. /\ below \in Seq(Frame \union others) /\ Len(below) = n /\ below[n] = t
      /\ \A i \in 1 .. n - 1 : below[i] = stack[i]
  <2>1. t \in Frame \union others /\ stack \in Seq(Frame \union others)
    BY <1>0 DEF TypeOK
  <2> QED BY <1>1, <2>1
<1>3. Begin(w, below)
  BY <1>1
<1>4. \A i \in 1 .. Len(stack) :
          below[i] = stack[i] \/ (below[i].call # "execute" /\ stack[i].call # "execute")
  <2>1. below[n].call # "execute" /\ stack[n].call # "execute"
    BY <1>1, <1>2 DEF OtherCalls
  <2> QED BY <1>1, <1>2, <2>1
<1>5. StepInv(others)'
  BY <1>1, <1>2, <1>3, <1>4, StepBegin
<1>6. workflows[w] = "PENDING" /\ FinishedKept
  BY <1>0, <1>3, FinalSet DEF Begin, SetWorkflow
<1> DEFINE f == [call |-> "execute", workflow |-> w, step |-> 0, at |-> "STARTED"]
<1>7. stack' = Append(below, f)
  BY <1>3 DEF Begin
<1> HIDE DEF f
<1>8. /\ Len(stack') = n + 1 /\ stack'[n] = t /\ stack'[n + 1] = f
      /\ \A i \in 1 .. n - 1 : stack'[i] = stack[i]
  BY <1>1, <1>2, <1>7
<1> QED BY <1>1, <1>5, <1>6, <1>8 DEF f

\* Lemma: a step of such a service that is none of the engine.
LEMMA AroundStep ==
    ASSUME NEW others, OtherCalls(others), StepInv(others), UNCHANGED workflowVars,
           stack' \in Seq(Frame \union others),
           \/ UNCHANGED stack
           \/ Entered /\ stack'[Len(stack) + 1].call # "execute"
           \/ Moved /\ Top.call # "execute" /\ stack'[Len(stack)].call # "execute"
           \/ (Returned \/ Raised) /\ Top.call # "execute"
    PROVE  StepInv(others)' /\ FinishedKept
<1>1. TypeOK(others) /\ TypeOK(others)' /\ FinishedKept
  BY DEF StepInv, RunInv, TypeOK, workflowVars, FinishedKept
<1>2. /\ Len(stack) \in Nat /\ DOMAIN stack = 1 .. Len(stack)
      /\ Len(stack') \in Nat /\ DOMAIN stack' = 1 .. Len(stack')
  BY <1>1 DEF TypeOK
<1>3. CASE UNCHANGED stack
  BY <1>1, <1>3, StepAround
<1>4. CASE Entered /\ stack'[Len(stack) + 1].call # "execute"
  <2>1. \A i \in DOMAIN stack : i \in DOMAIN stack' /\ stack'[i] = stack[i]
    BY <1>2, <1>4 DEF Entered
  <2>2. \A i \in DOMAIN stack' : i \in DOMAIN stack \/ i = Len(stack) + 1
    BY <1>2, <1>4 DEF Entered
  <2> QED BY <1>1, <1>4, <2>1, <2>2, StepAround
<1>5. CASE Moved /\ Top.call # "execute" /\ stack'[Len(stack)].call # "execute"
  <2>1. Top = stack[Len(stack)] /\ DOMAIN stack' = DOMAIN stack
    BY <1>1, <1>2, <1>5, TopCall DEF Moved
  <2>2. \A i \in DOMAIN stack : stack'[i] = stack[i] \/ i = Len(stack)
    BY <1>2, <1>5 DEF Moved
  <2> QED BY <1>1, <1>5, <2>1, <2>2, StepAround
<1>6. CASE (Returned \/ Raised) /\ Top.call # "execute"
  <2>0. Busy /\ Len(stack') = Len(stack) - 1
    BY <1>6 DEF Returned, Raised
  <2>1. Top = stack[Len(stack)] /\ Len(stack') = Len(stack) - 1 /\ Len(stack) # 0
    BY <1>1, <2>0, TopCall
  <2>2. \A i \in DOMAIN stack : i \in DOMAIN stack' \/ i = Len(stack)
    BY <1>2, <2>1
  <2>3. \A i \in DOMAIN stack' : i \in DOMAIN stack
    BY <1>2, <2>1
  <2>4. ASSUME NEW i \in DOMAIN stack'
        PROVE  stack'[i] = stack[i] \/ (stack[i].call # "execute" /\ stack'[i].call # "execute")
    <3> SUFFICES ASSUME stack'[i] # stack[i]
                 PROVE  stack[i].call # "execute" /\ stack'[i].call # "execute"
      OBVIOUS
    <3>1. stack[i].at = "calling" /\ stack'[i] = AtRaised(stack[i])
      <4>1. i \in 1 .. Len(stack) - 1
        BY <1>2, <2>1, <2>4
      <4> QED BY <1>6, <4>1 DEF Returned, Raised, GoesOn
    <3>2. stack[i] \in others
      BY <1>1, <2>3, <2>4, <3>1, CallsAre DEF Frame, Points, Finished
    <3> QED BY <3>1, <3>2 DEF OtherCalls
  <2> QED BY <1>1, <1>6, <2>1, <2>2, <2>3, <2>4, StepAround
<1> QED BY <1>3, <1>4, <1>5, <1>6

\* An execute() that is at its end tells the state it has stored.
EndTold(i) ==
    stack[i].call = "execute" /\ stack[i].at \in Finished => workflows[stack[i].workflow] = stack[i].at
EndsTold == \A i \in DOMAIN stack : EndTold(i)

\* What a call that waits for the execution of a workflow can count on: right above it
\* is a call that executes it, or that call is back and the workflow at its end.
Awaits(i, w) ==
    /\ i = Len(stack) => workflows[w] \in {"COMPLETED", "FAILED"}
    /\ i # Len(stack) => /\ stack[i + 1].call = "execute"
                         /\ stack[i + 1].workflow = w
                         /\ stack[i + 1].at # "CANCELLED"

\* What a step may do to the calls, when it does not call execute() for a service.
CallsMove ==
    \/ UNCHANGED stack
    \/ Entered
    \/ /\ Moved
       /\ Top.call = "execute" => /\ stack'[Len(stack)].call = "execute"
                                  /\ stack'[Len(stack)].workflow = Top.workflow
                                  /\ stack'[Len(stack)].at # "CANCELLED"
    \/ Returned /\ (Top.call = "execute" => Top.at \in Finished)
    \/ Raised

\* Lemma: such a step touches the innermost call only.
LEMMA CallsStay ==
    ASSUME NEW others, TypeOK(others), TypeOK(others)', CallsMove, NEW i \in DOMAIN stack'
    PROVE  \/ i \in DOMAIN stack /\ stack'[i] = stack[i]
           \/ i = Len(stack) + 1 /\ Entered
           \/ i = Len(stack) /\ i \in DOMAIN stack /\ Moved
           \/ i = Len(stack') /\ i \in DOMAIN stack /\ stack[i].at = "calling" /\ stack'[i] = AtRaised(stack[i])
<1>1. /\ Len(stack) \in Nat /\ DOMAIN stack = 1 .. Len(stack)
      /\ Len(stack') \in Nat /\ DOMAIN stack' = 1 .. Len(stack')
  BY DEF TypeOK
<1>2. CASE Entered
  BY <1>1, <1>2 DEF Entered
<1>3. CASE Moved
  BY <1>1, <1>3 DEF Moved
<1>4. CASE Returned
  BY <1>1, <1>4 DEF Returned
<1>5. CASE Raised
  <2>1. /\ Len(stack') = Len(stack) - 1
        /\ \A j \in 1 .. Len(stack) - 1 : stack'[j] = IF j = Len(stack) - 1 THEN GoesOn(j) ELSE stack[j]
    BY <1>5 DEF Raised
  <2>2. i \in DOMAIN stack /\ i \in 1 .. Len(stack) - 1
    <3>1. Len(stack') = Len(stack) - 1
      BY <2>1
    <3> QED BY <1>1, <3>1
  <2>3. stack'[i] = stack[i] \/ (i = Len(stack') /\ stack'[i] = GoesOn(i))
    BY <2>1, <2>2
  <2> QED BY <2>2, <2>3 DEF GoesOn
<1> QED BY <1>2, <1>3, <1>4, <1>5 DEF CallsMove

\* Lemma: ends stay told when the call that the step makes, or moves, tells the truth.
LEMMA EndsKept ==
    ASSUME NEW others, OtherCalls(others), TypeOK(others), TypeOK(others)', CallsMove,
           EndsTold, FinishedKept,
           \A i \in DOMAIN stack' : i = Len(stack') /\ Len(stack') >= Len(stack) =>
               EndTold(i)' \/ (i \in DOMAIN stack /\ stack'[i] = stack[i])
    PROVE  EndsTold'
<1> SUFFICES ASSUME NEW i \in DOMAIN stack' PROVE EndTold(i)'
  BY DEF EndsTold
<1>1. Len(stack) \in Nat /\ Len(stack') \in Nat
  BY DEF TypeOK
<1>2. CASE i \in DOMAIN stack /\ stack'[i] = stack[i]
  <2>1. EndTold(i) /\ (stack[i].call = "execute" => stack[i].workflow \in Workflow)
    BY <1>2, CallsAre DEF EndsTold, Frame
  <2> QED BY <1>2, <2>1 DEF EndTold, FinishedKept
<1>3. CASE (i = Len(stack) + 1 /\ Entered) \/ (i = Len(stack) /\ Moved)
  BY <1>1, <1>2, <1>3 DEF Entered, Moved
<1>4. CASE i \in DOMAIN stack /\ stack[i].at = "calling" /\ stack'[i] = AtRaised(stack[i])
  <2>1. stack[i] \in others
    BY <1>4, CallsAre DEF Frame, Points, Finished
  <2> QED BY <1>4, <2>1 DEF OtherCalls, EndTold
<1> QED BY <1>2, <1>3, <1>4, CallsStay

\* Lemma: a call that still waits can count on what it could count on before: the call
\* above it is there, or it came back, and had told the truth.
LEMMA AwaitKept ==
    ASSUME NEW others, OtherCalls(others), TypeOK(others), TypeOK(others)', CallsMove,
           EndsTold, FinishedKept,
           NEW i \in DOMAIN stack, i \in DOMAIN stack', stack'[i] = stack[i],
           stack[i].at = "calling", NEW w \in Workflow, Awaits(i, w)
    PROVE  Awaits(i, w)'
<1>1. /\ Len(stack) \in Nat /\ DOMAIN stack = 1 .. Len(stack)
      /\ Len(stack') \in Nat /\ DOMAIN stack' = 1 .. Len(stack')
  BY DEF TypeOK
<1>2. stack[i].call # "execute" /\ AtRaised(stack[i]) # stack[i]
  <2>1. stack[i] \in others
    BY CallsAre DEF Frame, Points, Finished
  <2> QED BY <2>1 DEF OtherCalls
<1>3. i # Len(stack) => i + 1 \in DOMAIN stack /\ stack[i + 1].at # "calling"
  <2> SUFFICES ASSUME i # Len(stack) PROVE i + 1 \in DOMAIN stack /\ stack[i + 1].at # "calling"
    OBVIOUS
  <2>1. i + 1 \in DOMAIN stack /\ stack[i + 1].call = "execute"
    BY <1>1 DEF Awaits
  <2> QED BY <2>1, CallsAre DEF Frame, Points, Finished
<1>4. CASE UNCHANGED stack
  BY <1>4 DEF Awaits, FinishedKept, Finished
<1>5. CASE Entered
  <2>1. i # Len(stack) /\ i # Len(stack')
    BY <1>1, <1>5, TopCall DEF Entered, MayCall, HostRuns, Direct, Busy
  <2>2. stack'[i + 1] = stack[i + 1]
    BY <1>1, <1>3, <1>5, <2>1 DEF Entered
  <2> QED BY <2>1, <2>2 DEF Awaits
<1>6. CASE /\ Moved
           /\ Top.call = "execute" => /\ stack'[Len(stack)].call = "execute"
                                      /\ stack'[Len(stack)].workflow = Top.workflow
                                      /\ stack'[Len(stack)].at # "CANCELLED"
  <2>1. Len(stack') = Len(stack) /\ Top = stack[Len(stack)]
    BY <1>6, TopCall DEF Moved
  <2>2. CASE i = Len(stack)
    BY <2>1, <2>2 DEF Awaits, FinishedKept, Finished
  <2>3. CASE i + 1 = Len(stack)
    BY <1>1, <1>6, <2>1, <2>3 DEF Awaits
  <2>4. CASE i # Len(stack) /\ i + 1 # Len(stack)
    BY <1>1, <1>6, <2>1, <2>4 DEF Awaits, Moved
  <2> QED BY <2>2, <2>3, <2>4
<1>7. CASE Returned /\ (Top.call = "execute" => Top.at \in Finished)
  <2>1. Len(stack') = Len(stack) - 1 /\ Top = stack[Len(stack)] /\ i # Len(stack)
    BY <1>1, <1>7, TopCall DEF Returned
  <2>2. CASE i = Len(stack')
    <3>0. i + 1 \in DOMAIN stack /\ i + 1 = Len(stack) /\ stack[i + 1] = Top
      <4>1. i + 1 = Len(stack)
        <5>1. i = Len(stack) - 1
          BY <2>1, <2>2
        <5> QED BY <1>1, <5>1
      <4> QED BY <1>3, <2>1, <4>1
    <3>1. EndTold(i + 1)
      BY <3>0 DEF EndsTold
    <3> QED BY <1>7, <2>1, <2>2, <3>0, <3>1 DEF Awaits, EndTold, FinishedKept, Finished
  <2>3. CASE i # Len(stack')
    BY <1>1, <1>7, <2>1, <2>3 DEF Awaits, Returned
  <2> QED BY <2>2, <2>3
<1>8. CASE Raised
  <2>0. /\ Len(stack') = Len(stack) - 1
        /\ \A j \in 1 .. Len(stack) - 1 : stack'[j] = IF j = Len(stack) - 1 THEN GoesOn(j) ELSE stack[j]
    BY <1>8 DEF Raised
  <2>1. Len(stack') = Len(stack) - 1 /\ i \in 1 .. Len(stack) - 1 /\ i # Len(stack)
    <3>1. Len(stack') = Len(stack) - 1
      BY <2>0
    <3> QED BY <1>1, <3>1
  <2>2. i # Len(stack) - 1
    BY <1>2, <2>0, <2>1 DEF GoesOn
  <2>3. i + 1 \in 1 .. Len(stack) - 1 /\ GoesOn(i + 1) = stack[i + 1]
    BY <1>1, <1>3, <2>1, <2>2 DEF GoesOn
  <2>4. stack'[i + 1] = stack[i + 1]
    BY <2>0, <2>3
  <2> QED BY <1>1, <2>1, <2>2, <2>4 DEF Awaits
<1> QED BY <1>4, <1>5, <1>6, <1>7, <1>8 DEF CallsMove

\* Lemma: a step of the engine, seen from the services that call it.
LEMMA EngineStay ==
    ASSUME Steps \in Nat, NEW others, OtherCalls(others), StepInv(others), Next, EndsTold
    PROVE  /\ StepInv(others)' /\ FinishedKept /\ CallsMove /\ EndsTold'
           /\ \A i \in DOMAIN stack' : stack'[i].call # "execute" =>
                  /\ i \in DOMAIN stack
                  /\ \/ stack'[i] = stack[i]
                     \/ stack[i].at = "calling" /\ stack'[i] = AtRaised(stack[i])
<1>1. StepInv(others)' /\ FinishedKept
  BY StepStep, FinalStep DEF StepInv
<1>2. RunInv(others) /\ TypeOK(others) /\ TypeOK(others)'
  BY <1>1 DEF StepInv, RunInv
<1>3. CallsMove
  BY <1>2, EngineMoves DEF CallsMove
<1>4. \A i \in DOMAIN stack' : i = Len(stack') /\ Len(stack') >= Len(stack) =>
          EndTold(i)' \/ (i \in DOMAIN stack /\ stack'[i] = stack[i])
  <2>1. Len(stack) \in Nat
    BY <1>2 DEF TypeOK
  <2> QED BY <1>2, <2>1, EngineMoves DEF EndTold, Entered, Moved, Returned, Raised, Finished
<1>5. EndsTold'
  BY <1>1, <1>2, <1>3, <1>4, EndsKept
<1>6. ASSUME NEW i \in DOMAIN stack', stack'[i].call # "execute"
      PROVE  /\ i \in DOMAIN stack
             /\ \/ stack'[i] = stack[i]
                \/ stack[i].at = "calling" /\ stack'[i] = AtRaised(stack[i])
  <2>1. ~(i = Len(stack) + 1 /\ Entered) /\ (i = Len(stack) /\ Moved => UNCHANGED stack)
    <3>1. Len(stack) \in Nat
      BY <1>2 DEF TypeOK
    <3>2. Entered => stack'[Len(stack) + 1].call = "execute"
      <4>1. Entered => ~(UNCHANGED stack) /\ ~Moved /\ ~Returned /\ ~Raised
        BY <3>1 DEF Entered, Moved, Returned, Raised
      <4> QED BY <1>2, <4>1, EngineMoves
    <3>3. Moved => stack'[Len(stack)].call = "execute" \/ UNCHANGED stack
      <4>1. Moved => ~Entered /\ ~Returned /\ ~Raised
        BY <3>1 DEF Entered, Moved, Returned, Raised
      <4> QED BY <1>2, <4>1, EngineMoves
    <3> QED BY <1>6, <3>2, <3>3
  <2> QED BY <1>2, <1>3, <1>6, <2>1, CallsStay
<1> QED BY <1>1, <1>3, <1>5, <1>6
=============================================================================
