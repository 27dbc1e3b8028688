------------------------- MODULE ConversationProofs -------------------------
(***************************************************************************)
(* The conversation manager, composed with the workflow engine it calls,   *)
(* for any number of sessions and messages and any depth of nested calls:  *)
(* a conversation stays one, whatever is called back inside receive().     *)
(***************************************************************************)
EXTENDS Conversation, WorkflowEngineProofs

ReceivePoints ==
    {"MESSAGE_RECEIVED", "INTENT_PARSED", "INTENT_RESOLVED", "calling", "raised",
     "WORKFLOW_EXECUTED", "RESPONSE_GENERATED"}
ReceiveCall ==
    [call : {"receive"}, session : Nat, message : Nat, workflow : Workflow \union {None},
     copy : Session, at : ReceivePoints]
SessionCall == [call : {"session"}, at : {"CONVERSATION_STARTED", "CONVERSATION_ENDED"}]
ManagerCalls == ReceiveCall \union SessionCall

Message == [role : Roles, of : Nat]

BooksTyped ==
    /\ engine \in States /\ manager \in States
    /\ sessions \in Seq(Session)
    /\ active \in {None} \union DOMAIN sessions
    /\ received \in Nat /\ reentrant \in BOOLEAN
    /\ Len(stack) <= Depth

-----------------------------------------------------------------------------
(* The invariant *)

\* A history in which an answer follows its message, no message stands twice, and none
\* has a number beyond the last one.
Faithful(h, last) ==
    /\ \A i \in DOMAIN h : h[i].of <= last
    /\ \A i \in DOMAIN h : h[i].role = "assistant" =>
           i > 1 /\ h[i - 1] = [role |-> "user", of |-> h[i].of]
    /\ \A i, j \in DOMAIN h : h[i] = h[j] => i = j

\* A history that ends with a message that is not answered yet.
EndsWith(h, n) == Len(h) > 0 /\ h[Len(h)] = [role |-> "user", of |-> n]

IsReceive(i) == i \in DOMAIN stack /\ stack[i].call = "receive"
Waits(i) == IsReceive(i) /\ stack[i].at = "calling"

\* The copy a call of receive() holds is a sound one of an open session; until it
\* answers, the copy ends with its message; when nobody inside receive() touches the
\* session, the copy is what is stored; and what it announces was executed.
ReceiveOK(i) ==
    stack[i].call = "receive" =>
        /\ stack[i].session \in DOMAIN sessions
        /\ stack[i].copy.state # "CLOSED"
        /\ Faithful(stack[i].copy.messages, received)
        /\ stack[i].at # "RESPONSE_GENERATED" => EndsWith(stack[i].copy.messages, stack[i].message)
        /\ ~reentrant => sessions[stack[i].session] = stack[i].copy
        /\ stack[i].at \in {"calling", "WORKFLOW_EXECUTED"} => stack[i].workflow \in Workflow
        /\ stack[i].at = "WORKFLOW_EXECUTED" =>
               workflows[stack[i].workflow] \in {"COMPLETED", "FAILED"}

CallsTold == \A i \in DOMAIN stack : ReceiveOK(i) /\ (Waits(i) => Awaits(i, stack[i].workflow))
OneReceives == ~reentrant => \A i, j \in DOMAIN stack : IsReceive(i) /\ IsReceive(j) => i = j
SessionsSound == \A s \in DOMAIN sessions : Faithful(sessions[s].messages, received)

BooksOK == BooksTyped /\ ActiveIsOpen /\ SessionsSound
ConversationInv == StepInv(ManagerCalls) /\ EndsTold /\ BooksOK /\ CallsTold /\ OneReceives

-----------------------------------------------------------------------------
(* The calls *)

LEMMA ManagerIsOther == OtherCalls(ManagerCalls)
<1>1. ASSUME NEW o \in ReceiveCall
      PROVE  o.call # "execute" /\ AtRaised(o) \in ReceiveCall /\ AtRaised(o).at = "raised"
  BY <1>1 DEF ReceiveCall, ReceivePoints, AtRaised
<1>2. ASSUME NEW o \in SessionCall PROVE o.call # "execute" /\ o.at # "calling"
  BY <1>2 DEF SessionCall
<1> QED BY <1>1, <1>2 DEF OtherCalls, ManagerCalls

\* Lemma: a call is one of execute(), of receive(), or of a session operation.
LEMMA CallKinds ==
    ASSUME TypeOK(ManagerCalls)
    PROVE  /\ Len(stack) \in Nat /\ DOMAIN stack = 1 .. Len(stack)
           /\ \A i \in DOMAIN stack :
                  \/ stack[i] \in Frame /\ stack[i].call = "execute"
                  \/ stack[i] \in ReceiveCall /\ stack[i].call = "receive"
                  \/ stack[i] \in SessionCall /\ stack[i].call = "session"
<1>1. /\ Len(stack) \in Nat /\ DOMAIN stack = 1 .. Len(stack)
      /\ \A i \in DOMAIN stack : IF stack[i].call = "execute" THEN stack[i] \in Frame
                                                             ELSE stack[i] \in ManagerCalls
  BY CallsAre, ManagerIsOther
<1>2. /\ \A f \in ReceiveCall : f.call = "receive"
      /\ \A f \in SessionCall : f.call = "session"
  BY DEF ReceiveCall, SessionCall
<1> QED BY <1>1, <1>2 DEF ManagerCalls

\* Lemma: receive() announces something, of the message and the workflow it has.
LEMMA GotoCall ==
    ASSUME TypeOK(ManagerCalls), Busy, Top.call = "receive", NEW point \in ReceivePoints, Goto(point)
    PROVE  /\ stack' \in Seq(Frame \union ManagerCalls) /\ Moved
           /\ stack'[Len(stack)] = [Top EXCEPT !.at = point]
           /\ [Top EXCEPT !.at = point] \in ReceiveCall
<1> DEFINE f == [Top EXCEPT !.at = point]
<1>1. Len(stack) \in DOMAIN stack /\ Top = stack[Len(stack)] /\ Top \in ReceiveCall
  BY TopCall, CallKinds
<1>2. f \in ReceiveCall /\ f \in ManagerCalls
  BY <1>1 DEF ReceiveCall, ManagerCalls
<1>3. stack' = [stack EXCEPT ![Len(stack)] = f]
  BY <1>1 DEF Goto
<1> HIDE DEF f
<1>4. stack' \in Seq(Frame \union ManagerCalls) /\ Moved /\ stack'[Len(stack)] = f
  BY <1>2, <1>3, MoveCall
<1> QED BY <1>2, <1>4 DEF f

-----------------------------------------------------------------------------
(* Histories *)

LEMMA FaithfulLater ==
    ASSUME NEW h \in Seq(Message), NEW m \in Nat, NEW n \in Nat, m <= n, Faithful(h, m)
    PROVE  Faithful(h, n)
<1>1. \A i \in DOMAIN h : h[i] \in Message
  OBVIOUS
<1>2. \A e \in Message : e.of \in Nat
  BY DEF Message
<1>3. \A i \in DOMAIN h : h[i].of \in Nat
  BY <1>1, <1>2
<1> QED BY <1>3 DEF Faithful

\* Lemma: a new message follows.
LEMMA MessageFollows ==
    ASSUME NEW h \in Seq(Message), NEW n \in Nat, Faithful(h, n)
    PROVE  LET longer == Append(h, [role |-> "user", of |-> n + 1]) IN
           /\ longer \in Seq(Message)
           /\ Faithful(longer, n + 1)
           /\ EndsWith(longer, n + 1)
<1> DEFINE e == [role |-> "user", of |-> n + 1]
           longer == Append(h, e)
<1>1. e \in Message /\ e.role = "user" /\ e.of = n + 1
  BY DEF Message, Roles
<1> HIDE DEF e
<1>2. /\ longer \in Seq(Message) /\ Len(h) \in Nat /\ DOMAIN h = 1 .. Len(h)
      /\ Len(longer) = Len(h) + 1 /\ DOMAIN longer = 1 .. Len(h) + 1
      /\ longer[Len(h) + 1] = e /\ \A i \in 1 .. Len(h) : longer[i] = h[i]
  BY <1>1
<1> HIDE DEF longer
<1>3. ASSUME NEW i \in DOMAIN h
      PROVE  h[i].of \in Nat /\ h[i].of <= n /\ h[i] # e
  <2>1. h[i] \in Message
    OBVIOUS
  <2>2. h[i].of \in Nat /\ h[i].of <= n
    BY <1>3, <2>1 DEF Faithful, Message
  <2> QED BY <1>1, <2>2
<1>4. \A i \in DOMAIN longer :
          (i \in DOMAIN h /\ longer[i] = h[i]) \/ (i = Len(h) + 1 /\ longer[i] = e)
  BY <1>2
<1>5. \A i \in DOMAIN longer : longer[i].of <= n + 1
  BY <1>1, <1>3, <1>4
<1>6. ASSUME NEW i \in DOMAIN longer, longer[i].role = "assistant"
      PROVE  i > 1 /\ longer[i - 1] = [role |-> "user", of |-> longer[i].of]
  <2>1. i \in DOMAIN h /\ longer[i] = h[i]
    BY <1>1, <1>4, <1>6
  <2>2. i > 1 /\ h[i - 1] = [role |-> "user", of |-> longer[i].of]
    BY <1>6, <2>1 DEF Faithful
  <2>3. i - 1 \in 1 .. Len(h)
    BY <1>2, <2>1, <2>2
  <2> QED BY <1>2, <2>2, <2>3
<1>7. \A i, j \in DOMAIN longer : longer[i] = longer[j] => i = j
  BY <1>3, <1>4 DEF Faithful
<1>8. Faithful(longer, n + 1)
  BY <1>5, <1>6, <1>7 DEF Faithful
<1>9. EndsWith(longer, n + 1)
  BY <1>2 DEF EndsWith, e
<1> QED BY <1>2, <1>8, <1>9 DEF longer, e

\* Lemma: the answer to the last message follows; nobody has answered it before.
LEMMA AnswerFollows ==
    ASSUME NEW h \in Seq(Message), NEW n \in Nat, Faithful(h, n), NEW m \in Nat, EndsWith(h, m)
    PROVE  LET longer == Append(h, [role |-> "assistant", of |-> m]) IN
           longer \in Seq(Message) /\ Faithful(longer, n)
<1> DEFINE e == [role |-> "assistant", of |-> m]
           u == [role |-> "user", of |-> m]
           longer == Append(h, e)
<1>1. e \in Message /\ e.role = "assistant" /\ e.of = m /\ u.of = m
  BY DEF Message, Roles
<1>2. Len(h) \in Nat \ {0} /\ DOMAIN h = 1 .. Len(h) /\ h[Len(h)] = u /\ Len(h) \in DOMAIN h
  BY DEF EndsWith
<1> HIDE DEF e
<1>3. /\ longer \in Seq(Message)
      /\ Len(longer) = Len(h) + 1 /\ DOMAIN longer = 1 .. Len(h) + 1
      /\ longer[Len(h) + 1] = e /\ \A i \in 1 .. Len(h) : longer[i] = h[i]
  BY <1>1, <1>2
<1> HIDE DEF longer
<1>4. \A i \in DOMAIN longer :
          (i \in DOMAIN h /\ longer[i] = h[i]) \/ (i = Len(h) + 1 /\ longer[i] = e)
  BY <1>2, <1>3
<1>5. ASSUME NEW i \in DOMAIN h PROVE h[i] # e
  <2> SUFFICES ASSUME h[i] = e PROVE FALSE
    OBVIOUS
  <2>1. i > 1 /\ h[i - 1] = u
    BY <1>1, <1>5 DEF Faithful
  <2>2. i - 1 \in DOMAIN h /\ i - 1 # Len(h)
    BY <1>2, <1>5, <2>1
  <2> QED BY <1>2, <2>1, <2>2 DEF Faithful
<1>6. \A i \in DOMAIN longer : longer[i].of <= n
  <2>1. m <= n
    BY <1>1, <1>2 DEF Faithful
  <2> QED BY <1>1, <1>4, <2>1 DEF Faithful
<1>7. ASSUME NEW i \in DOMAIN longer, longer[i].role = "assistant"
      PROVE  i > 1 /\ longer[i - 1] = [role |-> "user", of |-> longer[i].of]
  <2>1. CASE i \in DOMAIN h /\ longer[i] = h[i]
    <3>1. i > 1 /\ h[i - 1] = [role |-> "user", of |-> longer[i].of]
      BY <1>7, <2>1 DEF Faithful
    <3>2. i - 1 \in 1 .. Len(h)
      BY <1>2, <2>1, <3>1
    <3> QED BY <1>3, <3>1, <3>2
  <2>2. CASE i = Len(h) + 1 /\ longer[i] = e
    <3>1. i > 1 /\ i - 1 = Len(h) /\ i - 1 \in 1 .. Len(h)
      BY <1>2, <2>2
    <3> QED BY <1>1, <1>2, <1>3, <2>2, <3>1
  <2> QED BY <1>4, <2>1, <2>2
<1>8. \A i, j \in DOMAIN longer : longer[i] = longer[j] => i = j
  BY <1>4, <1>5 DEF Faithful
<1>9. Faithful(longer, n)
  BY <1>6, <1>7, <1>8 DEF Faithful
<1> QED BY <1>3, <1>9 DEF longer, e

LEMMA PrefixSelf == ASSUME NEW h \in Seq(Message) PROVE IsPrefix(h, h)
BY DEF IsPrefix

LEMMA PrefixAppend ==
    ASSUME NEW h \in Seq(Message), NEW e \in Message
    PROVE  IsPrefix(h, Append(h, e))
<1> DEFINE t == Append(h, e)
           n == Len(h)
<1>1. n \in Nat /\ t \in Seq(Message) /\ Len(t) = n + 1 /\ \A i \in 1 .. n : t[i] = h[i]
  OBVIOUS
<1> HIDE DEF t
<1>2. \A i \in 1 .. n : h[i] \in Message /\ t[i] \in Message
  BY <1>1
<1> HIDE DEF n
<1>3. SubSeq(h, 1, n) = SubSeq(t, 1, n)
  <2>1. /\ SubSeq(h, 1, n) \in Seq(Message)
        /\ Len(SubSeq(h, 1, n)) = IF 1 <= n THEN n - 1 + 1 ELSE 0
        /\ \A i \in 1 .. n - 1 + 1 : SubSeq(h, 1, n)[i] = h[1 + i - 1]
    BY <1>1, <1>2, SubSeqProperties
  <2>2. /\ SubSeq(t, 1, n) \in Seq(Message)
        /\ Len(SubSeq(t, 1, n)) = IF 1 <= n THEN n - 1 + 1 ELSE 0
        /\ \A i \in 1 .. n - 1 + 1 : SubSeq(t, 1, n)[i] = t[1 + i - 1]
    BY <1>1, <1>2, SubSeqProperties
  <2>3. Len(SubSeq(h, 1, n)) = n /\ Len(SubSeq(t, 1, n)) = n
    BY <1>1, <2>1, <2>2
  <2>4. \A i \in 1 .. n : SubSeq(h, 1, n)[i] = SubSeq(t, 1, n)[i]
    BY <1>1, <2>1, <2>2
  <2> HIDE DEF t
  <2> QED BY <1>1, <2>1, <2>2, <2>3, <2>4, SeqEqual
<1> QED BY <1>1, <1>3 DEF IsPrefix, n, t

\* Lemma: what is appended to a session.
LEMMA AppendedType ==
    ASSUME NEW session \in Session, NEW role \in Roles, NEW n \in Nat, NEW state \in SessionStates
    PROVE  LET one == Appended([session EXCEPT !.state = state], role, n) IN
           /\ one \in Session
           /\ one.state = state
           /\ one.messages = Append(session.messages, [role |-> role, of |-> n])
<1> DEFINE e == [role |-> role, of |-> n]
           s == [session EXCEPT !.state = state]
           one == [s EXCEPT !.messages = Append(s.messages, e)]
<1>1. e \in Message
  BY DEF Message
<1>2. s \in Session /\ s.state = state /\ s.messages = session.messages
  BY DEF Session
<1> HIDE DEF e, s
<1>3. Append(s.messages, e) \in Seq(Message)
  BY <1>1, <1>2 DEF Session, Message
<1>4. one \in Session /\ one.state = state /\ one.messages = Append(session.messages, e)
  BY <1>2, <1>3 DEF Session, Message
<1>5. one = Appended(s, role, n)
  BY DEF Appended, e
<1> QED BY <1>4, <1>5 DEF e, s, one
-----------------------------------------------------------------------------
(* What the calls tell, from step to step *)

LEMMA InvTypes ==
    ASSUME ConversationInv
    PROVE  /\ TypeOK(ManagerCalls) /\ RunInv(ManagerCalls)
           /\ Len(stack) \in Nat /\ DOMAIN stack = 1 .. Len(stack)
BY CallKinds DEF ConversationInv, StepInv, RunInv

LEMMA SessionHistory == ASSUME NEW one \in Session PROVE one.messages \in Seq(Message)
BY DEF Session, Message

\* What a step may do to the books while calls are in progress.
BooksMove ==
    /\ reentrant' = reentrant
    /\ received' \in Nat /\ received <= received'
    /\ DOMAIN sessions \subseteq DOMAIN sessions'

\* The session of a call is left alone, if it has to be.
SessionLeft(i) ==
    stack[i].call = "receive" /\ ~reentrant => sessions'[stack[i].session] = sessions[stack[i].session]

\* Lemma: a call that is not touched tells what it told before.
LEMMA ReceiveKept ==
    ASSUME ConversationInv, FinishedKept, BooksMove,
           NEW i \in DOMAIN stack, stack'[i] = stack[i], SessionLeft(i)
    PROVE  ReceiveOK(i)'
<1> SUFFICES ASSUME stack[i].call = "receive" PROVE ReceiveOK(i)'
  BY DEF ReceiveOK
<1>1. ReceiveOK(i) /\ stack[i] \in ReceiveCall
  BY InvTypes, CallKinds DEF ConversationInv, CallsTold, Frame, SessionCall
<1>2. stack[i].copy.messages \in Seq(Message)
  BY <1>1, SessionHistory DEF ReceiveCall
<1>3. Faithful(stack[i].copy.messages, received')
  BY <1>1, <1>2, FaithfulLater DEF ReceiveOK, BooksMove, ConversationInv, BooksOK, BooksTyped
<1>4. stack[i].session \in DOMAIN sessions'
  BY <1>1 DEF ReceiveOK, BooksMove
<1> QED BY <1>1, <1>3, <1>4 DEF ReceiveOK, BooksMove, SessionLeft, FinishedKept, Finished

\* Lemma: a call of receive() whose workflow raised tells what it told before.
LEMMA RaisedTold ==
    ASSUME ConversationInv, FinishedKept, BooksMove,
           NEW i \in DOMAIN stack, stack[i].at = "calling", stack'[i] = AtRaised(stack[i]),
           SessionLeft(i)
    PROVE  ReceiveOK(i)' /\ ~Waits(i)' /\ IsReceive(i)
<1>1. stack[i] \in ReceiveCall /\ stack[i].call = "receive" /\ ReceiveOK(i)
  BY InvTypes, CallKinds DEF Frame, Points, Finished, SessionCall, ConversationInv, CallsTold
<1>2. /\ stack'[i].call = "receive" /\ stack'[i].at = "raised"
      /\ stack'[i].session = stack[i].session /\ stack'[i].message = stack[i].message
      /\ stack'[i].copy = stack[i].copy
  BY <1>1 DEF ReceiveCall, AtRaised
<1>3. stack[i].copy.messages \in Seq(Message)
  BY <1>1, SessionHistory DEF ReceiveCall
<1>4. Faithful(stack[i].copy.messages, received')
  BY <1>1, <1>3, FaithfulLater DEF ReceiveOK, BooksMove, ConversationInv, BooksOK, BooksTyped
<1>5. stack[i].session \in DOMAIN sessions'
  BY <1>1 DEF ReceiveOK, BooksMove
<1>6. ~reentrant => sessions'[stack[i].session] = stack[i].copy
  BY <1>1 DEF ReceiveOK, SessionLeft
<1>7. EndsWith(stack[i].copy.messages, stack[i].message)
  BY <1>1 DEF ReceiveOK
<1> QED BY <1>1, <1>2, <1>4, <1>5, <1>6, <1>7 DEF ReceiveOK, BooksMove, Waits, IsReceive

\* Lemma: a step that makes no call wait keeps what the calls tell, when every call it
\* touches tells the truth.
LEMMA ToldKept ==
    ASSUME ConversationInv, TypeOK(ManagerCalls)', FinishedKept, BooksMove, CallsMove,
           \A i \in DOMAIN stack' :
               \/ i \in DOMAIN stack /\ stack'[i] = stack[i] /\ SessionLeft(i)
               \/ ReceiveOK(i)' /\ ~Waits(i)'
    PROVE  CallsTold'
<1>1. TypeOK(ManagerCalls) /\ CallsTold /\ EndsTold
  BY InvTypes DEF ConversationInv
<1>2. \A i \in DOMAIN stack' : ReceiveOK(i)'
  BY ReceiveKept
<1>3. ASSUME NEW i \in DOMAIN stack', Waits(i)'
      PROVE  Awaits(i, stack[i].workflow)' /\ stack'[i] = stack[i]
  <2>1. i \in DOMAIN stack /\ stack'[i] = stack[i]
    BY <1>3
  <2>2. Waits(i) /\ stack[i].at = "calling" /\ stack[i].call = "receive"
    BY <1>3, <2>1 DEF Waits, IsReceive
  <2>3. ReceiveOK(i) /\ Awaits(i, stack[i].workflow)
    BY <1>1, <2>1, <2>2 DEF CallsTold
  <2>4. PICK w \in Workflow : w = stack[i].workflow
    BY <2>2, <2>3 DEF ReceiveOK
  <2>5. Awaits(i, w)
    BY <2>3, <2>4
  <2>6. Awaits(i, w)'
    BY <1>1, <2>1, <2>2, <2>5, AwaitKept, ManagerIsOther
  <2>7. (stack[i].workflow = w)'
    BY <2>1, <2>4
  <2> QED BY <2>1, <2>6, <2>7
<1> QED BY <1>2, <1>3 DEF CallsTold

-----------------------------------------------------------------------------
(* Steps *)

LEMMA EngineTyped == ASSUME engine \in States, Next PROVE engine' \in States
BY DEF Next, Initialize, Start, Stop, Shift, Register, Cancel, Execute, Begin, BeginStep, CallAction,
       ActionReturns, ActionRaises, Complete, Finish, ExecuteReturns, ExecuteRaises, States, workflowVars

LEMMA DepthKept ==
    ASSUME Len(stack) \in Nat, Len(stack) <= Depth, CallsMove
    PROVE  Len(stack') <= Depth
<1>1. Depth \in Nat
  BY DepthAssumption
<1>2. Entered => Len(stack') = Len(stack) + 1 /\ Len(stack) < Depth
  BY DEF Entered, MayCall
<1>3. Moved \/ Returned \/ Raised => Len(stack') = Len(stack) \/ Len(stack') = Len(stack) - 1
  BY DEF Moved, Returned, Raised
<1> QED BY <1>1, <1>2, <1>3 DEF CallsMove

LEMMA EngineStep ==
    ASSUME Steps \in Nat, ConversationInv, Next, UNCHANGED conversationVars
    PROVE  ConversationInv' /\ FinishedKept
<1>1. /\ StepInv(ManagerCalls)' /\ FinishedKept /\ CallsMove /\ EndsTold'
      /\ \A i \in DOMAIN stack' : stack'[i].call # "execute" =>
             /\ i \in DOMAIN stack
             /\ \/ stack'[i] = stack[i]
                \/ stack[i].at = "calling" /\ stack'[i] = AtRaised(stack[i])
  BY EngineStay, ManagerIsOther DEF ConversationInv
<1>2. TypeOK(ManagerCalls)' /\ BooksMove
  BY <1>1 DEF StepInv, RunInv, conversationVars, BooksMove, ConversationInv, BooksOK, BooksTyped
<1>3. \A i \in DOMAIN stack : SessionLeft(i)
  BY DEF SessionLeft, conversationVars
<1>4. ASSUME NEW i \in DOMAIN stack', ~(i \in DOMAIN stack /\ stack'[i] = stack[i])
      PROVE  ReceiveOK(i)' /\ ~Waits(i)'
  <2>1. CASE stack'[i].call = "execute"
    BY <2>1 DEF ReceiveOK, Waits, IsReceive
  <2>2. CASE stack'[i].call # "execute"
    BY <1>1, <1>2, <1>3, <1>4, <2>2, RaisedTold
  <2> QED BY <2>1, <2>2
<1>5. CallsTold'
  BY <1>1, <1>2, <1>3, <1>4, ToldKept
<1>6. \A i \in DOMAIN stack' : IsReceive(i)' => IsReceive(i)
  <2> SUFFICES ASSUME NEW i \in DOMAIN stack', stack'[i].call = "receive", stack'[i] # stack[i]
               PROVE  IsReceive(i)
    BY <1>1 DEF IsReceive
  <2> QED BY <1>1, <1>2, <1>3, RaisedTold
<1>7. OneReceives'
  <2>1. \A i : IsReceive(i)' => IsReceive(i)
    BY <1>6 DEF IsReceive
  <2> QED BY <2>1 DEF OneReceives, ConversationInv, conversationVars, IsReceive
<1>8. BooksOK'
  <2>1. engine' \in States /\ Len(stack') <= Depth
    BY <1>1, EngineTyped, DepthKept, InvTypes DEF ConversationInv, BooksOK, BooksTyped
  <2> QED BY <2>1 DEF ConversationInv, BooksOK, BooksTyped, ActiveIsOpen, SessionsSound, conversationVars
<1> QED BY <1>1, <1>5, <1>7, <1>8 DEF ConversationInv

\* Lemma: a step of the manager itself.
LEMMA OwnStep ==
    ASSUME ConversationInv, UNCHANGED workflowVars, BooksMove, BooksOK', OneReceives',
           stack' \in Seq(Frame \union ManagerCalls),
           \/ UNCHANGED stack
           \/ Entered /\ stack'[Len(stack) + 1].call # "execute"
           \/ Moved /\ Top.call # "execute" /\ stack'[Len(stack)].call # "execute"
           \/ (Returned \/ Raised) /\ Top.call # "execute",
           \A i \in DOMAIN stack' :
               \/ i \in DOMAIN stack /\ stack'[i] = stack[i] /\ SessionLeft(i)
               \/ i \in DOMAIN stack /\ stack[i].at = "calling" /\ stack'[i] = AtRaised(stack[i])
                  /\ SessionLeft(i)
               \/ i = Len(stack') /\ ReceiveOK(i)' /\ ~Waits(i)'
    PROVE  ConversationInv' /\ FinishedKept
<1>1. StepInv(ManagerCalls)' /\ FinishedKept
  BY AroundStep, ManagerIsOther DEF ConversationInv
<1>2. /\ TypeOK(ManagerCalls) /\ TypeOK(ManagerCalls)' /\ EndsTold /\ CallsMove
      /\ Len(stack) \in Nat /\ Len(stack') \in Nat
  BY <1>1, InvTypes DEF StepInv, RunInv, ConversationInv, TypeOK, CallsMove
<1>3. \A i \in DOMAIN stack' : i = Len(stack') /\ Len(stack') >= Len(stack) =>
          EndTold(i)' \/ (i \in DOMAIN stack /\ stack'[i] = stack[i])
  BY <1>2 DEF EndTold, Entered, Moved, Returned, Raised
<1>4. EndsTold'
  BY <1>1, <1>2, <1>3, EndsKept, ManagerIsOther
<1>5. CallsTold'
  <2>1. \A i \in DOMAIN stack' :
            \/ i \in DOMAIN stack /\ stack'[i] = stack[i] /\ SessionLeft(i)
            \/ ReceiveOK(i)' /\ ~Waits(i)'
    BY <1>1, RaisedTold
  <2> QED BY <1>1, <1>2, <2>1, ToldKept
<1> QED BY <1>1, <1>4, <1>5 DEF ConversationInv

\* Lemma: a call that is not of the engine ends, or none does.
LEMMA LeaveStep ==
    ASSUME ConversationInv, Quiet,
           UNCHANGED stack \/ (Busy /\ Top.call # "execute" /\ (Return \/ Unwind))
    PROVE  ConversationInv' /\ FinishedKept
<1>1. TypeOK(ManagerCalls) /\ Len(stack) \in Nat /\ DOMAIN stack = 1 .. Len(stack)
  BY InvTypes
<1>2. /\ stack' \in Seq(Frame \union ManagerCalls)
      /\ UNCHANGED stack \/ ((Returned \/ Raised) /\ Top.call # "execute")
  BY <1>1, ReturnCall, UnwindCall, ManagerIsOther DEF TypeOK
<1>3. BooksMove /\ (\A i \in DOMAIN stack : SessionLeft(i))
  BY DEF Quiet, conversationVars, BooksMove, SessionLeft, ConversationInv, BooksOK, BooksTyped
<1>4. BooksOK'
  <2>1. Len(stack') <= Depth
    BY <1>1, <1>2, DepthKept DEF ConversationInv, BooksOK, BooksTyped, CallsMove, Returned, Raised
  <2> QED BY <2>1 DEF Quiet, ConversationInv, BooksOK, BooksTyped, ActiveIsOpen, SessionsSound,
                      conversationVars, workflowVars
<1>5. ASSUME NEW i \in DOMAIN stack'
      PROVE  /\ i \in DOMAIN stack
             /\ stack'[i] = stack[i] \/ (stack[i].at = "calling" /\ stack'[i] = AtRaised(stack[i]))
  <2>1. TypeOK(ManagerCalls)' /\ CallsMove
    BY <1>1, <1>2 DEF TypeOK, CallsMove, Quiet, workflowVars, Returned, Raised
  <2>2. CASE UNCHANGED stack
    BY <1>5, <2>2
  <2>3. CASE Returned \/ Raised
    <3>1. Len(stack') = Len(stack) - 1
      BY <2>3 DEF Returned, Raised
    <3>2. ~Entered /\ ~Moved
      <4>1. PICK n \in Nat : n = Len(stack)
        BY <1>1
      <4>2. Len(stack') = n - 1
        BY <3>1, <4>1
      <4>3. Len(stack') # n + 1 /\ Len(stack') # n
        BY <4>2
      <4> QED BY <4>1, <4>3 DEF Entered, Moved
    <3> QED BY <1>1, <1>5, <2>1, <3>2, CallsStay
  <2> QED BY <1>2, <2>2, <2>3
<1>6. \A i \in DOMAIN stack' : IsReceive(i)' => IsReceive(i)
  <2>1. FinishedKept
    BY DEF Quiet, workflowVars, FinishedKept
  <2> QED BY <1>3, <1>5, <2>1, RaisedTold DEF IsReceive
<1>7. OneReceives'
  <2>1. \A i : IsReceive(i)' => IsReceive(i)
    BY <1>6 DEF IsReceive
  <2> QED BY <2>1 DEF OneReceives, ConversationInv, Quiet, conversationVars, IsReceive
<1>8. UNCHANGED workflowVars
  BY DEF Quiet
<1> QED BY <1>2, <1>3, <1>4, <1>5, <1>7, <1>8, OwnStep
\* Lemma: receive() goes on to a point that needs no new knowledge.
LEMMA PointStep ==
    ASSUME ConversationInv, Quiet, NEW points, TopIs("receive", points), Top.at # "RESPONSE_GENERATED",
           NEW point \in {"INTENT_PARSED", "INTENT_RESOLVED", "WORKFLOW_EXECUTED"}, Goto(point),
           point = "WORKFLOW_EXECUTED" => Top.at = "calling"
    PROVE  ConversationInv' /\ FinishedKept
<1> PICK n : n = Len(stack)
  OBVIOUS
<1> PICK f : f = [Top EXCEPT !.at = point]
  OBVIOUS
<1>1. Busy /\ Top.call = "receive" /\ TypeOK(ManagerCalls)
  BY InvTypes DEF TopIs
<1>2. /\ n \in Nat /\ n \in DOMAIN stack /\ DOMAIN stack = 1 .. n /\ n = Len(stack)
      /\ Top = stack[n] /\ Top \in ReceiveCall
  BY <1>1, TopCall, CallKinds
<1>3. stack' \in Seq(Frame \union ManagerCalls) /\ Moved /\ stack'[n] = f /\ f \in ReceiveCall
  <2>1. point \in ReceivePoints
    BY DEF ReceivePoints
  <2> QED BY <1>1, <2>1, GotoCall
<1>4. /\ f.call = "receive" /\ f.at = point
      /\ f.session = Top.session /\ f.message = Top.message
      /\ f.copy = Top.copy /\ f.workflow = Top.workflow
  BY <1>2 DEF ReceiveCall
<1>5. Len(stack') = n /\ DOMAIN stack' = 1 .. n /\ \A i \in 1 .. n - 1 : stack'[i] = stack[i]
  BY <1>2, <1>3 DEF Moved
<1>6. BooksMove /\ (\A i \in DOMAIN stack : SessionLeft(i)) /\ BooksOK'
  BY <1>5 DEF Quiet, conversationVars, workflowVars, BooksMove, SessionLeft, ConversationInv, BooksOK,
              BooksTyped, ActiveIsOpen, SessionsSound
<1>7. ReceiveOK(n)' /\ ~Waits(n)'
  <2>1. ReceiveOK(n) /\ (Waits(n) => Awaits(n, stack[n].workflow))
    BY <1>2 DEF ConversationInv, CallsTold
  <2>2. point = "WORKFLOW_EXECUTED" =>
            Top.workflow \in Workflow /\ workflows[Top.workflow] \in {"COMPLETED", "FAILED"}
    BY <1>1, <1>2, <2>1 DEF ReceiveOK, Waits, IsReceive, Awaits
  <2>3. Top.at # "RESPONSE_GENERATED" /\ Top.call = "receive"
    BY <1>1
  <2>4. UNCHANGED <<sessions, received, reentrant, workflows>>
    BY DEF Quiet, conversationVars, workflowVars
  <2>5. ReceiveOK(n)'
    BY <1>2, <1>3, <1>4, <2>1, <2>2, <2>3, <2>4 DEF ReceiveOK
  <2> QED BY <1>3, <1>4, <2>5 DEF Waits
<1>8. OneReceives'
  <2>1. \A i : IsReceive(i)' => IsReceive(i)
    BY <1>1, <1>2, <1>5 DEF IsReceive
  <2> QED BY <2>1 DEF OneReceives, ConversationInv, Quiet, conversationVars, IsReceive
<1>9. \A i \in DOMAIN stack' :
          (i \in DOMAIN stack /\ stack'[i] = stack[i] /\ SessionLeft(i))
          \/ (i = Len(stack') /\ ReceiveOK(i)' /\ ~Waits(i)')
  BY <1>2, <1>5, <1>6, <1>7
<1>10. UNCHANGED workflowVars /\ Top.call # "execute" /\ stack'[Len(stack)].call # "execute"
  BY <1>1, <1>2, <1>3, <1>4 DEF Quiet
<1> QED BY <1>3, <1>6, <1>8, <1>9, <1>10, OwnStep

\* Lemma: a call of the manager begins.
LEMMA EnterStep ==
    ASSUME ConversationInv, UNCHANGED workflowVars, MayCall, NEW f \in ManagerCalls, Enter(f),
           BooksMove, \A i \in DOMAIN stack : SessionLeft(i),
           Len(stack') <= Depth => BooksOK',
           \/ f.call # "receive"
           \/ /\ f.at = "MESSAGE_RECEIVED" /\ (reentrant \/ ~Receiving)
              /\ \A i \in DOMAIN stack' : stack'[i] = f => ReceiveOK(i)'
    PROVE  ConversationInv' /\ FinishedKept
<1> PICK n : n = Len(stack)
  OBVIOUS
<1>1. TypeOK(ManagerCalls) /\ n \in Nat /\ DOMAIN stack = 1 .. n /\ n = Len(stack)
  BY InvTypes
<1>2. /\ stack' \in Seq(Frame \union ManagerCalls) /\ Entered /\ stack'[n + 1] = f
      /\ f.call # "execute"
  BY <1>1, EnterCall, ManagerIsOther DEF OtherCalls
<1>3. Len(stack') = n + 1 /\ DOMAIN stack' = 1 .. n + 1 /\ \A i \in 1 .. n : stack'[i] = stack[i]
  BY <1>1, <1>2 DEF Entered
<1>4. BooksOK'
  <2>1. Len(stack') <= Depth
    BY <1>1, <1>2, DepthKept DEF ConversationInv, BooksOK, BooksTyped, CallsMove
  <2> QED BY <2>1
<1>5. ReceiveOK(n + 1)' /\ ~Waits(n + 1)'
  <2>1. CASE f.call # "receive"
    BY <1>2, <2>1 DEF ReceiveOK, Waits, IsReceive
  <2>2. CASE f.at = "MESSAGE_RECEIVED" /\ \A i \in DOMAIN stack' : stack'[i] = f => ReceiveOK(i)'
    BY <1>1, <1>2, <1>3, <2>2 DEF Waits
  <2> QED BY <2>1, <2>2
<1>6. OneReceives'
  <2> SUFFICES ASSUME ~reentrant, NEW i \in DOMAIN stack', NEW j \in DOMAIN stack',
                      stack'[i].call = "receive", stack'[j].call = "receive"
               PROVE  i = j
    BY DEF OneReceives, IsReceive, BooksMove
  <2>1. CASE f.call # "receive"
    <3>1. IsReceive(i) /\ IsReceive(j)
      BY <1>1, <1>2, <1>3, <2>1 DEF IsReceive
    <3> QED BY <1>1, <3>1 DEF OneReceives, ConversationInv, IsReceive
  <2>2. CASE ~Receiving
    <3>1. i \notin DOMAIN stack /\ j \notin DOMAIN stack
      BY <1>1, <1>3, <2>2 DEF Receiving
    <3> QED BY <1>1, <1>3, <3>1
  <2> QED BY <2>1, <2>2
<1>7. \A i \in DOMAIN stack' :
          (i \in DOMAIN stack /\ stack'[i] = stack[i] /\ SessionLeft(i))
          \/ (i = Len(stack') /\ ReceiveOK(i)' /\ ~Waits(i)')
  BY <1>1, <1>3, <1>5
<1> QED BY <1>1, <1>2, <1>4, <1>6, <1>7, OwnStep

LEMMA ShiftStep ==
    ASSUME ConversationInv, InitializeManager \/ StartManager \/ StopManager
    PROVE  ConversationInv' /\ FinishedKept
<1>1. /\ UNCHANGED <<stack, workflowVars, sessions, active, received, reentrant>>
      /\ manager' \in States
  BY DEF InitializeManager, StartManager, StopManager, ShiftManager, States
<1>2. BooksMove /\ BooksOK' /\ (\A i \in DOMAIN stack : SessionLeft(i)) /\ OneReceives'
  BY <1>1 DEF BooksMove, SessionLeft, ConversationInv, BooksOK, BooksTyped, ActiveIsOpen, SessionsSound,
              OneReceives, IsReceive, workflowVars
<1>3. stack' \in Seq(Frame \union ManagerCalls)
  BY <1>1, InvTypes DEF TypeOK
<1> QED BY <1>1, <1>2, <1>3, OwnStep
LEMMA StartSessionStep ==
    ASSUME ConversationInv, StartSession
    PROVE  ConversationInv' /\ FinishedKept
<1> DEFINE f == [call |-> "session", at |-> "CONVERSATION_STARTED"]
<1>1. f \in ManagerCalls /\ f.call # "receive"
  BY DEF ManagerCalls, SessionCall
<1>2. /\ Enter(f) /\ MayCall /\ sessions' = Append(sessions, NewSession) /\ active' = Len(sessions')
      /\ UNCHANGED <<workflowVars, manager, received, reentrant>>
  BY DEF StartSession
<1> HIDE DEF f
<1>3. /\ sessions \in Seq(Session) /\ SessionsSound /\ received \in Nat /\ CallsTold
      /\ engine \in States /\ manager \in States /\ reentrant \in BOOLEAN
  BY DEF ConversationInv, BooksOK, BooksTyped
<1>4. NewSession \in Session /\ NewSession.state = "NEW" /\ NewSession.messages = << >>
  BY DEF NewSession, Session, SessionStates
<1>5. /\ sessions' \in Seq(Session) /\ active' \in DOMAIN sessions' /\ sessions'[active'] = NewSession
      /\ DOMAIN sessions \subseteq DOMAIN sessions'
      /\ \A s \in DOMAIN sessions : sessions'[s] = sessions[s]
      /\ \A s \in DOMAIN sessions' : s \in DOMAIN sessions \/ sessions'[s] = NewSession
  BY <1>2, <1>3, <1>4
<1>6. BooksMove /\ \A i \in DOMAIN stack : SessionLeft(i)
  <2>1. BooksMove
    BY <1>2, <1>3, <1>5 DEF BooksMove
  <2>2. \A i \in DOMAIN stack : stack[i].call = "receive" => stack[i].session \in DOMAIN sessions
    BY <1>3 DEF CallsTold, ReceiveOK
  <2> QED BY <1>5, <2>1, <2>2 DEF SessionLeft
<1>7. SessionsSound'
  <2>1. Faithful(<< >>, received)
    BY DEF Faithful
  <2> QED BY <1>2, <1>3, <1>4, <1>5, <2>1 DEF SessionsSound
<1>8. ActiveIsOpen'
  BY <1>4, <1>5 DEF ActiveIsOpen
<1>9. Len(stack') <= Depth => BooksOK'
  BY <1>2, <1>3, <1>5, <1>7, <1>8 DEF BooksOK, BooksTyped, workflowVars
<1> QED BY <1>1, <1>2, <1>6, <1>9, EnterStep

\* Lemma: a session is replaced by one with a sound history.
LEMMA SessionStored ==
    ASSUME sessions \in Seq(Session), SessionsSound, received \in Nat, received' \in Nat,
           received <= received',
           NEW s \in DOMAIN sessions, NEW one \in Session, Faithful(one.messages, received'),
           sessions' = [sessions EXCEPT ![s] = one]
    PROVE  /\ sessions' \in Seq(Session) /\ DOMAIN sessions' = DOMAIN sessions
           /\ sessions'[s] = one /\ \A r \in DOMAIN sessions : r # s => sessions'[r] = sessions[r]
           /\ SessionsSound'
<1>1. /\ sessions' \in Seq(Session) /\ DOMAIN sessions' = DOMAIN sessions
      /\ sessions'[s] = one /\ \A r \in DOMAIN sessions : r # s => sessions'[r] = sessions[r]
  OBVIOUS
<1>2. ASSUME NEW r \in DOMAIN sessions, r # s
      PROVE  Faithful(sessions[r].messages, received')
  <2>1. sessions[r] \in Session
    OBVIOUS
  <2> QED BY <2>1, <1>2, SessionHistory, FaithfulLater DEF SessionsSound
<1> QED BY <1>1, <1>2 DEF SessionsSound

LEMMA EndSessionStep ==
    ASSUME ConversationInv, EndSession
    PROVE  ConversationInv' /\ FinishedKept
<1> DEFINE f == [call |-> "session", at |-> "CONVERSATION_ENDED"]
<1>1. f \in ManagerCalls /\ f.call # "receive"
  BY DEF ManagerCalls, SessionCall
<1>2. /\ sessions \in Seq(Session) /\ SessionsSound /\ received \in Nat
      /\ engine \in States /\ manager \in States /\ reentrant \in BOOLEAN
      /\ active \in {None} \union DOMAIN sessions
  BY DEF ConversationInv, BooksOK, BooksTyped
<1> PICK one : one = [sessions[active] EXCEPT !.state = "CLOSED"]
  OBVIOUS
<1>3. /\ Enter(f) /\ MayCall /\ active \in DOMAIN sessions
      /\ reentrant \/ ~Receiving
      /\ sessions' = [sessions EXCEPT ![active] = one] /\ active' = None
      /\ UNCHANGED <<workflowVars, manager, received, reentrant>>
  BY <1>2 DEF EndSession, MayInterfere
<1> HIDE DEF f
<1>4. one \in Session /\ one.messages = sessions[active].messages
  <2>1. sessions[active] \in Session
    BY <1>2, <1>3
  <2> QED BY <2>1 DEF Session, SessionStates
<1>5. Faithful(one.messages, received)
  BY <1>2, <1>3, <1>4 DEF SessionsSound
<1>6. sessions' \in Seq(Session) /\ DOMAIN sessions' = DOMAIN sessions /\ SessionsSound'
  <2>1. received' \in Nat /\ received <= received' /\ Faithful(one.messages, received')
    BY <1>2, <1>3, <1>5
  <2> QED BY <1>2, <1>3, <1>4, <2>1, SessionStored
<1>7. BooksMove /\ \A i \in DOMAIN stack : SessionLeft(i)
  BY <1>2, <1>3, <1>6 DEF BooksMove, SessionLeft, Receiving
<1>8. Len(stack') <= Depth => BooksOK'
  BY <1>2, <1>3, <1>6 DEF BooksOK, BooksTyped, ActiveIsOpen, workflowVars
<1> QED BY <1>1, <1>3, <1>7, <1>8, EnterStep

LEMMA ReceiveStep ==
    ASSUME ConversationInv, Receive
    PROVE  ConversationInv' /\ FinishedKept
<1> PICK n : n = received
  OBVIOUS
<1>1. /\ sessions \in Seq(Session) /\ SessionsSound /\ n \in Nat /\ received = n
      /\ engine \in States /\ manager \in States /\ reentrant \in BOOLEAN
      /\ active \in {None} \union DOMAIN sessions /\ ActiveIsOpen
  BY DEF ConversationInv, BooksOK, BooksTyped
<1> PICK one : one = Appended([sessions[active] EXCEPT !.state = "ACTIVE"], "user", n + 1)
  OBVIOUS
<1> DEFINE f == [call |-> "receive", session |-> active, message |-> n + 1, workflow |-> None,
                 copy |-> one, at |-> "MESSAGE_RECEIVED"]
<1>2. /\ MayCall /\ (reentrant \/ ~Receiving)
      /\ active \in DOMAIN sessions
      /\ received' = n + 1
      /\ Enter(f)
      /\ sessions' = [sessions EXCEPT ![active] = one]
      /\ UNCHANGED <<workflowVars, manager, active, reentrant>>
  BY <1>1 DEF Receive, MayInterfere, StoreCopy
<1> PICK h : h = sessions[active].messages
  OBVIOUS
<1>3. sessions[active] \in Session /\ h \in Seq(Message) /\ Faithful(h, n)
  BY <1>1, <1>2, SessionHistory DEF SessionsSound
<1>4. one \in Session /\ one.state = "ACTIVE" /\ one.messages = Append(h, [role |-> "user", of |-> n + 1])
  <2>1. n + 1 \in Nat /\ "user" \in Roles /\ "ACTIVE" \in SessionStates
    BY <1>1 DEF Roles, SessionStates
  <2>2. PICK session \in Session : session = sessions[active]
    BY <1>3
  <2>3. LET last == Appended([session EXCEPT !.state = "ACTIVE"], "user", n + 1) IN
        /\ last \in Session /\ last.state = "ACTIVE"
        /\ last.messages = Append(session.messages, [role |-> "user", of |-> n + 1])
    BY <2>1, AppendedType
  <2> QED BY <2>2, <2>3
<1>5. Faithful(one.messages, n + 1) /\ EndsWith(one.messages, n + 1)
  BY <1>1, <1>3, <1>4, MessageFollows
<1>6. /\ f \in ManagerCalls /\ f.call = "receive" /\ f.at = "MESSAGE_RECEIVED"
      /\ f.session = active /\ f.message = n + 1 /\ f.copy = one
  <2>1. active \in Nat
    BY <1>1, <1>2
  <2> QED BY <1>1, <1>4, <2>1 DEF ManagerCalls, ReceiveCall, ReceivePoints
<1> HIDE DEF f
<1>7. /\ sessions' \in Seq(Session) /\ DOMAIN sessions' = DOMAIN sessions /\ SessionsSound'
      /\ sessions'[active] = one
  <2>1. received \in Nat /\ received' \in Nat /\ received <= received'
    BY <1>1, <1>2
  <2>2. Faithful(one.messages, received')
    BY <1>2, <1>5
  <2> QED BY <1>1, <1>2, <1>4, <2>1, <2>2, SessionStored
<1>8. BooksMove /\ \A i \in DOMAIN stack : SessionLeft(i)
  BY <1>1, <1>2, <1>7 DEF BooksMove, SessionLeft, Receiving
<1>9. Len(stack') <= Depth => BooksOK'
  BY <1>1, <1>2, <1>4, <1>7 DEF BooksOK, BooksTyped, ActiveIsOpen, workflowVars
<1>10. \A i \in DOMAIN stack' : stack'[i] = f => ReceiveOK(i)'
  BY <1>2, <1>4, <1>5, <1>6, <1>7 DEF ReceiveOK
<1>11. UNCHANGED workflowVars /\ MayCall /\ f \in ManagerCalls /\ Enter(f) /\ BooksMove
  BY <1>2, <1>6, <1>8
<1>12. f.at = "MESSAGE_RECEIVED" /\ (reentrant \/ ~Receiving)
  BY <1>2, <1>6
<1> QED BY <1>8, <1>9, <1>10, <1>11, <1>12, EnterStep

\* Lemma: the answer is appended to the copy, which is stored.
LEMMA RespondStep ==
    ASSUME ConversationInv, Respond
    PROVE  ConversationInv' /\ FinishedKept
<1> PICK n : n = Len(stack)
  OBVIOUS
<1>1. /\ Busy /\ Top.call = "receive" /\ TypeOK(ManagerCalls) /\ Top.at # "RESPONSE_GENERATED"
  BY InvTypes DEF Respond, TopIs
<1>2. /\ n \in Nat /\ n \in DOMAIN stack /\ DOMAIN stack = 1 .. n /\ n = Len(stack)
      /\ Top = stack[n] /\ Top \in ReceiveCall
  BY <1>1, TopCall, CallKinds
<1>3. /\ sessions \in Seq(Session) /\ SessionsSound /\ received \in Nat /\ ActiveIsOpen
      /\ ReceiveOK(n) /\ Len(stack) <= Depth
  BY <1>2 DEF ConversationInv, BooksOK, BooksTyped, CallsTold
<1> PICK s : s = Top.session
  OBVIOUS
<1> PICK m : m = Top.message
  OBVIOUS
<1> PICK h : h = Top.copy.messages
  OBVIOUS
<1> PICK one : one = Appended([Top.copy EXCEPT !.state = "WAITING"], "assistant", m)
  OBVIOUS
<1>4. /\ s \in DOMAIN sessions /\ m \in Nat /\ Top.copy \in Session /\ h \in Seq(Message)
      /\ Faithful(h, received) /\ EndsWith(h, m)
  BY <1>1, <1>2, <1>3, SessionHistory DEF ReceiveOK, ReceiveCall
<1>5. /\ one \in Session /\ one.state = "WAITING"
      /\ one.messages = Append(h, [role |-> "assistant", of |-> m])
  BY <1>4, AppendedType DEF Roles, SessionStates
<1>6. Faithful(one.messages, received)
  BY <1>3, <1>4, <1>5, AnswerFollows
<1> PICK f : f = [Top EXCEPT !.at = "RESPONSE_GENERATED", !.copy = one]
  OBVIOUS
<1>7. /\ f \in ManagerCalls /\ f.call = "receive" /\ f.at = "RESPONSE_GENERATED"
      /\ f.session = s /\ f.copy = one
  BY <1>2, <1>5 DEF ManagerCalls, ReceiveCall, ReceivePoints
<1>8. /\ stack' = [stack EXCEPT ![n] = f] /\ sessions' = [sessions EXCEPT ![s] = one]
      /\ UNCHANGED <<workflowVars, manager, active, reentrant, received>>
  BY <1>2, <1>7 DEF Respond, StoreCopy
<1>9. /\ stack' \in Seq(Frame \union ManagerCalls) /\ Moved /\ stack'[n] = f
  BY <1>1, <1>2, <1>7, <1>8, MoveCall
<1>10. Len(stack') = n /\ DOMAIN stack' = 1 .. n /\ \A i \in 1 .. n - 1 : stack'[i] = stack[i]
  BY <1>2, <1>9 DEF Moved
<1>11. /\ sessions' \in Seq(Session) /\ DOMAIN sessions' = DOMAIN sessions /\ SessionsSound'
       /\ sessions'[s] = one /\ \A r \in DOMAIN sessions : r # s => sessions'[r] = sessions[r]
  <2>1. received' \in Nat /\ received <= received' /\ Faithful(one.messages, received')
    BY <1>3, <1>6, <1>8
  <2> QED BY <1>3, <1>4, <1>5, <1>8, <2>1, SessionStored
<1>12. BooksMove /\ BooksOK'
  <2>1. BooksMove
    BY <1>3, <1>8, <1>11 DEF BooksMove
  <2>2. ActiveIsOpen'
    BY <1>3, <1>5, <1>8, <1>11 DEF ActiveIsOpen, ConversationInv, BooksOK, BooksTyped
  <2>3. BooksTyped'
    BY <1>2, <1>3, <1>8, <1>10, <1>11 DEF ConversationInv, BooksOK, BooksTyped, workflowVars
  <2> QED BY <1>11, <2>1, <2>2, <2>3 DEF BooksOK
<1>13. ReceiveOK(n)' /\ ~Waits(n)'
  BY <1>5, <1>6, <1>7, <1>8, <1>9, <1>11 DEF ReceiveOK, Waits
<1>14. OneReceives'
  <2>1. \A i : IsReceive(i)' => IsReceive(i)
    BY <1>1, <1>2, <1>10 DEF IsReceive
  <2> QED BY <1>8, <2>1 DEF OneReceives, ConversationInv, IsReceive
<1>15. ASSUME NEW i \in DOMAIN stack, i # n
       PROVE  SessionLeft(i)
  BY <1>1, <1>2, <1>15 DEF SessionLeft, OneReceives, ConversationInv, IsReceive
<1>16. \A i \in DOMAIN stack' :
           (i \in DOMAIN stack /\ stack'[i] = stack[i] /\ SessionLeft(i))
           \/ (i = Len(stack') /\ ReceiveOK(i)' /\ ~Waits(i)')
  BY <1>2, <1>10, <1>13, <1>15
<1>17. UNCHANGED workflowVars /\ Top.call # "execute" /\ stack'[Len(stack)].call # "execute"
  BY <1>1, <1>2, <1>7, <1>8, <1>9
<1> QED BY <1>9, <1>12, <1>14, <1>16, <1>17, OwnStep
\* Lemma: execute() is called for a message, and its call waits for it.
LEMMA DelegateStep ==
    ASSUME Steps \in Nat, ConversationInv, NEW w \in Workflow, Delegate(w)
    PROVE  ConversationInv' /\ FinishedKept
<1> PICK n : n = Len(stack)
  OBVIOUS
<1>1. /\ Busy /\ Top.call = "receive" /\ Top.at = "INTENT_RESOLVED" /\ TypeOK(ManagerCalls)
      /\ Len(stack) < Depth /\ UNCHANGED conversationVars /\ CallsTold /\ EndsTold
  BY InvTypes DEF Delegate, TopIs, ConversationInv
<1>2. /\ n \in Nat /\ n \in DOMAIN stack /\ DOMAIN stack = 1 .. n /\ n = Len(stack)
      /\ Top = stack[n] /\ Top \in ReceiveCall
  BY <1>1, TopCall, CallKinds
<1> PICK t : t = [Top EXCEPT !.workflow = w, !.at = "calling"]
  OBVIOUS
<1>3. /\ t \in ManagerCalls /\ t.call = "receive" /\ t.at = "calling" /\ t.workflow = w
      /\ t.session = Top.session /\ t.message = Top.message /\ t.copy = Top.copy
  BY <1>2 DEF ManagerCalls, ReceiveCall, ReceivePoints
<1>4. Begin(w, [stack EXCEPT ![Len(stack)] = t])
  BY <1>2 DEF Delegate
<1>5. /\ StepInv(ManagerCalls)' /\ FinishedKept
      /\ Len(stack') = n + 1
      /\ stack'[n] = t
      /\ stack'[n + 1] = [call |-> "execute", workflow |-> w, step |-> 0, at |-> "STARTED"]
      /\ \A i \in 1 .. n - 1 : stack'[i] = stack[i]
  <2>1. Top.call # "execute"
    BY <1>1
  <2>2. /\ StepInv(ManagerCalls)' /\ FinishedKept
        /\ Len(stack') = Len(stack) + 1
        /\ stack'[Len(stack)] = t
        /\ stack'[Len(stack) + 1] = [call |-> "execute", workflow |-> w, step |-> 0, at |-> "STARTED"]
        /\ \A i \in 1 .. Len(stack) - 1 : stack'[i] = stack[i]
    BY <1>1, <1>3, <1>4, <2>1, CallOver, ManagerIsOther DEF ConversationInv
  <2> QED BY <1>2, <2>2
<1>6. DOMAIN stack' = 1 .. n + 1
  BY <1>2, <1>5 DEF StepInv, RunInv, TypeOK
<1>7. /\ stack'[n + 1].call = "execute" /\ stack'[n + 1].workflow = w
      /\ stack'[n + 1].at = "STARTED"
  BY <1>5
<1>8. \A i \in DOMAIN stack' :
          i = n + 1 \/ i = n \/ (i \in DOMAIN stack /\ i # n /\ stack'[i] = stack[i])
  BY <1>2, <1>5, <1>6
<1>9. BooksMove /\ \A i \in DOMAIN stack : SessionLeft(i)
  BY <1>1 DEF conversationVars, BooksMove, SessionLeft, ConversationInv, BooksOK, BooksTyped
<1>10. BooksOK'
  <2>1. engine' = engine
    BY <1>4 DEF Begin
  <2>2. Len(stack') <= Depth
    BY <1>1, <1>2, <1>5, DepthAssumption
  <2> QED BY <1>1, <2>1, <2>2
       DEF conversationVars, ConversationInv, BooksOK, BooksTyped, ActiveIsOpen, SessionsSound
<1>11. OneReceives'
  <2>1. \A i : IsReceive(i)' => IsReceive(i)
    BY <1>1, <1>2, <1>7, <1>8 DEF IsReceive
  <2> QED BY <1>1, <2>1 DEF OneReceives, ConversationInv, conversationVars, IsReceive
<1>12. ReceiveOK(n)'
  <2>1. ReceiveOK(n) /\ Top.call = "receive" /\ Top.at = "INTENT_RESOLVED"
    BY <1>1, <1>2 DEF CallsTold
  <2> QED BY <1>1, <1>2, <1>3, <1>5, <2>1 DEF ReceiveOK, conversationVars
<1>13. ASSUME NEW i \in DOMAIN stack'
       PROVE  ReceiveOK(i)' /\ EndTold(i)'
  <2>1. CASE i = n + 1
    BY <1>7, <2>1 DEF ReceiveOK, EndTold, Finished
  <2>2. CASE i = n
    BY <1>3, <1>5, <1>12, <2>2 DEF EndTold
  <2>3. CASE i \in DOMAIN stack /\ i # n /\ stack'[i] = stack[i]
    <3>1. ReceiveOK(i)'
      BY <1>5, <1>9, <2>3, ReceiveKept
    <3>2. EndTold(i) /\ (stack[i].call = "execute" => stack[i].workflow \in Workflow)
      BY <1>1, <2>3, Calls, ManagerIsOther DEF EndsTold
    <3> QED BY <1>5, <2>3, <3>1, <3>2 DEF EndTold, FinishedKept
  <2> QED BY <1>8, <2>1, <2>2, <2>3
<1>14. ASSUME NEW i \in DOMAIN stack', Waits(i)'
       PROVE  Awaits(i, stack[i].workflow)'
  <2>1. CASE i = n
    <3>1. n # Len(stack') /\ stack'[n].workflow = w
      BY <1>2, <1>3, <1>5
    <3> QED BY <1>7, <2>1, <3>1 DEF Awaits
  <2>2. CASE i # n
    <3>1. i \in DOMAIN stack /\ stack'[i] = stack[i]
      BY <1>7, <1>8, <1>14, <2>2 DEF Waits, IsReceive
    <3>2. Awaits(i, stack[i].workflow)
      BY <1>1, <1>14, <3>1 DEF Waits, IsReceive, CallsTold
    <3>3. i + 1 \in DOMAIN stack /\ stack[i + 1].call = "execute"
      BY <1>2, <2>2, <3>1, <3>2 DEF Awaits
    <3>4. i + 1 \in 1 .. n - 1 /\ i # n + 1
      BY <1>1, <1>2, <3>1, <3>3
    <3>5. stack'[i + 1] = stack[i + 1] /\ i # Len(stack') /\ i # Len(stack)
      BY <1>2, <1>5, <2>2, <3>4
    <3> QED BY <3>1, <3>2, <3>5 DEF Awaits
  <2> QED BY <2>1, <2>2
<1> QED BY <1>5, <1>10, <1>11, <1>13, <1>14 DEF ConversationInv, CallsTold, EndsTold

-----------------------------------------------------------------------------
(* The invariant is inductive *)

LEMMA ConversationStep ==
    ASSUME Steps \in Nat, ConversationInv, [ConversationNext]_allVars
    PROVE  ConversationInv' /\ FinishedKept
<1>1. CASE Next /\ UNCHANGED conversationVars
  BY <1>1, EngineStep
<1>2. CASE InitializeManager \/ StartManager \/ StopManager
  BY <1>2, ShiftStep
<1>3. CASE StartSession
  BY <1>3, StartSessionStep
<1>4. CASE EndSession
  BY <1>4, EndSessionStep
<1>5. CASE Receive
  BY <1>5, ReceiveStep
<1>6. CASE Parse \/ Resolve \/ Delegated
  <2>1. CASE Parse
    BY <2>1, PointStep DEF Parse, TopIs
  <2>2. CASE Resolve
    BY <2>2, PointStep DEF Resolve, TopIs
  <2>3. CASE Delegated
    BY <2>3, PointStep DEF Delegated, TopIs
  <2> QED BY <1>6, <2>1, <2>2, <2>3
<1>7. CASE Respond
  BY <1>7, RespondStep
<1>8. CASE \E w \in Workflow : Delegate(w)
  BY <1>8, DelegateStep
<1>9. CASE CallReturns \/ CallRaises
  BY <1>9, LeaveStep DEF CallReturns, CallRaises, TopIs
<1>10. CASE UNCHANGED allVars
  BY <1>10, LeaveStep DEF allVars, Quiet
<1> QED BY <1>1, <1>2, <1>3, <1>4, <1>5, <1>6, <1>7, <1>8, <1>9, <1>10 DEF ConversationNext

LEMMA ConversationStarts == ASSUME ConversationInit PROVE ConversationInv
<1>1. StepInv(ManagerCalls)
  BY StepInit DEF ConversationInit
<1>2. stack = << >> /\ sessions = << >> /\ active = None
  BY DEF ConversationInit, Init
<1>3. BooksOK
  BY <1>2, DepthAssumption
     DEF ConversationInit, Init, BooksOK, BooksTyped, ActiveIsOpen, SessionsSound, States
<1>4. CallsTold /\ EndsTold /\ OneReceives
  BY <1>2 DEF CallsTold, EndsTold, OneReceives, IsReceive
<1> QED BY <1>1, <1>3, <1>4 DEF ConversationInv

-----------------------------------------------------------------------------
(* Histories *)

HistoriesKept ==
    ~reentrant => \A s \in DOMAIN sessions :
        /\ IsPrefix(sessions[s].messages, sessions'[s].messages)
        /\ sessions[s].state = "CLOSED" => sessions'[s] = sessions[s]

\* Lemma: a session that is left alone keeps its history.
LEMMA SameHistory ==
    ASSUME ConversationInv, NEW s \in DOMAIN sessions, sessions'[s] = sessions[s]
    PROVE  IsPrefix(sessions[s].messages, sessions'[s].messages)
<1>1. sessions[s] \in Session
  BY DEF ConversationInv, BooksOK, BooksTyped
<1>2. sessions[s].messages \in Seq(Message)
  BY <1>1, SessionHistory
<1> QED BY <1>2, PrefixSelf

\* Lemma: the active session is replaced by one that is as long or longer.
LEMMA ActiveHistory ==
    ASSUME ConversationInv, active \in DOMAIN sessions, active # None, NEW one \in Session,
           IsPrefix(sessions[active].messages, one.messages),
           sessions' = [sessions EXCEPT ![active] = one]
    PROVE  HistoriesKept
<1>1. sessions \in Seq(Session) /\ sessions[active].state # "CLOSED"
  BY DEF ConversationInv, BooksOK, BooksTyped, ActiveIsOpen
<1>2. sessions'[active] = one /\ \A s \in DOMAIN sessions : s # active => sessions'[s] = sessions[s]
  BY <1>1
<1> QED BY <1>1, <1>2, SameHistory DEF HistoriesKept

LEMMA HistoriesStep ==
    ASSUME ConversationInv, [ConversationNext]_allVars
    PROVE  HistoriesKept
<1>1. sessions \in Seq(Session) /\ CallsTold /\ OneReceives /\ received \in Nat
      /\ active \in {None} \union DOMAIN sessions
  BY DEF ConversationInv, BooksOK, BooksTyped
<1>2. CASE \A s \in DOMAIN sessions : sessions'[s] = sessions[s]
  BY <1>2, SameHistory DEF HistoriesKept
<1>3. CASE StartSession
  <2>1. \A s \in DOMAIN sessions : sessions'[s] = sessions[s]
    BY <1>1, <1>3 DEF StartSession, NewSession
  <2> QED BY <1>2, <2>1
<1>4. CASE EndSession
  <2>1. PICK one : one = [sessions[active] EXCEPT !.state = "CLOSED"]
    OBVIOUS
  <2>2. /\ active \in DOMAIN sessions /\ active # None
        /\ sessions' = [sessions EXCEPT ![active] = one]
    BY <1>1, <1>4, <2>1 DEF EndSession
  <2>3. sessions[active] \in Session
    BY <1>1, <2>2
  <2>4. one \in Session /\ one.messages = sessions[active].messages
    BY <2>1, <2>3 DEF Session, SessionStates
  <2>5. IsPrefix(sessions[active].messages, one.messages)
    BY <2>3, <2>4, SessionHistory, PrefixSelf
  <2> QED BY <2>2, <2>4, <2>5, ActiveHistory
<1>5. CASE Receive
  <2>1. PICK n \in Nat : n = received + 1
    BY <1>1
  <2>2. PICK one : one = Appended([sessions[active] EXCEPT !.state = "ACTIVE"], "user", n)
    OBVIOUS
  <2>3. /\ active \in DOMAIN sessions /\ active # None
        /\ sessions' = [sessions EXCEPT ![active] = one]
    BY <1>1, <1>5, <2>1, <2>2 DEF Receive, StoreCopy
  <2>4. sessions[active] \in Session
    BY <1>1, <2>3
  <2>5. "user" \in Roles /\ "ACTIVE" \in SessionStates
    BY DEF Roles, SessionStates
  <2>6. /\ one \in Session
        /\ one.messages = Append(sessions[active].messages, [role |-> "user", of |-> n])
    BY <2>2, <2>4, <2>5, AppendedType
  <2>7. [role |-> "user", of |-> n] \in Message
    BY <2>5 DEF Message
  <2>8. IsPrefix(sessions[active].messages, one.messages)
    BY <2>4, <2>6, <2>7, SessionHistory, PrefixAppend
  <2> QED BY <2>3, <2>6, <2>8, ActiveHistory
<1>6. CASE Respond /\ ~reentrant
  <2>1. PICK s, m : s = Top.session /\ m = Top.message
    OBVIOUS
  <2>2. PICK one : one = Appended([Top.copy EXCEPT !.state = "WAITING"], "assistant", m)
    OBVIOUS
  <2>3. /\ Top \in ReceiveCall /\ s \in DOMAIN sessions /\ sessions[s] = Top.copy
        /\ sessions[s].state # "CLOSED"
    <3>1. Len(stack) \in DOMAIN stack /\ Top = stack[Len(stack)] /\ Top.call = "receive"
      BY <1>6, InvTypes, TopCall DEF Respond, TopIs
    <3>2. Top \in ReceiveCall
      BY <3>1, InvTypes, CallKinds
    <3>3. ReceiveOK(Len(stack))
      BY <1>1, <3>1 DEF CallsTold
    <3> QED BY <1>6, <2>1, <3>1, <3>2, <3>3 DEF ReceiveOK
  <2>4. sessions[s] \in Session /\ m \in Nat /\ Top.copy \in Session
    BY <2>1, <2>3 DEF ReceiveCall
  <2>5. "assistant" \in Roles /\ "WAITING" \in SessionStates
    BY DEF Roles, SessionStates
  <2>6. one.messages = Append(sessions[s].messages, [role |-> "assistant", of |-> m])
    <3>1. one.messages = Append(Top.copy.messages, [role |-> "assistant", of |-> m])
      BY <2>2, <2>4, <2>5, AppendedType
    <3> QED BY <2>3, <3>1
  <2>7. sessions' = [sessions EXCEPT ![s] = one]
    BY <1>6, <2>1, <2>2, <2>3 DEF Respond, StoreCopy, ReceiveCall
  <2>8. sessions'[s] = one /\ \A r \in DOMAIN sessions : r # s => sessions'[r] = sessions[r]
    BY <1>1, <2>3, <2>7
  <2>9. [role |-> "assistant", of |-> m] \in Message
    BY <2>4, <2>5 DEF Message
  <2>10. IsPrefix(sessions[s].messages, one.messages)
    BY <2>4, <2>6, <2>9, SessionHistory, PrefixAppend
  <2> QED BY <2>3, <2>8, <2>10, SameHistory DEF HistoriesKept
<1>7. CASE reentrant
  BY <1>7 DEF HistoriesKept
<1>8. CASE UNCHANGED sessions
  BY <1>2, <1>8
<1> QED BY <1>3, <1>4, <1>5, <1>6, <1>7, <1>8
     DEF ConversationNext, InitializeManager, StartManager, StopManager, ShiftManager, Parse, Resolve,
         Delegated, Delegate, CallReturns, CallRaises, Quiet, conversationVars, allVars

-----------------------------------------------------------------------------
(* Theorems *)

\* The invariant of the conversation manager with the engine it calls.
THEOREM ConversationCorrect == ASSUME Steps \in Nat PROVE ConversationSpec => []ConversationInv
<1>1. ConversationInit => ConversationInv
  BY ConversationStarts
<1>2. ConversationInv /\ [ConversationNext]_allVars => ConversationInv'
  BY ConversationStep
<1> QED BY <1>1, <1>2, PTL DEF ConversationSpec

LEMMA ToldIsOne ==
    ASSUME ConversationInv
    PROVE  ConversationTypeOK /\ ActiveIsOpen /\ AnswersFollowMessages /\ ExecutedHasEnded
<1>1. /\ TypeOK(ManagerCalls) /\ BooksTyped /\ ActiveIsOpen /\ SessionsSound /\ CallsTold
  BY InvTypes DEF ConversationInv, BooksOK
<1>2. ConversationTypeOK
  <2>1. workflows \in [Workflow -> {"ABSENT", "PENDING", "RUNNING"} \union Finished]
    BY <1>1 DEF TypeOK
  <2>2. \A i \in DOMAIN stack : stack[i].call = "receive" => stack[i].copy \in Session
    BY <1>1, CallKinds DEF Frame, ReceiveCall, SessionCall
  <2>3. \A s \in DOMAIN sessions : sessions[s] \in Session
    BY <1>1 DEF BooksTyped
  <2> QED BY <1>1, <2>1, <2>2, <2>3 DEF ConversationTypeOK, BooksTyped
<1>3. AnswersFollowMessages
  BY <1>1 DEF AnswersFollowMessages, SessionsSound, Faithful
<1>4. ExecutedHasEnded
  <2> SUFFICES ASSUME NEW i \in DOMAIN stack, stack[i].at = "WORKFLOW_EXECUTED"
               PROVE  workflows[stack[i].workflow] \in {"COMPLETED", "FAILED"}
    BY DEF ExecutedHasEnded
  <2>1. stack[i].call = "receive"
    BY <1>1, CallKinds DEF Frame, Points, Finished, SessionCall
  <2> QED BY <1>1, <2>1 DEF CallsTold, ReceiveOK
<1> QED BY <1>1, <1>2, <1>3, <1>4

\* A conversation stays one, for any number of sessions and messages and any nesting of
\* receive(), the session operations and the engine's calls: the active session is open,
\* answers directly follow their messages in a history that only grows as long as host
\* code inside receive() leaves the session alone, and what is announced as executed was.
THEOREM ConversationStaysOne ==
    ASSUME Steps \in Nat
    PROVE  ConversationSpec => ConversationIsOne
<1>1. ConversationInv /\ [ConversationNext]_allVars =>
          [~reentrant => \A s \in DOMAIN sessions :
               /\ IsPrefix(sessions[s].messages, sessions'[s].messages)
               /\ sessions[s].state = "CLOSED" => sessions'[s] = sessions[s]]_allVars
  BY HistoriesStep DEF HistoriesKept
<1>2. ConversationInv =>
          ConversationTypeOK /\ ActiveIsOpen /\ AnswersFollowMessages /\ ExecutedHasEnded
  BY ToldIsOne
<1> QED BY <1>1, <1>2, ConversationCorrect, PTL DEF ConversationSpec, ConversationIsOne, HistoryKept

\* The engine keeps its promise when the conversation manager is one of its callers: a
\* workflow runs once, its steps in order, by one call.
THEOREM DelegatedRunOnce ==
    ASSUME Steps \in Nat
    PROVE  ConversationSpec => []WorkflowsRunOnce
<1>1. ConversationInv => WorkflowsRunOnce
  BY RunnersOfCalls, ManagerIsOther DEF ConversationInv, StepInv, WorkflowsRunOnce
<1> QED BY <1>1, ConversationCorrect, PTL

\* ... and no message overwrites the result of a workflow that has finished.
THEOREM DelegatedStayFinished ==
    ASSUME Steps \in Nat
    PROVE  ConversationSpec => FinishedIsFinal
<1>1. ConversationInv /\ [ConversationNext]_allVars => FinishedKept
  BY ConversationStep
<1>2. ConversationInv /\ [ConversationNext]_allVars =>
          [\A w \in Workflow : workflows[w] \in Finished =>
                workflows'[w] = workflows[w]]_<<stack, workflowVars>>
  BY <1>1 DEF FinishedKept
<1> QED BY <1>2, ConversationCorrect, PTL DEF ConversationSpec, FinishedIsFinal
=============================================================================
