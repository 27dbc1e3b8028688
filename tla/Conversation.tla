---------------------------- MODULE Conversation ----------------------------
(***************************************************************************)
(* The conversation manager (argus/conversation/manager.py) with the       *)
(* intent router (argus/intent/router.py) and the workflow engine it       *)
(* calls.  receive() takes a snapshot of the session, appends to it,       *)
(* publishes, runs a workflow, and appends to its own snapshot again; all  *)
(* this time handlers and workflow steps may call the manager back.        *)
(***************************************************************************)
EXTENDS WorkflowEngine

CONSTANTS
    MaxSessions,   \* bound: sessions started
    MaxMessages,   \* bound: messages received
    None           \* Python's None

VARIABLES
    manager,    \* ConversationManager._state
    sessions,   \* ConversationManager._sessions, in the order they were started
    active,     \* ConversationManager._active_session_id
    received,   \* history: number of messages received
    reentrant   \* whether host code inside receive() calls receive or end_session

conversationVars == <<manager, sessions, active, received, reentrant>>
allVars == <<stack, workflowVars, conversationVars>>

Roles == {"user", "assistant"}
SessionStates == {"NEW", "ACTIVE", "WAITING", "CLOSED"}
NewSession == [state |-> "NEW", messages |-> << >>]

ConversationInit ==
    /\ Init
    /\ manager = "CREATED"
    /\ sessions = << >>
    /\ active = None
    /\ received = 0
    /\ reentrant \in BOOLEAN

Receiving == \E i \in DOMAIN stack : stack[i].call = "receive"
MayInterfere == MayCall /\ (reentrant \/ ~Receiving)

-----------------------------------------------------------------------------
(* The lifecycle of the service and its registry of sessions *)

ShiftManager(from, to) ==
    /\ HostRuns
    /\ manager = from
    /\ manager' = to
    /\ UNCHANGED <<stack, workflowVars, sessions, active, received, reentrant>>

InitializeManager == ShiftManager("CREATED", "INITIALIZING")
StartManager == ShiftManager("INITIALIZING", "RUNNING")
StopManager == ShiftManager("RUNNING", "STOPPED")

StartSession ==
    /\ MayCall
    /\ active = None
    /\ Len(sessions) < MaxSessions
    /\ sessions' = Append(sessions, NewSession)
    /\ active' = Len(sessions')
    /\ Enter([call |-> "session", at |-> "CONVERSATION_STARTED"])
    /\ UNCHANGED <<workflowVars, manager, received, reentrant>>

EndSession ==
    /\ MayInterfere
    /\ active # None
    /\ sessions' = [sessions EXCEPT ![active].state = "CLOSED"]
    /\ active' = None
    /\ Enter([call |-> "session", at |-> "CONVERSATION_ENDED"])
    /\ UNCHANGED <<workflowVars, manager, received, reentrant>>

-----------------------------------------------------------------------------
(* receive *)

Appended(session, role, n) ==
    [session EXCEPT !.messages = Append(@, [role |-> role, of |-> n])]

\* The copy a frame works on is stored and announced.
StoreCopy(frame) ==
    /\ sessions' = [sessions EXCEPT ![frame.session] = frame.copy]
    /\ UNCHANGED <<workflowVars, manager, active, reentrant>>

\* The active session becomes ACTIVE and gets the message.
Receive ==
    /\ MayInterfere
    /\ manager = "RUNNING"
    /\ active # None
    /\ received < MaxMessages
    /\ received' = received + 1
    /\ LET frame == [call |-> "receive", session |-> active, message |-> received', workflow |-> None,
                     copy |-> Appended([sessions[active] EXCEPT !.state = "ACTIVE"],
                                       "user", received'),
                     at |-> "MESSAGE_RECEIVED"]
       IN  Enter(frame) /\ StoreCopy(frame)

Quiet == UNCHANGED <<workflowVars, conversationVars>>

\* IntentRouter.parse publishes INTENT_PARSED, then receive INTENT_RESOLVED.
Parse == TopIs("receive", {"MESSAGE_RECEIVED"}) /\ Goto("INTENT_PARSED") /\ Quiet
Resolve == TopIs("receive", {"INTENT_PARSED"}) /\ Goto("INTENT_RESOLVED") /\ Quiet

\* A workflow id was given and the engine takes it; when the engine refuses it
\* the WorkflowError is dropped, as if no id had been given.
Delegate(w) ==
    /\ TopIs("receive", {"INTENT_RESOLVED"})
    /\ Len(stack) < Depth
    /\ Begin(w, [stack EXCEPT ![Len(stack)].workflow = w, ![Len(stack)].at = "calling"])
    /\ UNCHANGED conversationVars

\* execute() came back.
Delegated ==
    /\ TopIs("receive", {"calling"})
    /\ Goto("WORKFLOW_EXECUTED")
    /\ Quiet

\* Mutant of Respond: the answer is appended to the session as it is stored by then.
RespondToStored ==
    /\ TopIs("receive", {"INTENT_RESOLVED", "WORKFLOW_EXECUTED", "raised"})
    /\ LET frame == [Top EXCEPT !.at = "RESPONSE_GENERATED",
                                !.copy = Appended([sessions[Top.session] EXCEPT !.state = "WAITING"],
                                                  "assistant", Top.message)]
       IN  /\ stack' = [stack EXCEPT ![Len(stack)] = frame]
           /\ StoreCopy(frame)
    /\ UNCHANGED received

\* The answer is appended to the frame's copy, which becomes WAITING and is
\* stored.  A WorkflowError that execute() let through is dropped as well.
Respond ==
    /\ TopIs("receive", {"INTENT_RESOLVED", "WORKFLOW_EXECUTED", "raised"})
    /\ LET frame == [Top EXCEPT !.at = "RESPONSE_GENERATED",
                                !.copy = Appended([@ EXCEPT !.state = "WAITING"],
                                                  "assistant", Top.message)]
       IN  /\ stack' = [stack EXCEPT ![Len(stack)] = frame]
           /\ StoreCopy(frame)
    /\ UNCHANGED received

CallReturns ==
    /\ TopIs("receive", {"RESPONSE_GENERATED"}) \/ (Busy /\ Top.call = "session")
    /\ Return
    /\ Quiet

\* A handler raises, or execute() let through something else than a WorkflowError.
CallRaises ==
    /\ Busy /\ Top.call \in {"receive", "session"} /\ Top.at # "calling"
    /\ Unwind
    /\ Quiet

ConversationNext ==
    \/ Next /\ UNCHANGED conversationVars
    \/ InitializeManager \/ StartManager \/ StopManager
    \/ StartSession \/ EndSession \/ Receive
    \/ Parse \/ Resolve \/ Delegated \/ Respond
    \/ \E w \in Workflow : Delegate(w)
    \/ CallReturns \/ CallRaises

ConversationSpec == ConversationInit /\ [][ConversationNext]_allVars

-----------------------------------------------------------------------------
(* Properties *)

Session == [state : SessionStates, messages : Seq([role : Roles, of : Nat])]

\* Types of the engine and of the manager, and of the calls in progress.
ConversationTypeOK ==
    /\ engine \in States /\ manager \in States
    /\ workflows \in [Workflow -> {"ABSENT", "PENDING", "RUNNING"} \union Finished]
    /\ \A s \in DOMAIN sessions : sessions[s] \in Session
    /\ active \in {None} \union DOMAIN sessions
    /\ Len(stack) <= Depth
    /\ \A i \in DOMAIN stack : stack[i].call = "receive" => stack[i].copy \in Session

\* What the comment in receive() claims: the active session is never CLOSED,
\* although calls in progress hold copies that are older than the end of a session.
ActiveIsOpen == active # None => sessions[active].state # "CLOSED"

\* In the history of every session an answer directly follows the message it
\* answers, and no message stands there twice, however receive() calls nest.
AnswersFollowMessages ==
    \A s \in DOMAIN sessions :
        LET h == sessions[s].messages IN
        /\ \A i \in DOMAIN h : h[i].role = "assistant" =>
               i > 1 /\ h[i - 1] = [role |-> "user", of |-> h[i].of]
        /\ \A i, j \in DOMAIN h : h[i] = h[j] => i = j

\* WORKFLOW_EXECUTED is only announced of a workflow that came to its end, also
\* when its steps and handlers raised or ran other workflows on the way.
ExecutedHasEnded ==
    \A i \in DOMAIN stack : stack[i].at = "WORKFLOW_EXECUTED" =>
        workflows[stack[i].workflow] \in {"COMPLETED", "FAILED"}

\* As long as host code inside receive() leaves the session alone, histories
\* only grow and a closed session stays as it is, whatever the workflows and
\* the other handlers do and whichever calls are left by exceptions.
HistoryKept ==
    [][~reentrant => \A s \in DOMAIN sessions :
           /\ IsPrefix(sessions[s].messages, sessions'[s].messages)
           /\ sessions[s].state = "CLOSED" => sessions'[s] = sessions[s]]_allVars

\* Through everything that handlers and workflow steps call back, a conversation
\* stays one: the active session is open, answers follow their messages in a
\* history that only grows, and what is announced as executed was executed.
ConversationIsOne ==
    /\ [](ConversationTypeOK /\ ActiveIsOpen /\ AnswersFollowMessages /\ ExecutedHasEnded)
    /\ HistoryKept
=============================================================================
