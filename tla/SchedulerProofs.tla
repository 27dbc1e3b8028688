--------------------------- MODULE SchedulerProofs ---------------------------
(***************************************************************************)
(* Proofs about Scheduler, for every set of threads, nesting depth, ids,   *)
(* triggers and bounds.                                                    *)
(***************************************************************************)
EXTENDS Scheduler, TLAPS

\* What a frame knows at each point: a call in progress has a request and a
\* reference time that has passed, and a running tick a current task.
FrameOK ==
    \A c \in Frames : pc[c] # "idle" =>
        /\ request[c] \in Requests
        /\ at[c] \in Nat
        /\ at[c] <= clock
        /\ pc[c] \in {"started", "callback", "finish", "finishing", "done"} => current[c] \in Task

\* Lemma: a trigger answers with an instant or with None.
LEMMA NextFireType ==
    ASSUME NEW tr \in Triggers, NEW after \in Nat
    PROVE  NextFire(tr, after) \in Instant
<1>1. tr \in TriggerType
  BY TriggersAssumption
<1>2. CASE tr.kind = "daily"
  <2>1. tr.at \in Nat
    BY <1>1, <1>2 DEF TriggerType
  <2>2. after \div Day \in Nat /\ Day \in Nat
    BY DayAssumption
  <2>3. (after \div Day) * Day \in Nat
    BY <2>2
  <2> QED BY <1>2, <2>1, <2>2, <2>3 DEF NextFire, Instant
<1>3. CASE tr.kind = "interval"
  BY <1>1, <1>3, NoneAssumption DEF TriggerType, NextFire, Instant
<1>4. CASE tr.kind = "oneshot"
  BY <1>1, <1>4 DEF TriggerType, NextFire, Instant
<1> QED BY <1>1, <1>2, <1>3, <1>4 DEF TriggerType

TypeInv == TypeOK /\ FrameOK

LEMMA TypeInvInit == Init => TypeInv
  BY BoundsAssumption DEF Init, TypeInv, TypeOK, FrameOK, States, Points, Instant

\* Lemma: a returning call leaves well-typed frames behind.
LEMMA ReturnType ==
    ASSUME TypeInv, NEW c \in Frames, Return(c), UNCHANGED <<state, clock, history>>,
           lock' \in Frames \cup {None}, tasks' \in [Ids -> Task \cup {None}]
    PROVE  TypeInv'
<1>1. TypeOK'
  BY DEF TypeInv, TypeOK, Return, Points, Instant, history
<1>2. FrameOK'
  BY DEF TypeInv, TypeOK, FrameOK, Return, Points, Instant
<1> QED BY <1>1, <1>2 DEF TypeInv

\* Lemma: so does a frame that moves on after its locked section, with the same
\* request and reference time.
LEMMA MoveType ==
    ASSUME TypeInv, NEW c \in Frames, NEW point \in Points, pc[c] # "idle", Goto(c, point),
           UNCHANGED <<state, request, at, clock>>,
           lock' \in Frames \cup {None}, tasks' \in [Ids -> Task \cup {None}],
           batch' \in [Frames -> SUBSET Task], current' \in [Frames -> Task \cup {None}],
           \A d \in Frames \ {c} : current'[d] = current[d],
           point \in {"started", "callback", "finish", "finishing", "done"} => current'[c] \in Task,
           serial' \in Nat, cancelled' \subseteq Nat, fired' \subseteq Nat, refired' \subseteq Nat
    PROVE  TypeInv'
<1>1. TypeOK'
  BY DEF TypeInv, TypeOK, Goto
<1>2. FrameOK'
  BY DEF TypeInv, TypeOK, FrameOK, Goto
<1> QED BY <1>1, <1>2 DEF TypeInv

\* Lemma: where the locked sections of registry operations put a task, it is one.
LEMMA RegistryTypes ==
    ASSUME TypeInv, NEW c \in Frames, pc[c] # "idle"
    PROVE  /\ request[c].op # "tick" => request[c].id \in Ids
           /\ request[c].op = "schedule" =>
                request[c].trigger \in Triggers /\ request[c].priority \in Priorities
           /\ \A t \in Task : Paused(t) \in Task /\ Resumed(t, at[c]) \in Task
           /\ \A id \in Ids, t \in Task : Finished(id, t, at[c]) \in Task \cup {None}
<1>1. request[c] \in Requests /\ at[c] \in Nat
  BY DEF TypeInv, FrameOK
<1>2. \A t \in Task : NextFire(t.trigger, at[c]) \in Instant
  BY <1>1, NextFireType DEF Task
<1>3. \A t \in Task : Paused(t) \in Task
  BY DEF Paused, Task
<1>4. \A t \in Task : Resumed(t, at[c]) \in Task
  BY <1>2 DEF Resumed, Task
<1>5. \A id \in Ids, t \in Task : Finished(id, t, at[c]) \in Task \cup {None}
  <2> TAKE id \in Ids, t \in Task
  <2>1. CASE tasks[id] = None
    BY <2>1 DEF Finished
  <2>2. CASE tasks[id] # None
    <3>1. tasks[id] \in Task
      BY <2>2 DEF TypeInv, TypeOK
    <3>2. [tasks[id] EXCEPT !.last_run = at[c], !.next_run = NextFire(tasks[id].trigger, at[c])]
            \in Task
      BY <1>1, <1>2, <3>1 DEF Task, Instant
    <3> QED BY <2>2, <3>2 DEF Finished
  <2> QED BY <2>1, <2>2
<1>6. request[c].op # "tick" => request[c].id \in Ids
  BY <1>1 DEF Requests
<1>7. request[c].op = "schedule" =>
        request[c].trigger \in Triggers /\ request[c].priority \in Priorities
  BY <1>1 DEF Requests
<1> QED BY <1>3, <1>4, <1>5, <1>6, <1>7

\* Lemma: the lifecycle, the clock and the beginning of a call keep the types.
LEMMA TypeInvOutside ==
    ASSUME TypeInv, Initialize \/ Start \/ Stop \/ Elapse \/ \E c \in Frames : Call(c)
    PROVE  TypeInv'
<1>1. CASE Initialize \/ Start \/ Stop
  BY <1>1 DEF TypeInv, TypeOK, FrameOK, Initialize, Start, Stop, SetState, States, frameVars, history
<1>2. CASE Elapse
  BY <1>2 DEF TypeInv, TypeOK, FrameOK, Elapse, frameVars, history
<1>3. ASSUME NEW c \in Frames, Call(c)
      PROVE  TypeInv'
  BY <1>3 DEF TypeInv, TypeOK, FrameOK, Call, Goto, Points, Instant, history
<1> QED BY <1>1, <1>2, <1>3

\* Lemma: so does every step of a call.
LEMMA TypeInvStep ==
    ASSUME TypeInv, NEW c \in Frames, Step(c)
    PROVE  TypeInv'
<1> USE DEF TypeInv, TypeOK
<1>1. CASE Acquire(c) \/ AcquireToFinish(c)
  <2>1. PICK from \in {"lock", "finish"}, to \in {"body", "finishing"} :
          AcquireAt(c, from, to) /\ (to = "finishing" => from = "finish")
    BY <1>1 DEF Acquire, AcquireToFinish
  <2>2. pc[c] # "idle" /\ to \in Points
    BY <2>1 DEF AcquireAt, At, Points
  <2>3. to = "finishing" => current'[c] \in Task
    BY <2>1 DEF FrameOK, AcquireAt, At
  <2> QED BY <2>1, <2>2, <2>3, MoveType DEF AcquireAt, history
<1>2. CASE Reject(c) \/ Publish(c) \/ Heartbeat(c) \/ HandlerRaises(c)
  BY <1>2, ReturnType DEF Reject, Publish, Heartbeat, HandlerRaises, Release
<1>3. CASE Schedule(c)
  <2>1. pc[c] = "body" /\ pc[c] # "idle"
    BY <1>3 DEF Schedule, Locked, At
  <2>2. [id |-> request[c].id, trigger |-> request[c].trigger,
            priority |-> request[c].priority, enabled |-> TRUE,
            next_run |-> NextFire(request[c].trigger, at[c]), last_run |-> None,
            serial |-> serial] \in Task
    BY <1>3, <2>1, RegistryTypes, NextFireType DEF Schedule, FrameOK, Task, Instant
  <2>3. tasks' \in [Ids -> Task \cup {None}]
    BY <1>3, <2>2 DEF Schedule
  <2>4. serial' \in Nat /\ cancelled' \subseteq Nat /\ fired' \subseteq Nat /\ refired' \subseteq Nat
    BY <1>3 DEF Schedule
  <2>5. /\ Goto(c, "publish") /\ lock' = None
        /\ UNCHANGED <<state, request, at, clock>> /\ batch' = batch /\ current' = current
    BY <1>3 DEF Schedule, Release
  <2> QED BY <2>1, <2>3, <2>4, <2>5, MoveType DEF Points
<1>4. CASE Cancel(c)
  <2>1. pc[c] # "idle"
    BY <1>4 DEF Cancel, Locked, At
  <2>2. tasks' \in [Ids -> Task \cup {None}]
    BY <1>4 DEF Cancel
  <2>3. cancelled' \subseteq Nat
    BY <1>4 DEF Cancel, Registered, Task
  <2> QED BY <1>4, <2>1, <2>2, <2>3, MoveType DEF Cancel, Release, Points
<1>5. CASE Pause(c) \/ Resume(c)
  <2>1. pc[c] # "idle" /\ request[c].id \in Registered
    BY <1>5 DEF Pause, Resume, Replace, Locked, At
  <2>2. tasks[request[c].id] \in Task
    BY <2>1 DEF Registered
  <2>3. tasks' \in [Ids -> Task \cup {None}]
    BY <1>5, <2>1, <2>2, RegistryTypes DEF Pause, Resume, Replace
  <2> QED BY <1>5, <2>1, <2>3, MoveType DEF Pause, Resume, Replace, Release, Points, history
<1>6. CASE SelectDue(c)
  <2>1. pc[c] # "idle"
    BY <1>6 DEF SelectDue, Locked, At
  <2>2. batch' \in [Frames -> SUBSET Task]
    BY <1>6 DEF SelectDue, Registered
  <2> QED BY <1>6, <2>1, <2>2, MoveType DEF SelectDue, Release, Points, history
<1>7. CASE StartNext(c)
  <2>1. pc[c] # "idle"
    BY <1>7 DEF StartNext, At
  <2>2. PICK t \in batch[c] : /\ batch' = [batch EXCEPT ![c] = @ \ {t}]
                              /\ current' = [current EXCEPT ![c] = t]
    BY <1>7 DEF StartNext
  <2>3. t \in Task
    BY <2>2
  <2> QED BY <1>7, <2>1, <2>2, <2>3, MoveType DEF StartNext, Points, history
<1>8. CASE BatchDone(c)
  BY <1>8, MoveType DEF BatchDone, At, Points, history
<1>9. CASE EnterCallback(c)
  <2>1. pc[c] = "started" /\ current[c] \in Task
    BY <1>9 DEF EnterCallback, At, FrameOK
  <2>2. current[c].serial \in Nat
    BY <2>1 DEF Task
  <2>3. fired' \subseteq Nat /\ refired' \subseteq Nat
    BY <1>9, <2>2 DEF EnterCallback
  <2> QED BY <1>9, <2>1, <2>3, MoveType DEF EnterCallback, Points
<1>10. CASE CallbackDone(c)
  BY <1>10, MoveType DEF CallbackDone, At, FrameOK, Points, history
<1>11. CASE Finish(c)
  <2>1. pc[c] = "finishing" /\ current[c] \in Task
    BY <1>11 DEF Finish, At, FrameOK
  <2>2. Finished(current[c].id, current[c], at[c]) \in Task \cup {None}
    BY <2>1, RegistryTypes DEF Task
  <2>3. tasks' \in [Ids -> Task \cup {None}]
    BY <1>11, <2>2 DEF Finish
  <2> QED BY <1>11, <2>1, <2>3, MoveType DEF Finish, Release, Points, history
<1>12. CASE Done(c)
  BY <1>12, MoveType DEF Done, At, Points, history
<1> QED
  BY <1>1, <1>2, <1>3, <1>4, <1>5, <1>6, <1>7, <1>8, <1>9, <1>10, <1>11, <1>12 DEF Step

\* Lemma: the typing invariant is inductive.
LEMMA TypeInvNext == TypeInv /\ [Next]_vars => TypeInv'
<1> SUFFICES ASSUME TypeInv, [Next]_vars
             PROVE  TypeInv'
  OBVIOUS
<1>1. CASE UNCHANGED vars
  BY <1>1 DEF vars, frameVars, history, TypeInv, TypeOK, FrameOK
<1>2. CASE Next
  BY <1>2, TypeInvOutside, TypeInvStep DEF Next
<1> QED BY <1>1, <1>2

\* Type correctness of the scheduler, its calls and its history.
THEOREM TypeCorrect == Spec => []TypeOK
<1>1. TypeInv => TypeOK
  BY DEF TypeInv
<1> QED BY <1>1, TypeInvInit, TypeInvNext, PTL DEF Spec

-----------------------------------------------------------------------------
(* The lock *)

\* The frames around an active one all wait in code of the host.
Nested ==
    \A c, d \in Frames :
        c[1] = d[1] /\ d[2] > c[2] /\ pc[d] # "idle" => pc[c] \in CallingOut

HolderInside == lock # None => pc[lock] \in {"body", "finishing"}

LockInv == TypeInv /\ Nested /\ HolderInside

\* Lemmas: what frames are, and that the frame around a frame is one.
LEMMA FrameTuples ==
    \A c \in Frames : /\ c \in Threads \X Nat /\ c[2] >= 1
                      /\ c[2] <= Depth[c[1]] /\ Depth[c[1]] \in Nat
  BY DepthAssumption DEF Frames

LEMMA OuterFrame ==
    \A c \in Frames : c[2] > 1 =>
        /\ <<c[1], c[2] - 1>> \in Frames
        /\ <<c[1], c[2] - 1>>[1] = c[1] /\ <<c[1], c[2] - 1>>[2] = c[2] - 1
<1> SUFFICES ASSUME NEW c \in Frames, c[2] > 1
             PROVE  <<c[1], c[2] - 1>> \in Frames
  OBVIOUS
<1>1. c[1] \in Threads /\ c[2] - 1 \in 1 .. Depth[c[1]]
  BY FrameTuples
<1>2. <<c[1], c[2] - 1>> \in {c[1]} \X (1 .. Depth[c[1]])
  BY <1>1
<1> QED BY <1>1, <1>2 DEF Frames

\* Lemma: a step of the innermost frame keeps the frames nested.
LEMMA NestedStep ==
    ASSUME TypeInv, Nested, NEW c \in Frames, NEW point, Innermost(c), pc[c] # "idle", Goto(c, point)
    PROVE  Nested'
<1> SUFFICES ASSUME NEW b \in Frames, NEW d \in Frames, b[1] = d[1], d[2] > b[2], pc'[d] # "idle"
             PROVE  pc'[b] \in CallingOut
  BY DEF Nested, CallingOut
<1>1. pc \in [Frames -> Points]
  BY DEF TypeInv, TypeOK
<1>2. d \in Threads \X Nat /\ b \in Threads \X Nat
  BY FrameTuples
<1>3. CASE b = c
  <2>1. d # c
    BY <1>2, <1>3
  <2>2. pc'[d] = pc[d]
    BY <1>1, <2>1 DEF Goto
  <2> QED BY <1>3, <2>2 DEF Innermost
<1>4. CASE b # c
  <2>1. pc[d] # "idle"
    BY <1>1 DEF Goto
  <2>2. pc[b] \in CallingOut
    BY <2>1 DEF Nested
  <2> QED BY <1>1, <1>4, <2>2 DEF Goto
<1> QED BY <1>3, <1>4

\* Lemma: a call that begins in a frame that may be used keeps them nested too.
LEMMA NestedCall ==
    ASSUME TypeInv, Nested, NEW c \in Frames, Call(c)
    PROVE  Nested'
<1> SUFFICES ASSUME NEW b \in Frames, NEW d \in Frames, b[1] = d[1], d[2] > b[2], pc'[d] # "idle"
             PROVE  pc'[b] \in CallingOut
  BY DEF Nested, CallingOut
<1> DEFINE outer == <<c[1], c[2] - 1>>
<1>1. pc \in [Frames -> Points]
  BY DEF TypeInv, TypeOK
<1>2. /\ pc' = [pc EXCEPT ![c] = "lock"]
      /\ pc[c] = "idle" /\ Innermost(c)
      /\ c[2] > 1 => pc[outer] \in CallingOut
  BY DEF Call, MayCall, Goto
<1>3. d \in Threads \X Nat /\ b \in Threads \X Nat /\ c \in Threads \X Nat
  BY FrameTuples
<1>4. CASE d = c
  <2>1. c[2] > 1 /\ b # c /\ pc'[b] = pc[b]
    <3>1. b[2] >= 1 /\ b[2] \in Nat /\ c[2] \in Nat
      BY <1>3, FrameTuples
    <3>2. c[2] > 1 /\ b # c
      BY <1>4, <3>1
    <3> QED BY <1>1, <1>2, <3>2
  <2>2. outer \in Frames /\ outer[1] = c[1] /\ outer[2] = c[2] - 1
    BY <2>1, FrameTuples, OuterFrame
  <2>3. CASE b[2] = c[2] - 1
    <3>1. b = outer
      BY <1>3, <1>4, <2>3
    <3> QED BY <1>2, <2>1, <3>1
  <2>4. CASE b[2] < c[2] - 1
    <3>1. pc[outer] # "idle"
      BY <1>2, <2>1 DEF CallingOut
    <3>2. pc[b] \in CallingOut
      BY <1>4, <2>2, <2>4, <3>1 DEF Nested
    <3> QED BY <2>1, <3>2
  <2> QED BY <1>1, <1>3, <1>4, <2>3, <2>4
<1>5. CASE d # c
  <2>1. pc[d] # "idle"
    BY <1>1, <1>2, <1>5
  <2>2. pc[b] \in CallingOut
    BY <2>1 DEF Nested
  <2>3. b # c
    BY <1>2, <2>2 DEF CallingOut
  <2> QED BY <1>1, <1>2, <2>2, <2>3
<1> QED BY <1>4, <1>5

\* Lemma: every step of a call keeps the lock discipline: it takes the free lock,
\* frees the lock it holds, or leaves the lock alone outside the locked sections.
LEMMA LockStep ==
    ASSUME LockInv, NEW c \in Frames, Step(c)
    PROVE  Nested' /\ HolderInside'
<1>1. pc \in [Frames -> Points] /\ lock \in Frames \cup {None} /\ Nested /\ TypeInv
  BY DEF LockInv, TypeInv, TypeOK
<1>2. PICK point : Goto(c, point)
  BY DEF Step, Acquire, AcquireToFinish, AcquireAt, Reject, Schedule, Cancel, Pause, Resume,
         Replace, Publish, SelectDue, StartNext, BatchDone, EnterCallback, CallbackDone,
         Finish, Done, Heartbeat, HandlerRaises, Return, Goto
<1>3. Innermost(c) /\ pc[c] # "idle"
  BY DEF Step, Acquire, AcquireToFinish, AcquireAt, Reject, Schedule, Cancel, Pause, Resume,
         Replace, Publish, SelectDue, StartNext, BatchDone, EnterCallback, CallbackDone,
         Finish, Done, Heartbeat, HandlerRaises, Locked, At
<1>4. Nested'
  BY <1>1, <1>2, <1>3, NestedStep
<1>5. CASE Acquire(c) \/ AcquireToFinish(c)
  BY <1>1, <1>4, <1>5 DEF Acquire, AcquireToFinish, AcquireAt, Goto, HolderInside
<1>6. CASE lock' = None
  BY <1>4, <1>6 DEF HolderInside
<1>7. CASE lock' = lock /\ pc[c] \notin {"body", "finishing"}
  BY <1>1, <1>2, <1>4, <1>7 DEF LockInv, HolderInside, Goto
<1>8. \/ Acquire(c) \/ AcquireToFinish(c)
      \/ lock' = None
      \/ lock' = lock /\ pc[c] \notin {"body", "finishing"}
  BY DEF Step, Reject, Schedule, Cancel, Pause, Resume, Replace, Publish, SelectDue,
         StartNext, BatchDone, EnterCallback, CallbackDone, Finish, Done, Heartbeat,
         HandlerRaises, Release, At
<1> QED BY <1>4, <1>5, <1>6, <1>7, <1>8

LEMMA LockInvNext == LockInv /\ [Next]_vars => LockInv'
<1> SUFFICES ASSUME LockInv, [Next]_vars
             PROVE  LockInv'
  OBVIOUS
<1>1. TypeInv'
  BY TypeInvNext DEF LockInv
<1>2. CASE UNCHANGED <<pc, lock>>
  BY <1>1, <1>2 DEF LockInv, Nested, HolderInside
<1>3. ASSUME NEW c \in Frames, Call(c)
      PROVE  LockInv'
  <2>1. Nested'
    BY <1>3, NestedCall DEF LockInv
  <2>2. lock' = lock /\ pc' = [pc EXCEPT ![c] = "lock"] /\ pc[c] = "idle"
    BY <1>3 DEF Call, MayCall, Goto
  <2>3. HolderInside'
    BY <2>2 DEF LockInv, HolderInside, TypeInv, TypeOK
  <2> QED BY <1>1, <2>1, <2>3 DEF LockInv
<1>4. ASSUME NEW c \in Frames, Step(c)
      PROVE  LockInv'
  BY <1>1, <1>4, LockStep DEF LockInv
<1>5. UNCHANGED vars \/ Initialize \/ Start \/ Stop \/ Elapse => UNCHANGED <<pc, lock>>
  BY DEF vars, frameVars, Initialize, Start, Stop, SetState, Elapse
<1> QED BY <1>2, <1>3, <1>4, <1>5 DEF Next

\* No deadlock on the registry lock: whoever holds it is the innermost frame of its
\* thread, inside a locked section, and so can go on and release it.
THEOREM LockIsReleasable == Spec => []HolderCanRelease
<1>1. Init => LockInv
  BY TypeInvInit DEF Init, LockInv, Nested, HolderInside
<1>2. LockInv => HolderCanRelease
  <2> SUFFICES ASSUME LockInv, lock # None
               PROVE  \E point \in {"body", "finishing"} : At(lock, point)
    BY DEF HolderCanRelease
  <2>1. lock \in Frames /\ pc[lock] \in {"body", "finishing"}
    BY DEF LockInv, HolderInside, TypeInv, TypeOK
  <2>2. Innermost(lock)
    BY <2>1 DEF LockInv, Nested, Innermost, CallingOut
  <2> QED BY <2>1, <2>2 DEF At
<1> QED BY <1>1, <1>2, LockInvNext, PTL DEF Spec

-----------------------------------------------------------------------------
(* The registry *)

\* Serials name registrations: they are handed out once, and a cancelled one is
\* not registered.
SerialsOK ==
    /\ \A s \in cancelled : s < serial
    /\ \A id \in Ids : tasks[id] # None => tasks[id].serial < serial /\ tasks[id].serial \notin cancelled
    /\ \A i, j \in Ids : tasks[i] # None /\ tasks[j] # None /\ tasks[i].serial = tasks[j].serial => i = j

RegistryInv == TypeInv /\ SerialsOK /\ NextRunFromOwnTrigger

\* Lemma: the registry changes in the locked sections of these operations only.
LEMMA RegistryChanges ==
    ASSUME NEW c \in Frames, Step(c)
    PROVE  \/ UNCHANGED <<clock, tasks, serial, cancelled>>
           \/ Schedule(c) \/ Cancel(c) \/ Pause(c) \/ Resume(c) \/ Finish(c)
  BY DEF Step, Acquire, AcquireToFinish, AcquireAt, Reject, Publish, SelectDue, StartNext,
         BatchDone, EnterCallback, CallbackDone, Done, Heartbeat, HandlerRaises, history

\* Lemma: an update of a registered task that keeps its serial and trigger, and sets
\* next_run from that trigger or not at all, keeps the registry in order.
LEMMA UpdateKeepsRegistry ==
    ASSUME RegistryInv, TypeInv', NEW id \in Ids, NEW t \in Task, tasks[id] # None,
           tasks' = [tasks EXCEPT ![id] = t], UNCHANGED <<clock, serial, cancelled>>,
           t.serial = tasks[id].serial, t.trigger = tasks[id].trigger,
           \/ t.next_run = tasks[id].next_run
           \/ \E after \in 0 .. clock : t.next_run = NextFire(t.trigger, after)
    PROVE  RegistryInv'
<1>1. tasks \in [Ids -> Task \cup {None}]
  BY DEF RegistryInv, TypeInv, TypeOK
<1>2. SerialsOK'
  BY <1>1 DEF RegistryInv, SerialsOK
<1>3. NextRunFromOwnTrigger'
  <2> SUFFICES ASSUME NEW i \in Ids, tasks'[i] # None
               PROVE  \E after \in 0 .. clock : tasks'[i].next_run = NextFire(tasks'[i].trigger, after)
    BY DEF NextRunFromOwnTrigger, Registered, NextFire
  <2>1. CASE i # id
    BY <1>1, <2>1 DEF RegistryInv, NextRunFromOwnTrigger, Registered
  <2>2. CASE i = id
    <3>1. tasks'[i] = t
      BY <1>1, <2>2
    <3>2. \E after \in 0 .. clock : tasks[id].next_run = NextFire(tasks[id].trigger, after)
      BY DEF RegistryInv, NextRunFromOwnTrigger, Registered
    <3> QED BY <3>1, <3>2
  <2> QED BY <2>1, <2>2
<1> QED BY <1>2, <1>3 DEF RegistryInv

\* Lemma: every step of a call keeps the registry in order.
LEMMA RegistryStep ==
    ASSUME RegistryInv, TypeInv', NEW c \in Frames, Step(c)
    PROVE  RegistryInv'
<1>1. tasks \in [Ids -> Task \cup {None}] /\ serial \in Nat /\ TypeInv
  BY DEF RegistryInv, TypeInv, TypeOK
<1>2. CASE UNCHANGED <<clock, tasks, serial, cancelled>>
  BY <1>2 DEF RegistryInv, SerialsOK, NextRunFromOwnTrigger, Registered
<1>3. CASE Schedule(c)
  <2> DEFINE i == request[c].id
             t == [id |-> i, trigger |-> request[c].trigger,
                   priority |-> request[c].priority, enabled |-> TRUE,
                   next_run |-> NextFire(request[c].trigger, at[c]), last_run |-> None,
                   serial |-> serial]
  <2>1. pc[c] # "idle" /\ i \in Ids /\ tasks[i] = None
    <3>1. pc[c] # "idle"
      BY <1>3 DEF Schedule, Locked, At
    <3>2. i \in Ids
      BY <1>1, <1>3, <3>1, RegistryTypes DEF Schedule
    <3> QED BY <1>3, <3>1, <3>2 DEF Schedule, Registered
  <2>2. at[c] \in 0 .. clock
    BY <1>1, <2>1 DEF TypeInv, TypeOK, FrameOK
  <2>3. /\ tasks' = [tasks EXCEPT ![i] = t]
        /\ serial' = serial + 1 /\ cancelled' = cancelled /\ clock' = clock
    BY <1>3 DEF Schedule
  <2> HIDE DEF i
  <2>4. SerialsOK'
    <3>1. \A s \in cancelled' : s < serial'
      BY <1>1, <2>3 DEF RegistryInv, SerialsOK, TypeInv, TypeOK
    <3>2. \A j \in Ids : tasks'[j] # None =>
            tasks'[j].serial < serial' /\ tasks'[j].serial \notin cancelled'
      BY <1>1, <2>1, <2>3 DEF RegistryInv, SerialsOK, Task
    <3>3. \A j, k \in Ids : tasks'[j] # None /\ tasks'[k] # None
                               /\ tasks'[j].serial = tasks'[k].serial => j = k
      BY <1>1, <2>1, <2>3 DEF RegistryInv, SerialsOK, Task
    <3> QED BY <3>1, <3>2, <3>3 DEF SerialsOK
  <2>5. NextRunFromOwnTrigger'
    <3> SUFFICES ASSUME NEW j \in Ids, tasks'[j] # None
                 PROVE  \E after \in 0 .. clock : tasks'[j].next_run = NextFire(tasks'[j].trigger, after)
      BY <2>3 DEF NextRunFromOwnTrigger, Registered, NextFire
    <3>1. CASE j # i
      BY <1>1, <2>3, <3>1 DEF RegistryInv, NextRunFromOwnTrigger, Registered
    <3>2. CASE j = i
      BY <1>1, <2>1, <2>2, <2>3, <3>2
    <3> QED BY <3>1, <3>2
  <2> QED BY <2>4, <2>5 DEF RegistryInv
<1>4. CASE Cancel(c)
  <2> DEFINE i == request[c].id
  <2>1. /\ tasks' = [tasks EXCEPT ![i] = None] /\ i \in Ids /\ tasks[i] # None
        /\ cancelled' = cancelled \cup {tasks[i].serial}
        /\ serial' = serial /\ clock' = clock
    BY <1>4 DEF Cancel, Registered
  <2> HIDE DEF i
  <2>2. \A j \in Ids : tasks'[j] # None => tasks'[j] = tasks[j] /\ j # i
    BY <1>1, <2>1
  <2>3. SerialsOK'
    <3>1. \A s \in cancelled' : s < serial'
      BY <2>1 DEF RegistryInv, SerialsOK
    <3>2. \A j \in Ids : tasks'[j] # None =>
            tasks'[j].serial < serial' /\ tasks'[j].serial \notin cancelled'
      BY <2>1, <2>2 DEF RegistryInv, SerialsOK
    <3>3. \A j, k \in Ids : tasks'[j] # None /\ tasks'[k] # None
                               /\ tasks'[j].serial = tasks'[k].serial => j = k
      BY <2>2 DEF RegistryInv, SerialsOK
    <3> QED BY <3>1, <3>2, <3>3 DEF SerialsOK
  <2>4. NextRunFromOwnTrigger'
    BY <2>1, <2>2 DEF RegistryInv, NextRunFromOwnTrigger, Registered
  <2> QED BY <2>3, <2>4 DEF RegistryInv
<1>5. CASE Pause(c) \/ Resume(c)
  <2> DEFINE i == request[c].id
  <2>1. /\ i \in Ids /\ tasks[i] # None /\ pc[c] # "idle"
        /\ UNCHANGED <<clock, serial, cancelled>>
    BY <1>5 DEF Pause, Resume, Replace, Registered, Locked, At, history
  <2>2. tasks[i] \in Task /\ at[c] \in 0 .. clock
    BY <1>1, <2>1 DEF TypeInv, TypeOK, FrameOK
  <2>3. PICK t \in {Paused(tasks[i]), Resumed(tasks[i], at[c])} :
          tasks' = [tasks EXCEPT ![i] = t]
    BY <1>5 DEF Pause, Resume, Replace
  <2>4. t \in Task
    BY <1>1, <2>1, <2>2, <2>3, RegistryTypes
  <2>5. /\ t.serial = tasks[i].serial /\ t.trigger = tasks[i].trigger
        /\ t.next_run = tasks[i].next_run \/ t.next_run = NextFire(t.trigger, at[c])
    BY <2>2, <2>3 DEF Paused, Resumed, Task
  <2> HIDE DEF i
  <2> QED BY <2>1, <2>2, <2>3, <2>4, <2>5, UpdateKeepsRegistry
<1>6. CASE Finish(c)
  <2> DEFINE i == current[c].id
             t == Finished(i, current[c], at[c])
  <2>1. /\ tasks' = [tasks EXCEPT ![i] = t]
        /\ UNCHANGED <<clock, serial, cancelled>>
        /\ pc[c] = "finishing" /\ pc[c] # "idle"
    BY <1>6 DEF Finish, At, history
  <2>2. current[c] \in Task /\ i \in Ids /\ at[c] \in 0 .. clock
    BY <1>1, <2>1 DEF TypeInv, TypeOK, FrameOK, Task
  <2>3. CASE tasks[i] = None
    <3>1. t = None
      BY <2>3 DEF Finished
    <3>2. tasks' = tasks
      BY <1>1, <2>1, <2>2, <2>3, <3>1
    <3> QED BY <1>2, <2>1, <3>2
  <2>4. CASE tasks[i] # None
    <3>1. t = [tasks[i] EXCEPT !.last_run = at[c], !.next_run = NextFire(tasks[i].trigger, at[c])]
      BY <2>4 DEF Finished
    <3>2. tasks[i] \in Task
      BY <1>1, <2>2, <2>4
    <3>3. t.serial = tasks[i].serial /\ t.trigger = tasks[i].trigger
            /\ t.next_run = NextFire(t.trigger, at[c])
      BY <3>1, <3>2 DEF Task
    <3>4. t \in Task
      <4>1. t \in Task \cup {None}
        BY <1>1, <2>1, <2>2, RegistryTypes
      <4>2. tasks' \in [Ids -> Task \cup {None}]
        BY DEF TypeInv, TypeOK
      <4>3. NextFire(tasks[i].trigger, at[c]) \in Instant /\ at[c] \in Nat
        BY <2>2, <3>2, NextFireType DEF Task
      <4> QED BY <3>1, <3>2, <4>3 DEF Task, Instant
    <3> HIDE DEF i, t
    <3> QED BY <2>1, <2>2, <2>4, <3>3, <3>4, UpdateKeepsRegistry
  <2> QED BY <2>3, <2>4
<1> QED BY <1>2, <1>3, <1>4, <1>5, <1>6, RegistryChanges

LEMMA RegistryInvNext == RegistryInv /\ [Next]_vars => RegistryInv'
<1> SUFFICES ASSUME RegistryInv, [Next]_vars
             PROVE  RegistryInv'
  OBVIOUS
<1>1. TypeInv'
  BY TypeInvNext DEF RegistryInv
<1>2. ASSUME NEW c \in Frames, Step(c)
      PROVE  RegistryInv'
  BY <1>1, <1>2, RegistryStep
<1>3. CASE /\ UNCHANGED <<tasks, serial, cancelled>>
           /\ clock' \in Nat /\ clock' >= clock
  <2>1. SerialsOK'
    BY <1>3 DEF RegistryInv, SerialsOK
  <2>2. \A after \in 0 .. clock : after \in 0 .. clock'
    BY <1>3 DEF RegistryInv, TypeInv, TypeOK
  <2>3. NextRunFromOwnTrigger'
    BY <1>3, <2>2 DEF RegistryInv, NextRunFromOwnTrigger, Registered
  <2> QED BY <1>1, <2>1, <2>3 DEF RegistryInv
<1>4. UNCHANGED vars \/ Initialize \/ Start \/ Stop \/ Elapse \/ (\E c \in Frames : Call(c)) =>
        /\ UNCHANGED <<tasks, serial, cancelled>>
        /\ clock' \in Nat /\ clock' >= clock
  BY DEF vars, frameVars, history, Initialize, Start, Stop, SetState, Elapse, Call,
         RegistryInv, TypeInv, TypeOK
<1> QED BY <1>2, <1>3, <1>4 DEF Next

LEMMA RegistryInvInit == Init => RegistryInv
  BY TypeInvInit DEF Init, RegistryInv, SerialsOK, NextRunFromOwnTrigger, Registered

\* A cancelled registration never comes back, however ticks and cancels interleave.
THEOREM CancelIsFinal == Spec => []NoResurrection
<1>1. RegistryInv => NoResurrection
  BY DEF RegistryInv, SerialsOK, NoResurrection, Registered
<1> QED BY <1>1, RegistryInvInit, RegistryInvNext, PTL DEF Spec

\* next_run always comes from the registered task's own trigger.
THEOREM NextRunIsOwn == Spec => []NextRunFromOwnTrigger
<1>1. RegistryInv => NextRunFromOwnTrigger
  BY DEF RegistryInv
<1> QED BY <1>1, RegistryInvInit, RegistryInvNext, PTL DEF Spec

\* Lemma: of the steps of a call, only the locked section of resume() enables a task.
LEMMA EnableStep ==
    ASSUME TypeInv, NEW c \in Frames, Step(c)
    PROVE  EnabledByResume
<1> SUFFICES ASSUME NEW id \in Ids, tasks[id] # None, tasks'[id] # None,
                    ~ tasks[id].enabled, tasks'[id].enabled
             PROVE  Locked(c) /\ request[c].op = "resume" /\ request[c].id = id
  BY DEF EnabledByResume
<1>1. tasks \in [Ids -> Task \cup {None}] /\ tasks[id] \in Task
  BY DEF TypeInv, TypeOK
<1>2. CASE UNCHANGED <<clock, tasks, serial, cancelled>>
  BY <1>2
<1>3. CASE Schedule(c) \/ Cancel(c)
  BY <1>1, <1>3 DEF Schedule, Cancel, Registered
<1>4. CASE Pause(c)
  BY <1>1, <1>4 DEF Pause, Replace, Paused, Task
<1>5. CASE Resume(c)
  BY <1>1, <1>5 DEF Resume, Replace
<1>6. CASE Finish(c)
  <2>1. Finished(id, current[c], at[c]).enabled = tasks[id].enabled
    BY <1>1 DEF Finished, Task
  <2>2. tasks'[id] = tasks[id] \/ tasks'[id] = Finished(id, current[c], at[c])
    BY <1>1, <1>6 DEF Finish
  <2> QED BY <2>1, <2>2
<1> QED BY <1>2, <1>3, <1>4, <1>5, <1>6, RegistryChanges

\* A paused task stays paused until it is resumed, whatever ticks are running it.
THEOREM PauseLasts == Spec => OnlyResumeEnables
<1>1. TypeInv /\ [Next]_vars => [EnabledByResume]_vars
  <2> SUFFICES ASSUME TypeInv, Next
               PROVE  EnabledByResume \/ UNCHANGED vars
    OBVIOUS
  <2>1. ASSUME NEW c \in Frames, Step(c)
        PROVE  EnabledByResume
    BY <2>1, EnableStep
  <2>2. CASE UNCHANGED tasks
    BY <2>2 DEF EnabledByResume
  <2>3. Initialize \/ Start \/ Stop \/ Elapse \/ (\E c \in Frames : Call(c)) => UNCHANGED tasks
    BY DEF Initialize, Start, Stop, SetState, Elapse, Call
  <2> QED BY <2>1, <2>2, <2>3 DEF Next
<1> QED BY <1>1, TypeInvInit, TypeInvNext, PTL DEF Spec, OnlyResumeEnables
-----------------------------------------------------------------------------
(* Ticks: the order of a batch *)

\* Where a tick is busy with a task.
Running == {"started", "callback", "finish", "finishing", "done"}

\* Only a tick has a batch or a current task, and only in its loop.
TickOK ==
    \A c \in Frames :
        /\ current[c] # None => pc[c] \in Running
        /\ batch[c] # {} => pc[c] \in Running \cup {"loop"}
        /\ pc[c] \in Running \cup {"loop", "heartbeat"} => request[c].op = "tick"

\* What is left of a batch does not go before the task that runs.
OrderOK ==
    \A c \in Frames : pc[c] \in Running => \A t \in batch[c] : current[c].priority <= t.priority

TickInv == TypeInv /\ TickOK /\ OrderOK

\* Lemma: frames that move within the loop, or return, keep the ticks in order.
LEMMA FrameKeepsTicks ==
    ASSUME TickInv, TypeInv',
           \A c \in Frames :
              \/ /\ batch'[c] = batch[c] /\ current'[c] = current[c] /\ request'[c] = request[c]
                 /\ \/ pc'[c] = pc[c]
                    \/ pc[c] \in Running /\ pc'[c] \in Running
                    \/ pc[c] \in {"lock", "body", "idle"} /\ pc'[c] \in {"lock", "body", "publish"}
              \/ pc'[c] = "idle" /\ batch'[c] = {} /\ current'[c] = None
    PROVE  TickInv'
<1>1. TickOK'
  BY DEF TickInv, TickOK, Running
<1>2. OrderOK'
  BY DEF TickInv, TickOK, OrderOK, Running
<1> QED BY <1>1, <1>2 DEF TickInv

\* Lemma: so does every step of a call.
LEMMA TickStep ==
    ASSUME TickInv, TypeInv', NEW c \in Frames, Step(c)
    PROVE  TickInv'
<1>1. /\ pc \in [Frames -> Points] /\ request \in [Frames -> Requests \cup {None}]
      /\ batch \in [Frames -> SUBSET Task] /\ current \in [Frames -> Task \cup {None}]
      /\ at \in [Frames -> Instant]
  BY DEF TickInv, TypeInv, TypeOK
<1>2. CASE Reject(c) \/ Publish(c) \/ Heartbeat(c) \/ HandlerRaises(c)
  BY <1>1, <1>2, FrameKeepsTicks DEF Reject, Publish, Heartbeat, HandlerRaises, Return
<1>3. CASE Acquire(c) \/ AcquireToFinish(c) \/ EnterCallback(c) \/ CallbackDone(c) \/ Finish(c)
  BY <1>1, <1>3, FrameKeepsTicks
     DEF Acquire, AcquireToFinish, AcquireAt, EnterCallback, CallbackDone, Finish, At, Goto, Running
<1>4. CASE Schedule(c) \/ Cancel(c) \/ Pause(c) \/ Resume(c)
  BY <1>1, <1>4, FrameKeepsTicks
     DEF Schedule, Cancel, Pause, Resume, Replace, Locked, At, Goto
<1>5. CASE SelectDue(c)
  <2>1. pc[c] = "body" /\ request[c].op = "tick" /\ request' = request /\ current' = current
        /\ pc' = [pc EXCEPT ![c] = "loop"]
        /\ \A d \in Frames \ {c} : batch'[d] = batch[d]
    BY <1>1, <1>5 DEF SelectDue, Locked, At, Goto
  <2>2. TickOK'
    BY <1>1, <2>1 DEF TickInv, TickOK, Running
  <2>3. OrderOK'
    BY <1>1, <2>1 DEF TickInv, OrderOK, Running
  <2> QED BY <2>2, <2>3 DEF TickInv
<1>6. CASE StartNext(c)
  <2>1. pc[c] = "loop" /\ request' = request /\ pc' = [pc EXCEPT ![c] = "started"]
    BY <1>1, <1>6 DEF StartNext, At, Goto
  <2>2. PICK t \in batch[c] : /\ \A u \in batch[c] : ~ Precedes(u, t)
                              /\ batch' = [batch EXCEPT ![c] = @ \ {t}]
                              /\ current' = [current EXCEPT ![c] = t]
    BY <1>6 DEF StartNext
  <2>3. TickOK'
    BY <1>1, <2>1, <2>2 DEF TickInv, TickOK, Running
  <2>4. \A u \in batch[c] : t.priority <= u.priority
    <3> TAKE u \in batch[c]
    <3>1. t \in Task /\ u \in Task
      BY <1>1
    <3>2. t.priority \in Nat /\ u.priority \in Nat
      BY <3>1, PrioritiesAssumption DEF Task
    <3> QED BY <2>2, <3>2 DEF Precedes
  <2>5. OrderOK'
    BY <1>1, <2>1, <2>2, <2>4 DEF TickInv, OrderOK, Running
  <2> QED BY <2>3, <2>5 DEF TickInv
<1>7. CASE BatchDone(c)
  <2>1. pc[c] = "loop" /\ UNCHANGED <<request, batch, current>>
        /\ pc' = [pc EXCEPT ![c] = "heartbeat"] /\ batch[c] = {}
    BY <1>1, <1>7 DEF BatchDone, At, Goto
  <2>2. TickOK'
    BY <1>1, <2>1 DEF TickInv, TickOK, Running
  <2>3. OrderOK'
    BY <1>1, <2>1 DEF TickInv, OrderOK, Running
  <2> QED BY <2>2, <2>3 DEF TickInv
<1>8. CASE Done(c)
  <2>1. pc[c] = "done" /\ UNCHANGED <<request, batch>>
        /\ pc' = [pc EXCEPT ![c] = "loop"] /\ current' = [current EXCEPT ![c] = None]
    BY <1>1, <1>8 DEF Done, At, Goto
  <2>2. TickOK'
    BY <1>1, <2>1 DEF TickInv, TickOK, Running
  <2>3. OrderOK'
    BY <1>1, <2>1 DEF TickInv, OrderOK, Running
  <2> QED BY <2>2, <2>3 DEF TickInv
<1> QED BY <1>2, <1>3, <1>4, <1>5, <1>6, <1>7, <1>8 DEF Step

LEMMA TickInvNext == TickInv /\ [Next]_vars => TickInv'
<1> SUFFICES ASSUME TickInv, [Next]_vars
             PROVE  TickInv'
  OBVIOUS
<1>1. TypeInv'
  BY TypeInvNext DEF TickInv
<1>2. ASSUME NEW c \in Frames, Step(c)
      PROVE  TickInv'
  BY <1>1, <1>2, TickStep
<1>3. ASSUME NEW c \in Frames, Call(c)
      PROVE  TickInv'
  <2>1. /\ pc[c] = "idle" /\ pc' = [pc EXCEPT ![c] = "lock"] /\ UNCHANGED <<batch, current>>
        /\ \A d \in Frames \ {c} : request'[d] = request[d]
    BY <1>3 DEF Call, MayCall, Goto, TickInv, TypeInv, TypeOK
  <2>2. TickOK'
    BY <2>1 DEF TickInv, TickOK, TypeInv, TypeOK, Running
  <2>3. OrderOK'
    BY <2>1 DEF TickInv, OrderOK, TypeInv, TypeOK, Running
  <2> QED BY <1>1, <2>2, <2>3 DEF TickInv
<1>4. CASE UNCHANGED frameVars
  BY <1>1, <1>4, FrameKeepsTicks DEF frameVars
<1>5. UNCHANGED vars \/ Initialize \/ Start \/ Stop \/ Elapse => UNCHANGED frameVars
  BY DEF vars, Initialize, Start, Stop, SetState, Elapse
<1> QED BY <1>2, <1>3, <1>4, <1>5 DEF Next

LEMMA TickInvHolds == Spec => []TickInv
<1>1. Init => TickInv
  BY TypeInvInit DEF Init, TickInv, TickOK, OrderOK, Running
<1> QED BY <1>1, TickInvNext, PTL DEF Spec

\* Theorem: in every tick the tasks of the highest priority run first, whatever is
\* scheduled, paused or cancelled while it runs (_due_tasks sorts a copy).
THEOREM PriorityOrder == Spec => []HigherPriorityFirst
<1>1. TickInv => HigherPriorityFirst
  BY DEF TickInv, TickOK, OrderOK, HigherPriorityFirst
<1> QED BY <1>1, TickInvHolds, PTL

-----------------------------------------------------------------------------
(* One-shot tasks *)

\* Ticks do not overlap, neither from two threads nor by a callback that ticks, and a
\* resume() does not use a clock that it read before a tick that is in progress.
TicksApart ==
    \A c, d \in Frames :
        c # d /\ pc[c] # "idle" /\ pc[d] # "idle" /\ request[c].op = "tick" =>
            /\ request[d].op # "tick"
            /\ request[d].op = "resume" => at[c] <= at[d]

IsOneShot(t) == t.trigger.kind = "oneshot"

\* The copies of tasks that exist: in the registry, in a batch, and being run.
IsKnown(t) ==
    \/ \E id \in Registered : t = tasks[id]
    \/ \E c \in Frames : t \in batch[c]
    \/ \E c \in Frames : pc[c] \in Running /\ t = current[c]

SameTask(t, u) == t.serial = u.serial /\ t.trigger = u.trigger /\ t.id = u.id

\* Copies with one serial are copies of one registration.
KnownOK ==
    /\ \A t \in Task : IsKnown(t) => t.serial < serial
    /\ \A t, u \in Task : IsKnown(t) /\ IsKnown(u) /\ t.serial = u.serial => SameTask(t, u)
    /\ \A s \in fired \cup refired : s < serial
    /\ \A id \in Registered : tasks[id].id = id

KnownInv == TickInv /\ RegistryInv /\ KnownOK

\* Lemma: every copy after a step is one of before, but for a task that is scheduled.
LEMMA KnownStep ==
    ASSUME KnownInv, TickInv', NEW c \in Frames, Step(c), NEW t \in Task, IsKnown(t)'
    PROVE  \/ \E u \in Task : IsKnown(u) /\ SameTask(t, u)
           \/ Schedule(c) /\ t = tasks'[request[c].id] /\ t.serial = serial
<1>1. /\ tasks \in [Ids -> Task \cup {None}] /\ batch \in [Frames -> SUBSET Task]
      /\ current \in [Frames -> Task \cup {None}] /\ pc \in [Frames -> Points]
  BY DEF KnownInv, TickInv, TypeInv, TypeOK
<1>2. \A d \in Frames : pc[d] \in Running => current[d] \in Task
  BY DEF KnownInv, TickInv, TypeInv, FrameOK, Running
<1>3. ASSUME NEW d \in Frames, t \in batch'[d]
      PROVE  IsKnown(t)
  <2>1. CASE SelectDue(c)
    BY <1>1, <1>3, <2>1 DEF SelectDue, IsKnown
  <2>2. CASE StartNext(c)
    BY <1>1, <1>3, <2>2 DEF StartNext, IsKnown
  <2>3. CASE ~ SelectDue(c) /\ ~ StartNext(c)
    <3>1. batch'[d] = batch[d] \/ batch'[d] = {}
      BY <1>1, <2>3 DEF Step, Acquire, AcquireToFinish, AcquireAt, Reject, Schedule, Cancel, Pause,
         Resume, Replace, Publish, BatchDone, EnterCallback, CallbackDone, Finish, Done, Heartbeat,
         HandlerRaises, Return
    <3> QED BY <1>3, <3>1 DEF IsKnown
  <2> QED BY <2>1, <2>2, <2>3
<1>4. ASSUME NEW d \in Frames, pc'[d] \in Running, t = current'[d]
      PROVE  IsKnown(t)
  <2>1. CASE StartNext(c)
    BY <1>1, <1>4, <2>1 DEF StartNext, IsKnown, Goto
  <2>2. CASE ~ StartNext(c)
    <3>1. pc[d] \in Running /\ current'[d] = current[d]
      BY <1>1, <1>4, <2>2 DEF Step, Acquire, AcquireToFinish, AcquireAt, Reject, Schedule, Cancel,
         Pause, Resume, Replace, Publish, SelectDue, BatchDone, EnterCallback, CallbackDone, Finish,
         Done, Heartbeat, HandlerRaises, Return, Goto, At, Locked, Running
    <3> QED BY <1>4, <3>1 DEF IsKnown
  <2> QED BY <2>1, <2>2
<1>5. ASSUME NEW id \in Registered', t = tasks'[id]
      PROVE  \/ \E u \in Task : IsKnown(u) /\ SameTask(t, u)
             \/ Schedule(c) /\ t = tasks'[request[c].id] /\ t.serial = serial
  <2>1. id \in Ids /\ tasks'[id] # None
    BY <1>5 DEF Registered
  <2>2. CASE tasks'[id] = tasks[id]
    BY <1>5, <2>1, <2>2 DEF IsKnown, SameTask, Registered
  <2>3. CASE Schedule(c) /\ tasks'[id] # tasks[id]
    <3>1. id = request[c].id
      BY <1>1, <2>1, <2>3 DEF Schedule
    <3>2. tasks'[id].serial = serial
      BY <1>1, <2>1, <2>3, <3>1 DEF Schedule
    <3> QED BY <1>5, <2>3, <3>1, <3>2
  <2>4. CASE (Pause(c) \/ Resume(c)) /\ tasks'[id] # tasks[id]
    <3>1. tasks'[id] \in {Paused(tasks[id]), Resumed(tasks[id], at[c])} /\ tasks[id] # None
      BY <1>1, <2>1, <2>4 DEF Pause, Resume, Replace, Registered
    <3>2. tasks[id] \in Task /\ IsKnown(tasks[id])
      BY <1>1, <2>1, <3>1 DEF IsKnown, Registered
    <3>3. SameTask(t, tasks[id])
      BY <1>5, <3>1, <3>2 DEF SameTask, Paused, Resumed, Task
    <3> QED BY <3>2, <3>3
  <2>5. CASE Finish(c) /\ tasks'[id] # tasks[id]
    <3>1. tasks'[id] = Finished(id, current[c], at[c])
      BY <1>1, <2>1, <2>5 DEF Finish
    <3>2. tasks[id] \in Task /\ IsKnown(tasks[id])
      BY <1>1, <2>1, <3>1 DEF IsKnown, Registered, Finished
    <3>3. SameTask(t, tasks[id])
      BY <1>5, <2>1, <3>1, <3>2 DEF SameTask, Finished, Task
    <3> QED BY <3>2, <3>3
  <2>6. CASE Cancel(c)
    <3>1. tasks'[id] = tasks[id] \/ tasks'[id] = None
      BY <1>1, <2>1, <2>6 DEF Cancel
    <3> QED BY <2>1, <2>2, <3>1
  <2> QED BY <2>2, <2>3, <2>4, <2>5, <2>6, RegistryChanges
<1>6. IsKnown(t) => \E u \in Task : IsKnown(u) /\ SameTask(t, u)
  BY DEF SameTask
<1> QED BY <1>3, <1>4, <1>5, <1>6 DEF IsKnown

\* Lemma: what is kept about the callbacks changes when one is entered only.
LEMMA FiringChanges ==
    ASSUME NEW c \in Frames, Step(c)
    PROVE  /\ ~ EnterCallback(c) => UNCHANGED <<fired, refired>>
           /\ ~ Schedule(c) => serial' = serial
  BY DEF Step, Acquire, AcquireToFinish, AcquireAt, Reject, Schedule, Cancel, Pause, Resume,
         Replace, Publish, SelectDue, StartNext, BatchDone, EnterCallback, CallbackDone, Finish,
         Done, Heartbeat, HandlerRaises, history

LEMMA KnownInvStep ==
    ASSUME KnownInv, TickInv', RegistryInv', NEW c \in Frames, Step(c)
    PROVE  KnownInv'
<1>1. serial \in Nat /\ serial' \in {serial, serial + 1} /\ (Schedule(c) => serial' = serial + 1)
  BY FiringChanges DEF Schedule, KnownInv, TickInv, TypeInv, TypeOK
<1>2. \A t \in Task : t.serial \in Nat
  BY DEF Task
<1>3. \A t \in Task : IsKnown(t)' => t.serial < serial'
  BY <1>1, <1>2, KnownStep DEF KnownInv, KnownOK, SameTask
<1>4. ASSUME NEW t \in Task, NEW u \in Task, IsKnown(t)', IsKnown(u)', t.serial = u.serial
      PROVE  SameTask(t, u)
  <2>1. CASE \E v \in Task : IsKnown(v) /\ SameTask(t, v)
    <3>1. t.serial # serial
      BY <1>1, <1>2, <2>1 DEF KnownInv, KnownOK, SameTask
    <3>2. \E w \in Task : IsKnown(w) /\ SameTask(u, w)
      BY <1>4, <3>1, KnownStep
    <3> QED BY <1>4, <2>1, <3>2 DEF KnownInv, KnownOK, SameTask
  <2>2. CASE t = tasks'[request[c].id] /\ t.serial = serial
    <3>1. ~ \E w \in Task : IsKnown(w) /\ SameTask(u, w)
      BY <1>1, <1>2, <1>4, <2>2 DEF KnownInv, KnownOK, SameTask
    <3>2. u = t
      BY <1>4, <2>2, <3>1, KnownStep
    <3> QED BY <3>2 DEF SameTask
  <2> QED BY <1>4, <2>1, <2>2, KnownStep
<1>5. \A s \in fired' \cup refired' : s < serial'
  <2>1. CASE ~ EnterCallback(c)
    <3>1. \A s \in fired \cup refired : s \in Nat /\ s < serial
      BY DEF KnownInv, KnownOK, TickInv, TypeInv, TypeOK
    <3> QED BY <1>1, <2>1, <3>1, FiringChanges
  <2>2. CASE EnterCallback(c)
    <3>1. pc[c] \in Running /\ current[c] \in Task
      BY <2>2 DEF EnterCallback, At, Running, KnownInv, TickInv, TypeInv, FrameOK
    <3>2. current[c].serial < serial
      BY <3>1 DEF IsKnown, KnownInv, KnownOK
    <3>3. fired' = fired \cup {current[c].serial} /\ serial' = serial
          /\ refired' = refired \cup ({current[c].serial} \cap fired)
      BY <2>2 DEF EnterCallback
    <3> QED BY <3>2, <3>3 DEF KnownInv, KnownOK
  <2> QED BY <2>1, <2>2
<1>6. ASSUME NEW id \in Registered'
      PROVE  tasks'[id].id = id
  <2>1. id \in Ids /\ tasks'[id] # None /\ tasks \in [Ids -> Task \cup {None}]
    BY <1>6 DEF Registered, KnownInv, TickInv, TypeInv, TypeOK
  <2>2. tasks[id] # None => tasks[id] \in Task /\ tasks[id].id = id
    BY <2>1 DEF Registered, KnownInv, KnownOK
  <2>3. CASE Schedule(c)
    BY <2>1, <2>2, <2>3 DEF Schedule
  <2>4. CASE Pause(c) \/ Resume(c)
    <3>1. \A t \in Task : Paused(t).id = t.id /\ \A now : Resumed(t, now).id = t.id
      BY DEF Paused, Resumed, Task
    <3>2. PICK t : /\ tasks' = [tasks EXCEPT ![request[c].id] = t]
                   /\ request[c].id \in Registered
                   /\ \/ t = Paused(tasks[request[c].id])
                      \/ t = Resumed(tasks[request[c].id], at[c])
      BY <2>4 DEF Pause, Resume, Replace
    <3>3. CASE id = request[c].id
      BY <2>1, <2>2, <3>1, <3>2, <3>3 DEF Registered
    <3>4. CASE id # request[c].id
      BY <2>1, <2>2, <3>2, <3>4
    <3> QED BY <3>3, <3>4
  <2>5. CASE Finish(c)
    BY <2>1, <2>2, <2>5 DEF Finish, Finished, Task
  <2>6. CASE Cancel(c) \/ UNCHANGED tasks
    BY <2>1, <2>2, <2>6 DEF Cancel
  <2> QED BY <2>3, <2>4, <2>5, <2>6, RegistryChanges
<1> QED BY <1>3, <1>4, <1>5, <1>6 DEF KnownInv, KnownOK, SameTask

LEMMA KnownInvNext == KnownInv /\ [Next]_vars => KnownInv'
<1> SUFFICES ASSUME KnownInv, [Next]_vars
             PROVE  KnownInv'
  OBVIOUS
<1>1. TickInv' /\ RegistryInv'
  BY TickInvNext, RegistryInvNext DEF KnownInv
<1>2. ASSUME NEW c \in Frames, Step(c)
      PROVE  KnownInv'
  BY <1>1, <1>2, KnownInvStep
<1>3. ASSUME NEW c \in Frames, Call(c)
      PROVE  KnownInv'
  <2>1. /\ UNCHANGED <<tasks, batch, current, serial, fired, refired>>
        /\ \A d \in Frames : pc'[d] = pc[d] \/ pc'[d] \notin Running
    BY <1>3 DEF Call, Goto, history, Running, KnownInv, TickInv, TypeInv, TypeOK
  <2>2. \A t \in Task : IsKnown(t)' => IsKnown(t)
    BY <2>1 DEF IsKnown, Registered
  <2>3. \A id \in Registered' : tasks'[id].id = id
    BY <2>1 DEF KnownInv, KnownOK, Registered
  <2> QED BY <1>1, <2>1, <2>2, <2>3 DEF KnownInv, KnownOK, SameTask
<1>4. CASE UNCHANGED <<tasks, frameVars, serial, fired, refired>>
  BY <1>1, <1>4 DEF frameVars, KnownInv, KnownOK, IsKnown, Registered, SameTask
<1>5. UNCHANGED vars \/ Initialize \/ Start \/ Stop \/ Elapse
         => UNCHANGED <<tasks, frameVars, serial, fired, refired>>
  BY DEF vars, history, Initialize, Start, Stop, SetState, Elapse
<1> QED BY <1>2, <1>3, <1>4, <1>5 DEF Next

LEMMA KnownInvHolds == Spec => []KnownInv
<1>1. Init => TickInv
  BY TypeInvInit DEF Init, TickInv, TickOK, OrderOK, Running
<1>2. Init => KnownInv
  BY <1>1, RegistryInvInit DEF Init, KnownInv, KnownOK, IsKnown, Registered, Running
<1> QED BY <1>2, KnownInvNext, PTL DEF Spec

\* What waits in a batch has not fired, is due, and is there once.
BatchOK ==
    \A c \in Frames : \A t \in batch[c] :
        /\ IsOneShot(t) => t.serial \notin fired /\ t.trigger.at <= at[c]
        /\ \A u \in batch[c] : t.serial = u.serial => t = u
        /\ pc[c] \in Running => t.serial # current[c].serial

CurrentOK ==
    \A c \in Frames : pc[c] \in Running /\ IsOneShot(current[c]) =>
        /\ current[c].trigger.at <= at[c]
        /\ pc[c] = "started" => current[c].serial \notin fired

Firing == {"callback", "finish", "finishing"}

\* The registered task t has fired, and no tick will fire it again: next_run is None
\* or about to be, and who computes it anew starts from a later instant.
Spent(t) ==
    /\ t.trigger.at <= clock
    /\ \A c \in Frames : pc[c] # "idle" /\ request[c].op \in {"tick", "resume"} =>
          t.trigger.at <= at[c]
    /\ t.next_run = None \/ \E c \in Frames : pc[c] \in Firing /\ current[c].serial = t.serial

SpentOK ==
    \A id \in Registered : IsOneShot(tasks[id]) /\ tasks[id].serial \in fired => Spent(tasks[id])

OnceOK == \A t \in Task : IsKnown(t) /\ IsOneShot(t) => t.serial \notin refired

OnceInv == BatchOK /\ CurrentOK /\ SpentOK /\ OnceOK

\* Lemma: a step of a call moves its own frame only, which keeps its request and its
\* reference time until it returns.
LEMMA FrameMoves ==
    ASSUME KnownInv, NEW c \in Frames, Step(c)
    PROVE  /\ pc[c] # "idle"
           /\ \A d \in Frames \ {c} : /\ pc'[d] = pc[d] /\ request'[d] = request[d] /\ at'[d] = at[d]
                                      /\ batch'[d] = batch[d] /\ current'[d] = current[d]
           /\ \/ request'[c] = request[c] /\ at'[c] = at[c]
              \/ pc'[c] = "idle" /\ batch'[c] = {} /\ pc[c] \notin Firing
           /\ clock' = clock
<1>1. /\ pc \in [Frames -> Points] /\ request \in [Frames -> Requests \cup {None}]
      /\ batch \in [Frames -> SUBSET Task] /\ current \in [Frames -> Task \cup {None}]
      /\ at \in [Frames -> Instant]
  BY DEF KnownInv, TickInv, TypeInv, TypeOK
<1>2. CASE Reject(c) \/ Publish(c) \/ Heartbeat(c) \/ HandlerRaises(c)
  BY <1>1, <1>2 DEF Reject, Publish, Heartbeat, HandlerRaises, Return, Locked, At, Firing
<1>3. CASE ~ (Reject(c) \/ Publish(c) \/ Heartbeat(c) \/ HandlerRaises(c))
  BY <1>1, <1>3 DEF Step, Acquire, AcquireToFinish, AcquireAt, Schedule, Cancel, Pause, Resume,
     Replace, SelectDue, StartNext, BatchDone, EnterCallback, CallbackDone, Finish, Done,
     Goto, At, Locked
<1> QED BY <1>2, <1>3

\* Lemma: what is being run by a tick is a task, and the call is a tick.
LEMMA RunningTicks ==
    ASSUME KnownInv, NEW c \in Frames
    PROVE  /\ pc[c] \in Running => current[c] \in Task /\ IsKnown(current[c])
           /\ pc[c] \in Running \/ batch[c] # {} => pc[c] # "idle" /\ request[c].op = "tick"
           /\ batch[c] \subseteq Task /\ \A t \in batch[c] : IsKnown(t)
           /\ pc[c] # "idle" => at[c] \in Nat /\ at[c] <= clock
<1>1. current[c] \in Task \/ pc[c] \notin Running
  BY DEF KnownInv, TickInv, TypeInv, FrameOK, Running
<1>2. batch[c] \subseteq Task
  BY DEF KnownInv, TickInv, TypeInv, TypeOK
<1> QED BY <1>1, <1>2 DEF KnownInv, TickInv, TickOK, TypeInv, FrameOK, IsKnown, Running

\* Lemma: a tick fires a one-shot task that has not fired.
LEMMA OnceStep ==
    ASSUME KnownInv, TickInv', OnceInv, NEW c \in Frames, Step(c)
    PROVE  OnceOK'
<1> SUFFICES ASSUME NEW t \in Task, IsKnown(t)', IsOneShot(t)
             PROVE  t.serial \notin refired'
  BY DEF OnceOK, IsOneShot
<1>1. CASE ~ EnterCallback(c)
  <2>1. \A s \in refired : s \in Nat /\ s < serial
    BY DEF KnownInv, KnownOK, TickInv, TypeInv, TypeOK
  <2>2. serial \in Nat
    BY DEF KnownInv, TickInv, TypeInv, TypeOK
  <2>3. t.serial \notin refired
    BY <2>1, <2>2, KnownStep DEF OnceInv, OnceOK, SameTask, IsOneShot
  <2> QED BY <1>1, <2>3, FiringChanges
<1>2. CASE EnterCallback(c)
  <2>1. PICK u \in Task : IsKnown(u) /\ SameTask(t, u)
    BY <1>2, KnownStep DEF EnterCallback, Schedule, At, Locked
  <2>2. pc[c] = "started" /\ refired' = refired \cup ({current[c].serial} \cap fired)
    BY <1>2 DEF EnterCallback, At
  <2>3. current[c] \in Task /\ IsKnown(current[c])
    BY <2>2, RunningTicks DEF Running
  <2>4. ASSUME t.serial = current[c].serial
        PROVE  t.serial \notin fired
    <3>1. SameTask(u, current[c])
      BY <2>1, <2>3, <2>4 DEF KnownInv, KnownOK, SameTask
    <3>2. IsOneShot(current[c])
      BY <2>1, <3>1 DEF SameTask, IsOneShot
    <3> QED BY <2>2, <2>4, <3>2 DEF OnceInv, CurrentOK, Running
  <2> QED BY <2>1, <2>2, <2>4 DEF OnceInv, OnceOK, SameTask, IsOneShot
<1> QED BY <1>1, <1>2

\* Lemma: a tick selects one-shot tasks that have not fired.
LEMMA SelectedIsNew ==
    ASSUME KnownInv, OnceInv, TicksApart, NEW c \in Frames, SelectDue(c),
           NEW id \in Registered, Due(tasks[id], at[c]), IsOneShot(tasks[id])
    PROVE  tasks[id].serial \notin fired /\ tasks[id].trigger.at <= at[c]
<1>1. pc[c] = "body" /\ request[c].op = "tick" /\ at[c] \in Nat
  BY RunningTicks DEF SelectDue, Locked, At
<1>2. tasks[id] \in Task /\ tasks[id].next_run # None /\ tasks[id].next_run <= at[c]
  BY DEF Due, Registered, KnownInv, TickInv, TypeInv, TypeOK
<1>3. tasks[id].next_run = tasks[id].trigger.at
  BY <1>2 DEF KnownInv, RegistryInv, NextRunFromOwnTrigger, NextFire, IsOneShot
<1>4. ~ Spent(tasks[id])
  <2> SUFFICES ASSUME NEW d \in Frames, pc[d] \in Firing PROVE FALSE
    BY <1>2 DEF Spent
  <2>1. pc[d] # "idle" /\ request[d].op = "tick" /\ d # c
    BY <1>1, RunningTicks DEF Firing, Running
  <2> QED BY <1>1, <2>1 DEF TicksApart
<1> QED BY <1>2, <1>3, <1>4 DEF OnceInv, SpentOK

LEMMA BatchStep ==
    ASSUME KnownInv, OnceInv, TicksApart, NEW c \in Frames, Step(c)
    PROVE  BatchOK'
<1> SUFFICES ASSUME NEW d \in Frames, NEW t \in batch'[d]
             PROVE  /\ IsOneShot(t) => t.serial \notin fired' /\ t.trigger.at <= at'[d]
                    /\ \A u \in batch'[d] : t.serial = u.serial => t = u
                    /\ pc'[d] \in Running => t.serial # current'[d].serial
  BY DEF BatchOK, IsOneShot
<1>1. /\ pc \in [Frames -> Points] /\ batch \in [Frames -> SUBSET Task]
      /\ current \in [Frames -> Task \cup {None}]
  BY DEF KnownInv, TickInv, TypeInv, TypeOK
<1>2. CASE SelectDue(c)
  <2>1. fired' = fired /\ at' = at /\ pc' = [pc EXCEPT ![c] = "loop"] /\ current' = current
    BY <1>2 DEF SelectDue, Goto, history
  <2>2. CASE d # c
    BY <1>1, <1>2, <2>1, <2>2 DEF SelectDue, OnceInv, BatchOK
  <2>3. CASE d = c
    <3>1. batch'[c] = {tasks[id] : id \in {i \in Registered : Due(tasks[i], at[c])}}
      BY <1>1, <1>2 DEF SelectDue
    <3>2. \A u \in batch'[c] : t.serial = u.serial => t = u
      BY <2>3, <3>1 DEF KnownInv, RegistryInv, SerialsOK, Registered
    <3>3. IsOneShot(t) => t.serial \notin fired /\ t.trigger.at <= at[c]
      BY <1>2, <2>3, <3>1, SelectedIsNew
    <3>4. pc'[c] \notin Running
      BY <1>1, <2>1 DEF Running
    <3> QED BY <2>1, <2>3, <3>2, <3>3, <3>4
  <2> QED BY <2>2, <2>3
<1>3. CASE StartNext(c)
  <2>1. fired' = fired /\ at' = at /\ pc' = [pc EXCEPT ![c] = "started"]
    BY <1>3 DEF StartNext, Goto, history
  <2>2. PICK u \in batch[c] : /\ batch' = [batch EXCEPT ![c] = @ \ {u}]
                              /\ current' = [current EXCEPT ![c] = u]
    BY <1>3 DEF StartNext
  <2>3. t \in batch[d] /\ batch'[d] \subseteq batch[d] /\ (d = c => t # u)
    BY <1>1, <2>2
  <2>4. pc'[d] \in Running => t.serial # current'[d].serial
    BY <1>1, <2>1, <2>2, <2>3 DEF OnceInv, BatchOK
  <2> QED BY <2>1, <2>3, <2>4 DEF OnceInv, BatchOK
<1>4. CASE EnterCallback(c)
  <2>1. /\ fired' = fired \cup {current[c].serial} /\ at' = at /\ batch' = batch
        /\ current' = current /\ pc[c] = "started" /\ pc' = [pc EXCEPT ![c] = "callback"]
    BY <1>4 DEF EnterCallback, Goto, At
  <2>2. d = c
    BY <2>1, RunningTicks DEF TicksApart, Running
  <2>3. t.serial # current[c].serial
    BY <2>1, <2>2 DEF OnceInv, BatchOK, Running
  <2> QED BY <2>1, <2>2, <2>3 DEF OnceInv, BatchOK
<1>5. CASE ~ (SelectDue(c) \/ StartNext(c) \/ EnterCallback(c))
  <2>1. /\ fired' = fired /\ batch'[d] = batch[d] /\ at'[d] = at[d]
        /\ pc'[d] \in Running => pc[d] \in Running /\ current'[d] = current[d]
    <3>1. CASE d # c
      BY <1>5, <3>1, FrameMoves, FiringChanges
    <3>2. CASE d = c
      <4>1. batch'[c] = batch[c]
        BY <1>1, <1>5, <3>2 DEF Step, Acquire, AcquireToFinish, AcquireAt, Reject, Schedule, Cancel,
           Pause, Resume, Replace, Publish, BatchDone, CallbackDone, Finish, Done, Heartbeat,
           HandlerRaises, Return
      <4>2. pc'[c] \in Running => pc[c] \in Running /\ current'[c] = current[c]
        BY <1>1, <1>5 DEF Step, Acquire, AcquireToFinish, AcquireAt, Reject, Schedule, Cancel,
           Pause, Resume, Replace, Publish, BatchDone, CallbackDone, Finish, Done, Heartbeat,
           HandlerRaises, Return, Goto, At, Locked, Running
      <4>3. at'[c] = at[c]
        BY <3>2, FrameMoves
      <4> QED BY <1>5, <3>2, <4>1, <4>2, <4>3, FiringChanges
    <3> QED BY <3>1, <3>2
  <2> QED BY <2>1 DEF OnceInv, BatchOK
<1> QED BY <1>2, <1>3, <1>4, <1>5

LEMMA CurrentStep ==
    ASSUME KnownInv, OnceInv, TicksApart, NEW c \in Frames, Step(c)
    PROVE  CurrentOK'
<1> SUFFICES ASSUME NEW d \in Frames, pc'[d] \in Running, IsOneShot(current'[d])
             PROVE  /\ current'[d].trigger.at <= at'[d]
                    /\ pc'[d] = "started" => current'[d].serial \notin fired'
  BY DEF CurrentOK, IsOneShot
<1>1. /\ pc \in [Frames -> Points] /\ batch \in [Frames -> SUBSET Task]
      /\ current \in [Frames -> Task \cup {None}]
  BY DEF KnownInv, TickInv, TypeInv, TypeOK
<1>2. CASE d # c
  <2>1. /\ pc[d] \in Running /\ current'[d] = current[d] /\ at'[d] = at[d] /\ pc'[d] = pc[d]
    BY <1>2, FrameMoves
  <2>2. fired' = fired
    <3>1. ~ EnterCallback(c)
      BY <1>2, <2>1, RunningTicks DEF EnterCallback, At, Running, TicksApart
    <3> QED BY <3>1, FiringChanges
  <2> QED BY <2>1, <2>2 DEF OnceInv, CurrentOK
<1>3. CASE d = c /\ StartNext(c)
  <2>1. PICK u \in batch[c] : current' = [current EXCEPT ![c] = u]
    BY <1>3 DEF StartNext
  <2>2. current'[c] = u /\ at' = at /\ fired' = fired
    BY <1>1, <1>3, <2>1 DEF StartNext, history
  <2> QED BY <1>3, <2>2 DEF OnceInv, BatchOK
<1>4. CASE d = c /\ ~ StartNext(c)
  <2>1. pc[c] \in Running /\ current'[c] = current[c] /\ at'[c] = at[c] /\ pc'[c] # "started"
    BY <1>1, <1>4 DEF Step, Acquire, AcquireToFinish, AcquireAt, Reject, Schedule, Cancel,
       Pause, Resume, Replace, Publish, SelectDue, BatchDone, EnterCallback, CallbackDone, Finish,
       Done, Heartbeat, HandlerRaises, Return, Goto, At, Locked, Running
  <2> QED BY <1>4, <2>1 DEF OnceInv, CurrentOK
<1> QED BY <1>2, <1>3, <1>4

\* Lemma: a task that has fired and that a step leaves alone stays spent.
LEMMA SpentStays ==
    ASSUME KnownInv, NEW c \in Frames, Step(c), NEW id \in Registered, Spent(tasks[id]),
           NEW t, t.trigger = tasks[id].trigger, t.serial = tasks[id].serial,
           \/ t.next_run = None
           \/ t.next_run = tasks[id].next_run /\ (Finish(c) => id # current[c].id)
    PROVE  Spent(t)'
<1>1. clock' = clock
  BY FrameMoves
<1>2. \A d \in Frames : pc'[d] # "idle" /\ request'[d].op \in {"tick", "resume"} =>
         t.trigger.at <= at'[d]
  BY FrameMoves DEF Spent
<1>3. ASSUME NEW d \in Frames, pc[d] \in Firing, current[d].serial = t.serial,
             t.next_run = tasks[id].next_run, Finish(c) => id # current[c].id
      PROVE  pc'[d] \in Firing /\ current'[d] = current[d]
  <2>1. CASE d # c
    BY <1>3, <2>1, FrameMoves
  <2>2. CASE d = c
    <3>1. ~ Finish(c)
      <4>1. tasks[id] \in Task /\ IsKnown(tasks[id]) /\ tasks[id].id = id
        BY DEF Registered, IsKnown, KnownInv, KnownOK, TickInv, TypeInv, TypeOK
      <4>2. current[c] \in Task /\ IsKnown(current[c])
        BY <1>3, <2>2, RunningTicks DEF Firing, Running
      <4>3. current[c].id = id
        BY <1>3, <2>2, <4>1, <4>2 DEF KnownInv, KnownOK, SameTask
      <4> QED BY <1>3, <4>3
    <3>2. pc \in [Frames -> Points] /\ current \in [Frames -> Task \cup {None}]
      BY DEF KnownInv, TickInv, TypeInv, TypeOK
    <3>3. CallbackDone(c) \/ AcquireToFinish(c)
      BY <1>3, <2>2, <3>1 DEF Step, Acquire, AcquireAt, Reject, Schedule, Cancel, Pause, Resume,
         Replace, Publish, SelectDue, StartNext, BatchDone, EnterCallback, Done, Heartbeat,
         HandlerRaises, At, Locked, Firing
    <3> QED BY <2>2, <3>2, <3>3 DEF CallbackDone, AcquireToFinish, AcquireAt, Goto, Firing
  <2> QED BY <2>1, <2>2
<1> QED BY <1>1, <1>2, <1>3 DEF Spent

\* Lemma: from its time on a one-shot trigger has no next instant.
LEMMA NoNextFire ==
    ASSUME NEW tr \in Triggers, tr.kind = "oneshot", NEW after \in Nat, tr.at <= after
    PROVE  NextFire(tr, after) = None
<1>1. tr.at \in Nat
  BY TriggersAssumption DEF TriggerType
<1> QED BY <1>1 DEF NextFire

LEMMA SpentStep ==
    ASSUME KnownInv, KnownInv', OnceInv, TicksApart, NEW c \in Frames, Step(c)
    PROVE  SpentOK'
<1> SUFFICES ASSUME NEW id \in Registered', IsOneShot(tasks'[id]), tasks'[id].serial \in fired'
             PROVE  Spent(tasks[id])'
  BY DEF SpentOK, IsOneShot
<1>1. /\ tasks \in [Ids -> Task \cup {None}] /\ id \in Ids /\ tasks'[id] # None
      /\ pc \in [Frames -> Points]
  BY DEF KnownInv, TickInv, TypeInv, TypeOK, Registered
<1>2. CASE EnterCallback(c)
  <2>1. /\ fired' = fired \cup {current[c].serial} /\ tasks' = tasks /\ request' = request
        /\ at' = at /\ clock' = clock /\ current' = current
        /\ pc[c] = "started" /\ pc' = [pc EXCEPT ![c] = "callback"]
    BY <1>2 DEF EnterCallback, Goto, At
  <2>2. CASE tasks[id].serial \in fired
    <3>1. Spent(tasks[id]) /\ id \in Registered /\ ~ Finish(c)
      BY <1>1, <1>2, <2>1, <2>2 DEF OnceInv, SpentOK, Registered, Finish, At
    <3>2. Spent(tasks[id])'
      BY <2>1, <3>1, SpentStays
    <3> QED BY <3>2
  <2>3. CASE tasks[id].serial \notin fired
    <3>1. current[c] \in Task /\ IsKnown(current[c]) /\ request[c].op = "tick"
          /\ pc[c] # "idle" /\ at[c] \in Nat /\ at[c] <= clock
      BY <2>1, RunningTicks DEF Running
    <3>2. tasks[id] \in Task /\ IsKnown(tasks[id]) /\ tasks[id].serial = current[c].serial
      BY <1>1, <2>1, <2>3 DEF Registered, IsKnown
    <3>3. tasks[id].trigger = current[c].trigger
      BY <3>1, <3>2 DEF KnownInv, KnownOK, SameTask
    <3>4. current[c].trigger.at <= at[c] /\ current[c].trigger.at \in Nat
      <4>1. IsOneShot(current[c])
        BY <2>1, <3>3 DEF IsOneShot
      <4>2. current[c].trigger \in TriggerType
        BY <3>1, TriggersAssumption DEF Task
      <4> QED BY <2>1, <4>1, <4>2 DEF OnceInv, CurrentOK, Running, IsOneShot, TriggerType
    <3>5. tasks[id].trigger.at <= clock /\ clock \in Nat
      BY <3>1, <3>3, <3>4 DEF KnownInv, TickInv, TypeInv, TypeOK
    <3>6. ASSUME NEW d \in Frames, pc'[d] # "idle", request[d].op \in {"tick", "resume"}
          PROVE  tasks[id].trigger.at <= at[d]
      <4>1. pc[d] # "idle" /\ at[d] \in Nat
        BY <1>1, <2>1, <3>6, RunningTicks
      <4>2. d = c \/ at[c] <= at[d]
        BY <3>1, <3>6, <4>1 DEF TicksApart
      <4> QED BY <3>1, <3>3, <3>4, <4>1, <4>2
    <3>7. pc'[c] \in Firing /\ current'[c].serial = tasks[id].serial
      BY <1>1, <2>1, <3>2 DEF Firing
    <3> QED BY <2>1, <3>5, <3>6, <3>7 DEF Spent
  <2> QED BY <2>2, <2>3
<1>3. CASE ~ EnterCallback(c)
  <2>1. tasks'[id].serial \in fired
    BY <1>3, FiringChanges
  <2>2. CASE Schedule(c) /\ id = request[c].id
    <3>1. tasks'[id].serial = serial
      BY <1>1, <2>2 DEF Schedule
    <3> QED BY <2>1, <3>1 DEF KnownInv, KnownOK, TickInv, TypeInv, TypeOK
  <2>3. CASE tasks'[id] = tasks[id] /\ (Finish(c) => id # current[c].id)
    <3>1. Spent(tasks[id]) /\ id \in Registered
      BY <1>1, <2>1, <2>3 DEF OnceInv, SpentOK, Registered, IsOneShot
    <3> QED BY <2>3, <3>1, SpentStays
  <2>4. CASE Pause(c) /\ id = request[c].id
    <3>1. tasks'[id] = Paused(tasks[id]) /\ tasks[id] \in Task /\ id \in Registered
      BY <1>1, <2>4 DEF Pause, Replace, Registered
    <3>2. tasks'[id].trigger = tasks[id].trigger /\ tasks'[id].serial = tasks[id].serial
          /\ tasks'[id].next_run = tasks[id].next_run
      BY <3>1 DEF Paused, Task
    <3>3. Spent(tasks[id])
      BY <2>1, <3>1, <3>2 DEF OnceInv, SpentOK, IsOneShot
    <3>4. ~ Finish(c)
      BY <2>4 DEF Pause, Replace, Finish, Locked, At
    <3> QED BY <3>1, <3>2, <3>3, <3>4, SpentStays
  <2>5. CASE (Resume(c) /\ id = request[c].id) \/ (Finish(c) /\ id = current[c].id)
    <3>1. id \in Registered /\ tasks[id] \in Task
      BY <1>1, <2>5 DEF Resume, Replace, Finish, Finished, Registered
    <3>2. pc[c] # "idle" /\ request[c].op \in {"tick", "resume"}
      BY <2>5, RunningTicks DEF Resume, Replace, Locked, Finish, At, Running
    <3>3. \/ tasks'[id] = Resumed(tasks[id], at[c])
          \/ tasks'[id] = Finished(id, current[c], at[c])
      BY <1>1, <2>5 DEF Resume, Replace, Finish
    <3>4. /\ tasks'[id].trigger = tasks[id].trigger /\ tasks'[id].serial = tasks[id].serial
          /\ tasks'[id].next_run = NextFire(tasks[id].trigger, at[c])
      BY <1>1, <3>1, <3>3 DEF Resumed, Finished, Registered, Task
    <3>5. Spent(tasks[id]) /\ IsOneShot(tasks[id])
      BY <2>1, <3>1, <3>4 DEF OnceInv, SpentOK, IsOneShot
    <3>6. tasks[id].trigger.at <= at[c] /\ at[c] \in Nat
      BY <3>2, <3>5, RunningTicks DEF Spent
    <3>7. tasks'[id].next_run = None
      BY <3>1, <3>4, <3>5, <3>6, NoNextFire DEF IsOneShot, Task
    <3> QED BY <3>1, <3>4, <3>5, <3>7, SpentStays
  <2>6. \/ Schedule(c) /\ id = request[c].id
        \/ tasks'[id] = tasks[id] /\ (Finish(c) => id # current[c].id)
        \/ Pause(c) /\ id = request[c].id
        \/ (Resume(c) /\ id = request[c].id) \/ (Finish(c) /\ id = current[c].id)
    <3>1. CASE UNCHANGED tasks /\ ~ Finish(c)
      BY <3>1
    <3>2. CASE Schedule(c) \/ Cancel(c) \/ Pause(c) \/ Resume(c)
      BY <1>1, <3>2 DEF Schedule, Cancel, Pause, Resume, Replace, Finish, Locked, At
    <3>3. CASE Finish(c)
      BY <1>1, <3>3 DEF Finish
    <3> QED BY <3>1, <3>2, <3>3, RegistryChanges
  <2> QED BY <2>2, <2>3, <2>4, <2>5, <2>6
<1> QED BY <1>2, <1>3

LEMMA OnceInvNext == KnownInv /\ KnownInv' /\ OnceInv /\ TicksApart /\ [Next]_vars => OnceInv'
<1> SUFFICES ASSUME KnownInv, KnownInv', OnceInv, TicksApart, [Next]_vars
             PROVE  OnceInv'
  OBVIOUS
<1>1. ASSUME NEW c \in Frames, Step(c)
      PROVE  OnceInv'
  BY <1>1, OnceStep, BatchStep, CurrentStep, SpentStep DEF OnceInv, KnownInv
<1>2. ASSUME NEW c \in Frames, Call(c)
      PROVE  OnceInv'
  <2>1. /\ UNCHANGED <<tasks, batch, current, fired, refired, clock>> /\ pc[c] = "idle"
        /\ pc' = [pc EXCEPT ![c] = "lock"] /\ pc'[c] = "lock" /\ at'[c] = clock
        /\ \A d \in Frames \ {c} : pc'[d] = pc[d] /\ request'[d] = request[d] /\ at'[d] = at[d]
    BY <1>2 DEF Call, MayCall, Goto, history, KnownInv, TickInv, TypeInv, TypeOK
  <2>2. batch[c] = {}
    BY <2>1, RunningTicks
  <2>3. BatchOK' /\ CurrentOK'
    BY <2>1, <2>2 DEF OnceInv, BatchOK, CurrentOK, IsOneShot, Running
  <2>4. SpentOK'
    <3> SUFFICES ASSUME NEW id \in Registered, IsOneShot(tasks[id]), tasks[id].serial \in fired
                 PROVE  Spent(tasks[id])'
      BY <2>1 DEF SpentOK, Registered, IsOneShot
    <3>1. Spent(tasks[id])
      BY DEF OnceInv, SpentOK
    <3>2. \A d \in Frames : pc[d] \in Firing => pc'[d] \in Firing
      BY <2>1 DEF Firing
    <3> QED BY <2>1, <3>1, <3>2 DEF Spent
  <2>5. OnceOK'
    BY <2>1 DEF OnceInv, OnceOK, IsKnown, IsOneShot, Registered, Running
  <2> QED BY <2>3, <2>4, <2>5 DEF OnceInv
<1>3. CASE UNCHANGED <<tasks, frameVars, fired, refired>> /\ clock' \in Nat /\ clock <= clock'
  <2>1. BatchOK' /\ CurrentOK' /\ OnceOK'
    BY <1>3 DEF frameVars, OnceInv, BatchOK, CurrentOK, OnceOK, IsKnown, IsOneShot, Registered
  <2>2. SpentOK'
    <3> SUFFICES ASSUME NEW id \in Registered, IsOneShot(tasks[id]), tasks[id].serial \in fired
                 PROVE  Spent(tasks[id])'
      BY <1>3 DEF SpentOK, Registered, IsOneShot
    <3>1. Spent(tasks[id]) /\ tasks[id] \in Task /\ clock \in Nat
      BY DEF OnceInv, SpentOK, Registered, KnownInv, TickInv, TypeInv, TypeOK
    <3>2. tasks[id].trigger.at \in Nat
      BY <3>1, TriggersAssumption DEF Task, TriggerType, IsOneShot
    <3>3. tasks[id].trigger.at <= clock'
      BY <1>3, <3>1, <3>2 DEF Spent
    <3> QED BY <1>3, <3>1, <3>3 DEF frameVars, Spent
  <2> QED BY <2>1, <2>2 DEF OnceInv
<1>4. UNCHANGED vars \/ Initialize \/ Start \/ Stop \/ Elapse
         => UNCHANGED <<tasks, frameVars, fired, refired>> /\ clock' \in Nat /\ clock <= clock'
  BY DEF vars, history, Initialize, Start, Stop, SetState, Elapse,
         KnownInv, TickInv, TypeInv, TypeOK
<1> QED BY <1>1, <1>2, <1>3, <1>4 DEF Next

\* Theorem: as long as ticks do not overlap and no resume() uses an old clock, a one-shot
\* registration fires once, whatever other threads, handlers and callbacks schedule,
\* cancel, pause or resume meanwhile, through late and aborted ticks (_finish clears
\* next_run after the callback, outside the lock that selected the task).
THEOREM OneShotsFireOnce == Spec /\ []TicksApart => []OneShotFiresOnce
<1>1. Init => OnceInv
  BY DEF Init, OnceInv, BatchOK, CurrentOK, SpentOK, OnceOK, Registered, IsKnown, Running
<1>2. KnownInv /\ OnceInv => OneShotFiresOnce
  <2> SUFFICES ASSUME KnownInv, OnceInv,
                      NEW t \in {tasks[id] : id \in Registered}
                                  \cup {current[c] : c \in {d \in Frames : current[d] # None}},
                      t.trigger.kind = "oneshot"
               PROVE  t.serial \notin refired
    BY DEF OneShotFiresOnce
  <2>1. CASE \E id \in Registered : t = tasks[id]
    <3>1. t \in Task /\ IsKnown(t)
      BY <2>1 DEF Registered, IsKnown, KnownInv, TickInv, TypeInv, TypeOK
    <3> QED BY <3>1 DEF OnceInv, OnceOK, IsOneShot
  <2>2. CASE \E c \in Frames : current[c] # None /\ t = current[c]
    <3>1. t \in Task /\ IsKnown(t)
      BY <2>2, RunningTicks DEF KnownInv, TickInv, TickOK
    <3> QED BY <3>1 DEF OnceInv, OnceOK, IsOneShot
  <2> QED BY <2>1, <2>2
<1> QED BY <1>1, <1>2, KnownInvHolds, OnceInvNext, PTL DEF Spec

\* Theorem: so it does for a host with one thread whose handlers and callbacks do not
\* call the scheduler back.
THEOREM OneCallAtATime ==
    ASSUME \A c, d \in Frames : c = d
    PROVE  Spec => []OneShotFiresOnce
<1>1. TicksApart
  BY DEF TicksApart
<1>2. []TicksApart
  BY <1>1, PTL
<1> QED BY <1>2, OneShotsFireOnce, PTL
=============================================================================
