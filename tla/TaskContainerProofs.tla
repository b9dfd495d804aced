------------------------ MODULE TaskContainerProofs ------------------------
(***************************************************************************)
(* Theorems of TaskContainer, for any subtasks and dependencies that the   *)
(* last subtask closes.                                                    *)
(***************************************************************************)
EXTENDS TaskContainer, TLAPS

LEMMA InitType == Init => TypeOK
<1> SUFFICES ASSUME Init PROVE TypeOK
  OBVIOUS
<1>1. last \in SUBSET Tasks
  BY TasksAssumption DEF Init
<1> QED
  BY <1>1 DEF Init, TypeOK

LEMMA NextType == TypeOK /\ [Next]_vars => TypeOK'
<1> SUFFICES ASSUME TypeOK, [Next]_vars PROVE TypeOK'
  OBVIOUS
<1> USE TasksAssumption DEF TypeOK, container, state
<1>1. CASE ContainerStep
  <2>1. CASE StartExecution   BY <2>1 DEF StartExecution
  <2>2. CASE SemaphoreTaken   BY <2>2 DEF SemaphoreTaken
  <2>3. CASE SemaphoreTimeout BY <2>3 DEF SemaphoreTimeout
  <2>4. CASE NothingToCancel  BY <2>4 DEF NothingToCancel
  <2>5. CASE CancelAllOperations
    BY <2>5 DEF CancelAllOperations, InQueue, Running
  <2>6. CASE SubTasksFinished BY <2>6 DEF SubTasksFinished
  <2> QED BY <1>1, <2>1, <2>2, <2>3, <2>4, <2>5, <2>6 DEF ContainerStep
<1>2. CASE SubTasksCancelled({}, last) BY <1>2 DEF SubTasksCancelled
<1>3. CASE CallerStep BY <1>3 DEF CallerStep, Cancel, CancelProgress
<1>4. ASSUME NEW t \in Tasks, QueueStep(t) PROVE TypeOK'
  <2>1. CASE Begin(t)     BY <2>1 DEF Begin
  <2>2. CASE Drop(t)      BY <2>2 DEF Drop
  <2>3. CASE Skip(t)      BY <2>3 DEF Skip
  <2>4. CASE Work(t)      BY <2>4 DEF Work
  <2>5. CASE TaskEnded(t) BY <2>5 DEF TaskEnded
  <2> QED BY <1>4, <2>1, <2>2, <2>3, <2>4, <2>5 DEF QueueStep
<1>5. ASSUME NEW t \in Tasks, SubTaskEnds(t) PROVE TypeOK'
  <2>1. CASE Succeed(t) BY <2>1 DEF Succeed, WorkEnds
  <2>2. CASE Fail(t)    BY <2>2 DEF Fail, WorkEnds
  <2>3. CASE GiveUp(t)  BY <2>3 DEF GiveUp, WorkEnds
  <2> QED BY <1>5, <2>1, <2>2, <2>3 DEF SubTaskEnds
<1>6. CASE UNCHANGED vars BY <1>6 DEF vars
<1> QED BY <1>1, <1>2, <1>3, <1>4, <1>5, <1>6 DEF Next

(***************************************************************************)
(* Every variable keeps its type.                                          *)
(***************************************************************************)
THEOREM TypeCorrect == Spec => []TypeOK
BY InitType, NextType, PTL DEF Spec

-----------------------------------------------------------------------------
(***************************************************************************)
(* The inductive invariant.                                                *)
(***************************************************************************)

\* The queue starts what is prepared, in the order of the dependencies.
Ordering ==
  /\ \A t \in Tasks \ Prepared : op[t] = "none"
  /\ \A t \in Prepared : pc = "idle" <=> op[t] = "none"
  /\ \A t \in Tasks : op[t] \in {"started", "working", "reporting", "done"} =>
       Deps[t] \subseteq Finished

\* What only a cancellation does.
Cancelling ==
  /\ noticed => cancelled /\ pc # "idle"
  /\ told => cancelled
  /\ opCancelled # {} => cancelled
  /\ \A t \in Tasks : op[t] = "dropped" => t \in opCancelled
  /\ noticed => \A t \in Tasks : op[t] \in {"queued", "started"} => t \in opCancelled

\* Why a subtask did not do its work is in the shared state.
Reasons ==
  /\ \A t \in Tasks : op[t] \in {"reporting", "done"} => outcome[t] # "none"
  /\ \A t \in Tasks : outcome[t] # "none" => op[t] \in {"reporting", "done"}
  /\ \A t \in Tasks : outcome[t] = "error" => failed
  /\ \A t \in Tasks : outcome[t] = "cancelled" => stopped
  /\ \A t \in Tasks : outcome[t] = "skipped" => failed \/ stopped \/ cancelled
  /\ stopped => failed \/ cancelled

\* Unless it is cancelled, only the last subtask signals.
Signals ==
  /\ last = {Last}
  /\ result # "none" => pc = "ended"
  /\ (~cancelled /\ (sem > 0 \/ pc \in {"finishing", "ended"})) => op[Last] = "done"

IInv == Ordering /\ Cancelling /\ Reasons /\ Signals /\ NoWorkAfterFailure /\ OkMeansAllDone

LEMMA InitInv == Init => IInv
BY TasksAssumption
DEF Init, IInv, Ordering, Cancelling, Reasons, Signals, NoWorkAfterFailure, OkMeansAllDone

LEMMA OrderingStep == TypeOK /\ IInv /\ [Next]_vars => Ordering'
<1> SUFFICES ASSUME TypeOK, IInv, [Next]_vars PROVE Ordering'
  OBVIOUS
<1> USE TasksAssumption DEF TypeOK, IInv, Ordering, Finished, container, state
<1>1. CASE ContainerStep
  <2>1. CASE StartExecution   BY <2>1 DEF StartExecution
  <2>2. CASE SemaphoreTaken   BY <2>2 DEF SemaphoreTaken
  <2>3. CASE SemaphoreTimeout BY <2>3 DEF SemaphoreTimeout
  <2>4. CASE NothingToCancel  BY <2>4 DEF NothingToCancel
  <2>5. CASE CancelAllOperations BY <2>5 DEF CancelAllOperations
  <2>6. CASE SubTasksFinished BY <2>6 DEF SubTasksFinished
  <2> QED BY <1>1, <2>1, <2>2, <2>3, <2>4, <2>5, <2>6 DEF ContainerStep
<1>2. CASE SubTasksCancelled({}, last) BY <1>2 DEF SubTasksCancelled
<1>3. CASE CallerStep BY <1>3 DEF CallerStep, Cancel, CancelProgress
<1>4. ASSUME NEW t \in Tasks, QueueStep(t) PROVE Ordering'
  <2>1. CASE Begin(t)     BY <2>1 DEF Begin
  <2>2. CASE Drop(t)      BY <2>2 DEF Drop
  <2>3. CASE Skip(t)      BY <2>3 DEF Skip
  <2>4. CASE Work(t)      BY <2>4 DEF Work
  <2>5. CASE TaskEnded(t) BY <2>5 DEF TaskEnded
  <2> QED BY <1>4, <2>1, <2>2, <2>3, <2>4, <2>5 DEF QueueStep
<1>5. ASSUME NEW t \in Tasks, SubTaskEnds(t) PROVE Ordering'
  <2>1. CASE Succeed(t) BY <2>1 DEF Succeed, WorkEnds
  <2>2. CASE Fail(t)    BY <2>2 DEF Fail, WorkEnds
  <2>3. CASE GiveUp(t)  BY <2>3 DEF GiveUp, WorkEnds
  <2> QED BY <1>5, <2>1, <2>2, <2>3 DEF SubTaskEnds
<1>6. CASE UNCHANGED vars BY <1>6 DEF vars
<1> QED BY <1>1, <1>2, <1>3, <1>4, <1>5, <1>6 DEF Next

LEMMA CancellingStep == TypeOK /\ IInv /\ [Next]_vars => Cancelling'
<1> SUFFICES ASSUME TypeOK, IInv, [Next]_vars PROVE Cancelling'
  OBVIOUS
<1> USE TasksAssumption DEF TypeOK, IInv, Cancelling, container, state
<1>1. CASE ContainerStep
  <2>1. CASE StartExecution
    BY <2>1 DEF StartExecution, Ordering
  <2>2. CASE SemaphoreTaken   BY <2>2 DEF SemaphoreTaken
  <2>3. CASE SemaphoreTimeout BY <2>3 DEF SemaphoreTimeout
  <2>4. CASE NothingToCancel  BY <2>4 DEF NothingToCancel
  <2>5. CASE CancelAllOperations
    BY <2>5 DEF CancelAllOperations, InQueue, Running
  <2>6. CASE SubTasksFinished BY <2>6 DEF SubTasksFinished
  <2> QED BY <1>1, <2>1, <2>2, <2>3, <2>4, <2>5, <2>6 DEF ContainerStep
<1>2. CASE SubTasksCancelled({}, last) BY <1>2 DEF SubTasksCancelled
<1>3. CASE CallerStep BY <1>3 DEF CallerStep, Cancel, CancelProgress
<1>4. ASSUME NEW t \in Tasks, QueueStep(t) PROVE Cancelling'
  <2>1. CASE Begin(t)     BY <2>1 DEF Begin
  <2>2. CASE Drop(t)      BY <2>2 DEF Drop
  <2>3. CASE Skip(t)      BY <2>3 DEF Skip
  <2>4. CASE Work(t)      BY <2>4 DEF Work
  <2>5. CASE TaskEnded(t) BY <2>5 DEF TaskEnded
  <2> QED BY <1>4, <2>1, <2>2, <2>3, <2>4, <2>5 DEF QueueStep
<1>5. ASSUME NEW t \in Tasks, SubTaskEnds(t) PROVE Cancelling'
  <2>1. CASE Succeed(t) BY <2>1 DEF Succeed, WorkEnds
  <2>2. CASE Fail(t)    BY <2>2 DEF Fail, WorkEnds
  <2>3. CASE GiveUp(t)  BY <2>3 DEF GiveUp, WorkEnds
  <2> QED BY <1>5, <2>1, <2>2, <2>3 DEF SubTaskEnds
<1>6. CASE UNCHANGED vars BY <1>6 DEF vars
<1> QED BY <1>1, <1>2, <1>3, <1>4, <1>5, <1>6 DEF Next

LEMMA ReasonsStep == TypeOK /\ IInv /\ [Next]_vars => Reasons'
<1> SUFFICES ASSUME TypeOK, IInv, [Next]_vars PROVE Reasons'
  OBVIOUS
<1> USE TasksAssumption DEF TypeOK, IInv, Reasons, container, state
<1>1. CASE ContainerStep
  <2>1. CASE StartExecution
    BY <2>1 DEF StartExecution, Ordering
  <2>2. CASE SemaphoreTaken BY <2>2 DEF SemaphoreTaken
  <2>3. CASE SemaphoreTimeout BY <2>3 DEF SemaphoreTimeout
  <2>4. CASE NothingToCancel BY <2>4 DEF NothingToCancel
  <2>5. CASE CancelAllOperations BY <2>5 DEF CancelAllOperations
  <2>6. CASE SubTasksFinished BY <2>6 DEF SubTasksFinished
  <2> QED BY <1>1, <2>1, <2>2, <2>3, <2>4, <2>5, <2>6 DEF ContainerStep
<1>2. CASE SubTasksCancelled({}, last) BY <1>2 DEF SubTasksCancelled
<1>3. CASE CallerStep BY <1>3 DEF CallerStep, Cancel, CancelProgress
<1>4. ASSUME NEW t \in Tasks, QueueStep(t) PROVE Reasons'
  <2>1. CASE Begin(t) BY <2>1 DEF Begin
  <2>2. CASE Drop(t) BY <2>2 DEF Drop
  <2>3. CASE Skip(t)
    BY <2>3 DEF Skip, ShouldCancel, Cancelling
  <2>4. CASE Work(t) BY <2>4 DEF Work
  <2>5. CASE TaskEnded(t) BY <2>5 DEF TaskEnded
  <2> QED BY <1>4, <2>1, <2>2, <2>3, <2>4, <2>5 DEF QueueStep
<1>5. ASSUME NEW t \in Tasks, SubTaskEnds(t) PROVE Reasons'
  <2>1. CASE Succeed(t) BY <2>1 DEF Succeed, WorkEnds
  <2>2. CASE Fail(t) BY <2>2 DEF Fail, WorkEnds
  <2>3. CASE GiveUp(t)
    BY <2>3 DEF GiveUp, WorkEnds, ShouldCancel, Cancelling
  <2> QED BY <1>5, <2>1, <2>2, <2>3 DEF SubTaskEnds
<1>6. CASE UNCHANGED vars BY <1>6 DEF vars
<1> QED BY <1>1, <1>2, <1>3, <1>4, <1>5, <1>6 DEF Next

LEMMA SignalsStep == TypeOK /\ IInv /\ [Next]_vars => Signals'
<1> SUFFICES ASSUME TypeOK, IInv, [Next]_vars PROVE Signals'
  OBVIOUS
<1> USE TasksAssumption DEF TypeOK, IInv, Signals, container, state
<1>1. CASE ContainerStep
  <2>1. CASE StartExecution
    BY <2>1 DEF StartExecution, Ordering
  <2>2. CASE SemaphoreTaken BY <2>2 DEF SemaphoreTaken
  <2>3. CASE SemaphoreTimeout BY <2>3 DEF SemaphoreTimeout
  <2>4. CASE NothingToCancel BY <2>4 DEF NothingToCancel
  <2>5. CASE CancelAllOperations BY <2>5 DEF CancelAllOperations
  <2>6. CASE SubTasksFinished BY <2>6 DEF SubTasksFinished
  <2> QED BY <1>1, <2>1, <2>2, <2>3, <2>4, <2>5, <2>6 DEF ContainerStep
<1>2. CASE SubTasksCancelled({}, last) BY <1>2 DEF SubTasksCancelled
<1>3. CASE CallerStep BY <1>3 DEF CallerStep, Cancel, CancelProgress
<1>4. ASSUME NEW t \in Tasks, QueueStep(t) PROVE Signals'
  <2>1. CASE Begin(t) BY <2>1 DEF Begin
  <2>2. CASE Drop(t) BY <2>2 DEF Drop
  <2>3. CASE Skip(t) BY <2>3 DEF Skip
  <2>4. CASE Work(t) BY <2>4 DEF Work
  <2>5. CASE TaskEnded(t)
    BY <2>5 DEF TaskEnded, ShouldFinishOnTaskFinished
  <2> QED BY <1>4, <2>1, <2>2, <2>3, <2>4, <2>5 DEF QueueStep
<1>5. ASSUME NEW t \in Tasks, SubTaskEnds(t) PROVE Signals'
  <2>1. CASE Succeed(t) BY <2>1 DEF Succeed, WorkEnds
  <2>2. CASE Fail(t) BY <2>2 DEF Fail, WorkEnds
  <2>3. CASE GiveUp(t) BY <2>3 DEF GiveUp, WorkEnds
  <2> QED BY <1>5, <2>1, <2>2, <2>3 DEF SubTaskEnds
<1>6. CASE UNCHANGED vars BY <1>6 DEF vars
<1> QED BY <1>1, <1>2, <1>3, <1>4, <1>5, <1>6 DEF Next

LEMMA NoWorkStep == TypeOK /\ IInv /\ [Next]_vars => NoWorkAfterFailure'
<1> SUFFICES ASSUME TypeOK, IInv, [Next]_vars PROVE NoWorkAfterFailure'
  OBVIOUS
<1> USE TasksAssumption DEF TypeOK, IInv, NoWorkAfterFailure, Finished, Ordering, container, state
<1>1. CASE ContainerStep
  <2>1. CASE StartExecution BY <2>1 DEF StartExecution
  <2>2. CASE SemaphoreTaken BY <2>2 DEF SemaphoreTaken
  <2>3. CASE SemaphoreTimeout BY <2>3 DEF SemaphoreTimeout
  <2>4. CASE NothingToCancel BY <2>4 DEF NothingToCancel
  <2>5. CASE CancelAllOperations BY <2>5 DEF CancelAllOperations
  <2>6. CASE SubTasksFinished BY <2>6 DEF SubTasksFinished
  <2> QED BY <1>1, <2>1, <2>2, <2>3, <2>4, <2>5, <2>6 DEF ContainerStep
<1>2. CASE SubTasksCancelled({}, last) BY <1>2 DEF SubTasksCancelled
<1>3. CASE CallerStep BY <1>3 DEF CallerStep, Cancel, CancelProgress
<1>4. ASSUME NEW t \in Tasks, QueueStep(t) PROVE NoWorkAfterFailure'
  <2>1. CASE Begin(t) BY <2>1 DEF Begin
  <2>2. CASE Drop(t) BY <2>2 DEF Drop
  <2>3. CASE Skip(t) BY <2>3 DEF Skip
  <2>4. CASE Work(t)
    BY <2>4 DEF Work, ShouldCancel, Reasons
  <2>5. CASE TaskEnded(t) BY <2>5 DEF TaskEnded
  <2> QED BY <1>4, <2>1, <2>2, <2>3, <2>4, <2>5 DEF QueueStep
<1>5. ASSUME NEW t \in Tasks, SubTaskEnds(t) PROVE NoWorkAfterFailure'
  <2>1. CASE Succeed(t) BY <2>1 DEF Succeed, WorkEnds
  <2>2. CASE Fail(t) BY <2>2 DEF Fail, WorkEnds
  <2>3. CASE GiveUp(t) BY <2>3 DEF GiveUp, WorkEnds
  <2> QED BY <1>5, <2>1, <2>2, <2>3 DEF SubTaskEnds
<1>6. CASE UNCHANGED vars BY <1>6 DEF vars
<1> QED BY <1>1, <1>2, <1>3, <1>4, <1>5, <1>6 DEF Next

\* When the last subtask of a container nobody cancelled is done, all are.
LEMMA LastClosesAll ==
  ASSUME TypeOK, IInv, ~cancelled, op[Last] = "done"
  PROVE  \A t \in Prepared : op[t] = "done"
<1> DEFINE S == {t \in Prepared : op[t] = "done"}
<1>1. \A t \in Tasks : op[t] # "dropped"
  BY DEF IInv, Cancelling
<1>2. Finished = {t \in Tasks : op[t] = "done"}
  BY <1>1 DEF Finished
<1>3. Last \in S
  BY TasksAssumption
<1>4. \A t \in S : Deps[t] \subseteq S
  BY <1>2, TasksAssumption DEF IInv, Ordering
<1>5. S = Prepared
  BY <1>3, <1>4, LastAssumption
<1> QED
  BY <1>5

LEMMA OkStep == TypeOK /\ IInv /\ [Next]_vars => OkMeansAllDone'
<1> SUFFICES ASSUME TypeOK, IInv, [Next]_vars PROVE OkMeansAllDone'
  OBVIOUS
<1> USE TasksAssumption DEF TypeOK, IInv, OkMeansAllDone, container, state
<1>1. CASE ContainerStep
  <2>1. CASE StartExecution
    BY <2>1 DEF StartExecution, Signals
  <2>2. CASE SemaphoreTaken BY <2>2 DEF SemaphoreTaken
  <2>3. CASE SemaphoreTimeout BY <2>3 DEF SemaphoreTimeout
  <2>4. CASE NothingToCancel BY <2>4 DEF NothingToCancel
  <2>5. CASE CancelAllOperations BY <2>5 DEF CancelAllOperations
  <2>6. CASE SubTasksFinished
    <3>1. CASE result' = "ok" /\ ~cancelled'
      <4>1. ~cancelled /\ ~failed /\ op[Last] = "done"
        BY <2>6, <3>1 DEF SubTasksFinished, Signals
      <4>2. \A t \in Prepared : op[t] = "done"
        BY <4>1, LastClosesAll
      <4>3. \A t \in Prepared : outcome[t] = "ok"
        BY <4>1, <4>2 DEF Reasons
      <4> QED
        BY <2>6, <4>2, <4>3 DEF SubTasksFinished
    <3>2. CASE ~(result' = "ok" /\ ~cancelled')
      BY <3>2
    <3> QED
      BY <3>1, <3>2
  <2> QED BY <1>1, <2>1, <2>2, <2>3, <2>4, <2>5, <2>6 DEF ContainerStep
<1>2. CASE SubTasksCancelled({}, last) BY <1>2 DEF SubTasksCancelled
<1>3. CASE CallerStep BY <1>3 DEF CallerStep, Cancel, CancelProgress
<1>4. ASSUME NEW t \in Tasks, QueueStep(t) PROVE OkMeansAllDone'
  <2>1. CASE Begin(t) BY <2>1 DEF Begin
  <2>2. CASE Drop(t) BY <2>2 DEF Drop
  <2>3. CASE Skip(t) BY <2>3 DEF Skip
  <2>4. CASE Work(t) BY <2>4 DEF Work
  <2>5. CASE TaskEnded(t) BY <2>5 DEF TaskEnded
  <2> QED BY <1>4, <2>1, <2>2, <2>3, <2>4, <2>5 DEF QueueStep
<1>5. ASSUME NEW t \in Tasks, SubTaskEnds(t) PROVE OkMeansAllDone'
  <2>1. CASE Succeed(t) BY <2>1 DEF Succeed, WorkEnds
  <2>2. CASE Fail(t) BY <2>2 DEF Fail, WorkEnds
  <2>3. CASE GiveUp(t) BY <2>3 DEF GiveUp, WorkEnds
  <2> QED BY <1>5, <2>1, <2>2, <2>3 DEF SubTaskEnds
<1>6. CASE UNCHANGED vars BY <1>6 DEF vars
<1> QED BY <1>1, <1>2, <1>3, <1>4, <1>5, <1>6 DEF Next

LEMMA Inductive == TypeOK /\ IInv /\ [Next]_vars => IInv'
BY OrderingStep, CancellingStep, ReasonsStep, SignalsStep, NoWorkStep, OkStep DEF IInv

LEMMA Invariance == Spec => [](TypeOK /\ IInv)
BY InitType, InitInv, NextType, Inductive, PTL DEF Spec

(***************************************************************************)
(* A container nobody cancelled says OK only when each of its subtasks has *)
(* run and succeeded, whatever the dependencies.                           *)
(***************************************************************************)
THEOREM OkIsOk == Spec => []OkMeansAllDone
<1>1. IInv => OkMeansAllDone
  BY DEF IInv
<1> QED
  BY <1>1, Invariance, PTL

(***************************************************************************)
(* No subtask works on what a failed or cancelled one left behind.         *)
(***************************************************************************)
THEOREM FailureStops == Spec => []NoWorkAfterFailure
<1>1. IInv => NoWorkAfterFailure
  BY DEF IInv
<1> QED
  BY <1>1, Invariance, PTL

LEMMA NoNewWork ==
  ASSUME TypeOK, IInv, Next, noticed,
         NEW t \in Tasks, op'[t] = "working", op[t] # "working"
  PROVE  t \in RunAnyway
<1> USE TasksAssumption DEF TypeOK
<1>1. ~ContainerStep
  BY DEF ContainerStep, StartExecution, SemaphoreTaken, SemaphoreTimeout,
         NothingToCancel, CancelAllOperations, SubTasksFinished
<1>2. ~SubTasksCancelled({}, last) /\ ~CallerStep
  BY DEF SubTasksCancelled, CallerStep, Cancel, CancelProgress
<1>3. \A u \in Tasks : ~SubTaskEnds(u)
  BY DEF SubTaskEnds, Succeed, Fail, GiveUp, WorkEnds
<1>4. PICK u \in Tasks : QueueStep(u)
  BY <1>1, <1>2, <1>3 DEF Next
<1>5. Work(t)
  BY <1>4 DEF QueueStep, Begin, Drop, Skip, Work, TaskEnded
<1>6. t \in opCancelled
  BY <1>5 DEF Work, IInv, Cancelling
<1> QED
  BY <1>5, <1>6 DEF Work, ShouldCancel

(***************************************************************************)
(* Once the queue is cancelled, only what must run anyway begins to work.  *)
(***************************************************************************)
THEOREM CancelHolds == Spec => CancelIsFinal
<1> DEFINE A == \A t \in Tasks :
     (noticed /\ op'[t] = "working" /\ op[t] # "working") => t \in RunAnyway
<1>1. TypeOK /\ IInv /\ [Next]_vars => [A]_vars
  BY NoNewWork DEF TypeOK
<1>2. Spec => [][A]_vars
  BY <1>1, Invariance, PTL DEF Spec
<1> QED
  BY <1>2 DEF CancelIsFinal
=============================================================================
