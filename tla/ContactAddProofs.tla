-------------------------- MODULE ContactAddProofs --------------------------
(***************************************************************************)
(* Theorems of ContactAdd: what an addition leaves behind, whenever it is  *)
(* cancelled, whatever fails and however the rollbacks overlap with it.    *)
(***************************************************************************)
EXTENDS ContactAdd, TLAPS

LEMMA TasksOf ==
  /\ AddTasks = Row \cup Rollbacks
  /\ "check" \in Row /\ "storeLocally" \in Row /\ "storeSoap" \in Row
  /\ "prepare" \in Row /\ "certFetch" \in Row /\ "certProcess" \in Row
  /\ "rollback1" \in Rollbacks /\ "rollback2" \in Rollbacks
  /\ Row \cap Rollbacks = {}
BY DEF AddTasks, Row, Rollbacks

LEMMA DepsOf ==
  /\ AddDeps["check"] = {"storeLocally"} /\ AddDeps["storeLocally"] = {"storeSoap"}
  /\ AddDeps["storeSoap"] = {"certProcess"} /\ AddDeps["certProcess"] = {"certFetch"}
  /\ AddDeps["certFetch"] = {"prepare"} /\ AddDeps["prepare"] = {}
  /\ \A r \in Rollbacks : AddDeps[r] = {"check"}
BY DEF AddDeps, AddTasks, Row, Rollbacks

-----------------------------------------------------------------------------
\* The types of the task's own state.
AddTypeOK ==
  /\ TypeOK
  /\ local \in BOOLEAN /\ server \in BOOLEAN /\ userStored \in BOOLEAN
  /\ serverStored \in BOOLEAN /\ overtook \in BOOLEAN
  /\ before \in BOOLEAN /\ lost \in BOOLEAN /\ kept \in BOOLEAN

LEMMA InitType == AddInit => AddTypeOK
<1> SUFFICES ASSUME AddInit PROVE AddTypeOK
  OBVIOUS
<1>1. last \in SUBSET AddTasks BY TasksOf DEF AddInit, Init
<1> QED BY <1>1 DEF AddInit, Init, AddTypeOK, TypeOK

LEMMA NextType == AddTypeOK /\ [AddNext]_addVars => AddTypeOK'
<1> SUFFICES ASSUME AddTypeOK, [AddNext]_addVars PROVE AddTypeOK'
  OBVIOUS
<1> USE TasksOf DEF AddTypeOK, TypeOK, container, state, contact, past
<1>1. CASE ContainerStep /\ UNCHANGED contact
  <2>1. CASE StartExecution BY <1>1, <2>1 DEF StartExecution
  <2>2. CASE SemaphoreTaken BY <1>1, <2>2 DEF SemaphoreTaken
  <2>3. CASE SemaphoreTimeout BY <1>1, <2>3 DEF SemaphoreTimeout
  <2>4. CASE NothingToCancel BY <1>1, <2>4 DEF NothingToCancel
  <2>5. CASE CancelAllOperations BY <1>1, <2>5 DEF CancelAllOperations, InQueue, Running
  <2>6. CASE SubTasksFinished BY <1>1, <2>6 DEF SubTasksFinished
  <2> QED BY <1>1, <2>1, <2>2, <2>3, <2>4, <2>5, <2>6 DEF ContainerStep
<1>2. CASE CallerStep /\ UNCHANGED contact
  <2>1. CASE Cancel BY <1>2, <2>1 DEF Cancel
  <2>2. CASE CancelProgress BY <1>2, <2>2 DEF CancelProgress
  <2> QED BY <1>2, <2>1, <2>2 DEF CallerStep
<1>3. ASSUME NEW t \in AddTasks, QueueStep(t), UNCHANGED contact PROVE AddTypeOK'
  <2>1. CASE Begin(t) BY <1>3, <2>1 DEF Begin
  <2>2. CASE Drop(t) BY <1>3, <2>2 DEF Drop
  <2>3. CASE Skip(t) BY <1>3, <2>3 DEF Skip
  <2>4. CASE Work(t) BY <1>3, <2>4 DEF Work
  <2>5. CASE TaskEnded(t) BY <1>3, <2>5 DEF TaskEnded, ShouldFinishOnTaskFinished
  <2> QED BY <1>3, <2>1, <2>2, <2>3, <2>4, <2>5 DEF QueueStep
<1>4. CASE Hook
  BY <1>4 DEF Hook, SubTasksCancelled, NextRollback, LastOnceScheduled
<1>5. CASE SubMainEnds
  <2>1. CASE Prepare
    <3>1. ASSUME Succeed("prepare"), UNCHANGED contact PROVE AddTypeOK'
      BY <3>1 DEF Succeed, WorkEnds
    <3>2. ASSUME Fail("prepare"), UNCHANGED contact PROVE AddTypeOK'
      BY <3>2 DEF Fail, WorkEnds
    <3> QED BY <2>1, <3>1, <3>2 DEF Prepare
  <2>2. CASE CertFetch
    <3>1. ASSUME Succeed("certFetch"), UNCHANGED contact PROVE AddTypeOK'
      BY <3>1 DEF Succeed, WorkEnds
    <3>2. ASSUME Fail("certFetch"), UNCHANGED contact PROVE AddTypeOK'
      BY <3>2 DEF Fail, WorkEnds
    <3>3. ASSUME GiveUp("certFetch"), UNCHANGED contact PROVE AddTypeOK'
      BY <3>3 DEF GiveUp, WorkEnds
    <3> QED BY <2>2, <3>1, <3>2, <3>3 DEF CertFetch
  <2>3. CASE CertProcess BY <2>3 DEF CertProcess, Succeed, WorkEnds
  <2>4. CASE StoreSoap
    <3>1. ASSUME Succeed("storeSoap"), server' = TRUE, serverStored' = TRUE,
               UNCHANGED <<local, userStored, past>> PROVE AddTypeOK'
      BY <3>1 DEF Succeed, WorkEnds
    <3>2. ASSUME Fail("storeSoap"), server' \in BOOLEAN, serverStored' \in BOOLEAN,
               UNCHANGED <<local, userStored, past>> PROVE AddTypeOK'
      BY <3>2 DEF Fail, WorkEnds
    <3>3. ASSUME GiveUp("storeSoap"), server' \in BOOLEAN,
               UNCHANGED <<serverStored, local, userStored, past>> PROVE AddTypeOK'
      BY <3>3 DEF GiveUp, WorkEnds
    <3> QED BY <2>4, <3>1, <3>2, <3>3 DEF StoreSoap
  <2>5. CASE StoreLocally
    <3>1. TypeOK' BY <2>5 DEF StoreLocally, Succeed, WorkEnds
    <3>2. local' \in BOOLEAN /\ userStored' \in BOOLEAN /\ lost' \in BOOLEAN
      BY <2>5, Zenon DEF StoreLocally
    <3> QED BY <2>5, <3>1, <3>2 DEF StoreLocally
  <2>6. CASE CheckPasses BY <2>6 DEF CheckPasses, Succeed, WorkEnds
  <2>7. CASE CheckSchedulesRollback
    BY <2>7 DEF CheckSchedulesRollback, SucceedAdding, WorkEnds, NextRollback, LastOnceScheduled
  <2>8. ASSUME NEW r \in Rollbacks, Rollback(r) PROVE AddTypeOK'
    <3>1. TypeOK' BY <2>8 DEF Rollback, Succeed, WorkEnds
    <3>5. local' \in BOOLEAN /\ userStored' \in BOOLEAN /\ kept' \in BOOLEAN
      BY <2>8, Zenon DEF Rollback, DeleteContact
    <3>2. server' \in {server, FALSE} /\ UNCHANGED <<serverStored, before, lost>>
      BY <2>8 DEF Rollback
    <3>3. overtook' = (overtook \/ op["storeLocally"] \in {"started", "working"})
      BY <2>8 DEF Rollback
    <3>4. overtook' \in BOOLEAN BY <3>3
    <3> QED BY <3>1, <3>2, <3>4, <3>5
  <2> QED BY <1>5, <2>1, <2>2, <2>3, <2>4, <2>5, <2>6, <2>7, <2>8 DEF SubMainEnds
<1>6. CASE UNCHANGED addVars BY <1>6 DEF addVars, vars
<1> QED BY <1>1, <1>2, <1>3, <1>4, <1>5, <1>6 DEF AddNext, Generic

(***************************************************************************)
(* Every variable keeps its type.                                          *)
(***************************************************************************)
THEOREM TypeCorrect == AddSpec => []AddTypeOK
BY InitType, NextType, PTL DEF AddSpec

-----------------------------------------------------------------------------
(***************************************************************************)
(* The inductive invariant.                                                *)
(***************************************************************************)

\* What the container created, and in which order the queue runs it.
Ordering ==
  /\ \A t \in Row : pc = "idle" <=> op[t] = "none"
  /\ pc = "idle" => \A r \in Rollbacks : op[r] = "none"
  /\ \A t \in AddTasks : op[t] \in {"started", "working", "reporting", "done"} =>
       AddDeps[t] \subseteq Finished

\* A subtask of the row that begins comes after others that began, and a queue
\* that is cancelled keeps what comes after them from beginning.
Chained ==
  /\ \A t \in Row : op[t] \in {"started", "working", "reporting", "done"} =>
       \A d \in AddDeps[t] : op[d] = "done"
  /\ \A t \in Row : \A d \in AddDeps[t] : d \in opCancelled => t \in opCancelled

\* What only a cancellation does.
Cancelling ==
  /\ noticed => cancelled /\ pc # "idle"
  /\ pc = "hook" => noticed
  /\ told => cancelled
  /\ opCancelled # {} => noticed
  /\ \A t \in AddTasks : op[t] = "dropped" => t \in opCancelled
  /\ \A t \in opCancelled : op[t] # "none"
  /\ noticed => \A t \in Row : op[t] = "queued" => t \in opCancelled

\* Why a subtask did not do its work is in the shared state.
Reasons ==
  /\ \A t \in AddTasks : outcome[t] # "none" <=> op[t] \in {"reporting", "done"}
  /\ \A t \in AddTasks : outcome[t] = "error" => failed
  /\ \A t \in AddTasks : outcome[t] = "cancelled" => stopped
  /\ \A t \in AddTasks : outcome[t] = "skipped" => failed \/ stopped \/ told \/ t \in opCancelled
  /\ stopped => failed \/ cancelled

Checked == op["check"] \in {"reporting", "done"}

\* Who schedules a rollback: the check of a failed addition, and the hook.
Scheduling ==
  /\ ~noticed => /\ op["rollback1"] # "none" <=> Checked /\ failed
                 /\ last = IF op["rollback1"] = "none" THEN {"check"} ELSE {"rollback1"}
  /\ ~noticed \/ pc = "hook" =>
       op["rollback2"] = "none" /\ (op["rollback1"] # "none" => Checked)
  /\ ~Checked => op["rollback2"] = "none"
  /\ noticed /\ pc # "hook" => \E r \in Rollbacks : op[r] # "none" /\ r \notin opCancelled

\* The wait ends, until the queue is cancelled, with the one that is last.
Ending ==
  /\ ~noticed /\ (sem > 0 \/ pc \in {"finishing", "ended"}) => \E t \in last : op[t] = "done"
  /\ result = IF pc # "ended" THEN "none"
              ELSE IF noticed THEN "cancelled" ELSE IF failed THEN "error" ELSE "ok"

RolledBack(r) == op[r] \in {"reporting", "done"}

\* What the subtasks have left behind.
Effects ==
  /\ before => local
  /\ outcome["prepare"] = "ok" => ~before
  /\ op["storeLocally"] = "working" \/ outcome["storeLocally"] = "ok" => ~before
  /\ userStored \/ (local /\ ~before) => outcome["storeLocally"] = "ok"
  /\ local /\ ~before => userStored \/ kept
  /\ outcome["storeLocally"] = "ok" => local \/ lost \/ \E r \in Rollbacks : RolledBack(r)
  /\ outcome["storeSoap"] = "ok" => server
  /\ overtook => noticed

\* Nothing is stored any more once a rollback ended, unless it came too early.
RollbackHolds ==
  ~overtook => \A r \in Rollbacks : RolledBack(r) =>
    /\ local => before \/ kept
    /\ op["storeLocally"] \notin {"started", "working"}
    /\ op["storeLocally"] = "queued" => "storeLocally" \in opCancelled

IInv ==
  /\ Ordering /\ Chained /\ Cancelling /\ Reasons /\ Scheduling /\ Ending /\ Effects
  /\ RollbackHolds

LEMMA InitInv == AddInit => IInv
<1> SUFFICES ASSUME AddInit PROVE IInv
  OBVIOUS
<1> USE TasksOf DEF AddInit, Init
<1>1. Ordering BY DEF Ordering
<1>2. Cancelling BY DEF Cancelling
<1>8. Chained BY DEF Chained
<1>3. Reasons BY DEF Reasons
<1>4. Scheduling BY DEF Scheduling, Checked
<1>5. Ending BY DEF Ending
<1>6. Effects BY DEF Effects, RolledBack
<1>7. RollbackHolds BY DEF RollbackHolds, RolledBack
<1> QED BY <1>1, <1>2, <1>3, <1>4, <1>5, <1>6, <1>7, <1>8 DEF IInv

\* Until the queue is cancelled, the check comes after all the others.
LEMMA CheckIsLast ==
  ASSUME AddTypeOK, Ordering, Cancelling, ~noticed,
         op["check"] \in {"started", "working", "reporting", "done"}
  PROVE  \A t \in Row \ {"check"} : op[t] = "done"
<1>1. \A t \in AddTasks : t \in Finished => op[t] = "done"
  BY DEF Cancelling, Finished
<1>2. ASSUME NEW t \in AddTasks, NEW d \in AddTasks, AddDeps[t] = {d},
             op[t] \in {"started", "working", "reporting", "done"}
      PROVE  op[d] = "done"
  BY <1>1, <1>2 DEF Ordering
<1>3. op["storeLocally"] = "done" BY <1>2, TasksOf, DepsOf
<1>4. op["storeSoap"] = "done" BY <1>2, <1>3, TasksOf, DepsOf
<1>5. op["certProcess"] = "done" BY <1>2, <1>4, TasksOf, DepsOf
<1>6. op["certFetch"] = "done" BY <1>2, <1>5, TasksOf, DepsOf
<1>7. op["prepare"] = "done" BY <1>2, <1>6, TasksOf, DepsOf
<1> QED BY <1>3, <1>4, <1>5, <1>6, <1>7 DEF Row

\* None of the others works then.
LEMMA RowBeforeCheck ==
  ASSUME AddTypeOK, IInv, ~noticed, NEW t \in Row \ {"check"}, op[t] = "working"
  PROVE  ~Checked
BY CheckIsLast DEF Checked, IInv

\* There is a rollback left to schedule.
LEMMA NextFree ==
  ASSUME AddTypeOK, IInv, pc = "hook" \/ op["check"] = "working"
  PROVE  NextRollback \in Rollbacks /\ op[NextRollback] = "none"
BY DEF NextRollback, Rollbacks, IInv, Scheduling, Checked

\* A rollback works after the check or after the queue was cancelled.
LEMMA StoredBefore ==
  ASSUME AddTypeOK, IInv, NEW r \in Rollbacks, op[r] # "none"
  PROVE  /\ noticed \/ Checked
         /\ op["storeLocally"] = "queued" => "storeLocally" \in opCancelled
<1>1. noticed \/ Checked
  BY TasksOf DEF IInv, Scheduling, Rollbacks
<1>2. CASE noticed
  BY <1>2, TasksOf DEF IInv, Cancelling
<1>3. CASE Checked
  <2>1. "storeLocally" \in Finished BY <1>3, TasksOf, DepsOf DEF Checked, IInv, Ordering
  <2> QED BY <1>1, <2>1 DEF Finished
<1> QED BY <1>1, <1>2, <1>3

LEMMA OrderingStep == AddTypeOK /\ IInv /\ [AddNext]_addVars => Ordering'
<1> SUFFICES ASSUME AddTypeOK, IInv, [AddNext]_addVars PROVE Ordering'
  OBVIOUS
<1> USE TasksOf DEF AddTypeOK, TypeOK, container, state, contact, past,
      IInv, Ordering, Finished
<1>1. CASE ContainerStep /\ UNCHANGED contact
  <2>1. CASE StartExecution BY <1>1, <2>1 DEF StartExecution
  <2>2. CASE SemaphoreTaken BY <1>1, <2>2 DEF SemaphoreTaken
  <2>3. CASE SemaphoreTimeout BY <1>1, <2>3 DEF SemaphoreTimeout
  <2>4. CASE NothingToCancel BY <1>1, <2>4 DEF NothingToCancel
  <2>5. CASE CancelAllOperations BY <1>1, <2>5 DEF CancelAllOperations, InQueue, Running
  <2>6. CASE SubTasksFinished BY <1>1, <2>6 DEF SubTasksFinished
  <2> QED BY <1>1, <2>1, <2>2, <2>3, <2>4, <2>5, <2>6 DEF ContainerStep
<1>2. CASE CallerStep /\ UNCHANGED contact
  BY <1>2 DEF CallerStep, Cancel, CancelProgress
<1>3. ASSUME NEW t \in AddTasks, QueueStep(t), UNCHANGED contact PROVE Ordering'
  <2>1. CASE Begin(t) BY <1>3, <2>1 DEF Begin
  <2>2. CASE Drop(t) BY <1>3, <2>2 DEF Drop
  <2>3. CASE Skip(t) BY <1>3, <2>3 DEF Skip
  <2>4. CASE Work(t) BY <1>3, <2>4 DEF Work
  <2>5. CASE TaskEnded(t) BY <1>3, <2>5 DEF TaskEnded, ShouldFinishOnTaskFinished
  <2> QED BY <1>3, <2>1, <2>2, <2>3, <2>4, <2>5 DEF QueueStep
<1>4. CASE Hook
  <2>1. /\ NextRollback \in Rollbacks /\ op[NextRollback] = "none"
        /\ \A t \in AddTasks : op'[t] = IF t = NextRollback THEN "queued" ELSE op[t]
    BY <1>4, NextFree DEF Hook, SubTasksCancelled
  <2> QED BY <1>4, <2>1 DEF Hook, SubTasksCancelled
<1>5. CASE SubMainEnds
  <2>1. CASE Prepare BY <2>1 DEF Prepare, Succeed, Fail, WorkEnds
  <2>2. CASE CertFetch BY <2>2 DEF CertFetch, Succeed, Fail, GiveUp, WorkEnds
  <2>3. CASE CertProcess BY <2>3 DEF CertProcess, Succeed, WorkEnds
  <2>4. CASE StoreSoap BY <2>4 DEF StoreSoap, Succeed, Fail, GiveUp, WorkEnds
  <2>5. CASE StoreLocally BY <2>5 DEF StoreLocally, Succeed, WorkEnds
  <2>6. CASE CheckPasses BY <2>6 DEF CheckPasses, Succeed, WorkEnds
  <2>7. CASE CheckSchedulesRollback
    <3>1. /\ NextRollback \in Rollbacks /\ op[NextRollback] = "none"
          /\ \A t \in AddTasks : op'[t] = IF t = "check" THEN "reporting"
                                        ELSE IF t = NextRollback THEN "queued" ELSE op[t]
      BY <2>7, NextFree DEF CheckSchedulesRollback, SucceedAdding, WorkEnds
    <3> QED BY <2>7, <3>1 DEF CheckSchedulesRollback, SucceedAdding, WorkEnds
  <2>8. ASSUME NEW r \in Rollbacks, Rollback(r) PROVE Ordering'
    BY <2>8 DEF Rollback, Succeed, WorkEnds, SoapTaskOf
  <2> QED BY <1>5, <2>1, <2>2, <2>3, <2>4, <2>5, <2>6, <2>7, <2>8 DEF SubMainEnds
<1>6. CASE UNCHANGED addVars BY <1>6 DEF addVars, vars
<1> QED BY <1>1, <1>2, <1>3, <1>4, <1>5, <1>6 DEF AddNext, Generic

LEMMA CancellingStep == AddTypeOK /\ IInv /\ [AddNext]_addVars => Cancelling'
<1> SUFFICES ASSUME AddTypeOK, IInv, [AddNext]_addVars PROVE Cancelling'
  OBVIOUS
<1> USE TasksOf DEF AddTypeOK, TypeOK, container, state, contact, past,
      IInv, Cancelling, Ordering
<1>1. CASE ContainerStep /\ UNCHANGED contact
  <2>1. CASE StartExecution BY <1>1, <2>1 DEF StartExecution
  <2>2. CASE SemaphoreTaken BY <1>1, <2>2 DEF SemaphoreTaken
  <2>3. CASE SemaphoreTimeout BY <1>1, <2>3 DEF SemaphoreTimeout
  <2>4. CASE NothingToCancel BY <1>1, <2>4 DEF NothingToCancel
  <2>5. CASE CancelAllOperations BY <1>1, <2>5 DEF CancelAllOperations, InQueue, Running
  <2>6. CASE SubTasksFinished BY <1>1, <2>6 DEF SubTasksFinished
  <2> QED BY <1>1, <2>1, <2>2, <2>3, <2>4, <2>5, <2>6 DEF ContainerStep
<1>2. CASE CallerStep /\ UNCHANGED contact
  BY <1>2 DEF CallerStep, Cancel, CancelProgress
<1>3. ASSUME NEW t \in AddTasks, QueueStep(t), UNCHANGED contact PROVE Cancelling'
  <2>1. CASE Begin(t) BY <1>3, <2>1 DEF Begin
  <2>2. CASE Drop(t) BY <1>3, <2>2 DEF Drop
  <2>3. CASE Skip(t) BY <1>3, <2>3 DEF Skip
  <2>4. CASE Work(t) BY <1>3, <2>4 DEF Work
  <2>5. CASE TaskEnded(t) BY <1>3, <2>5 DEF TaskEnded, ShouldFinishOnTaskFinished
  <2> QED BY <1>3, <2>1, <2>2, <2>3, <2>4, <2>5 DEF QueueStep
<1>4. CASE Hook
  BY <1>4 DEF Hook, SubTasksCancelled, NextRollback, LastOnceScheduled
<1>5. CASE SubMainEnds
  <2>1. CASE Prepare BY <2>1 DEF Prepare, Succeed, Fail, WorkEnds
  <2>2. CASE CertFetch BY <2>2 DEF CertFetch, Succeed, Fail, GiveUp, WorkEnds
  <2>3. CASE CertProcess BY <2>3 DEF CertProcess, Succeed, WorkEnds
  <2>4. CASE StoreSoap BY <2>4 DEF StoreSoap, Succeed, Fail, GiveUp, WorkEnds
  <2>5. CASE StoreLocally BY <2>5 DEF StoreLocally, Succeed, WorkEnds
  <2>6. CASE CheckPasses BY <2>6 DEF CheckPasses, Succeed, WorkEnds
  <2>7. CASE CheckSchedulesRollback
    BY <2>7 DEF CheckSchedulesRollback, SucceedAdding, WorkEnds, NextRollback, LastOnceScheduled
  <2>8. ASSUME NEW r \in Rollbacks, Rollback(r) PROVE Cancelling'
    BY <2>8 DEF Rollback, Succeed, WorkEnds, SoapTaskOf
  <2> QED BY <1>5, <2>1, <2>2, <2>3, <2>4, <2>5, <2>6, <2>7, <2>8 DEF SubMainEnds
<1>6. CASE UNCHANGED addVars BY <1>6 DEF addVars, vars
<1> QED BY <1>1, <1>2, <1>3, <1>4, <1>5, <1>6 DEF AddNext, Generic

LEMMA ChainedStep == AddTypeOK /\ IInv /\ [AddNext]_addVars => Chained'
<1> SUFFICES ASSUME AddTypeOK, IInv, [AddNext]_addVars PROVE Chained'
  OBVIOUS
<1> USE TasksOf DEF AddTypeOK, TypeOK, container, state, contact, past,
      IInv, Chained, Cancelling, Ordering, Finished
<1>1. CASE ContainerStep /\ UNCHANGED contact
  <2>1. CASE StartExecution BY <1>1, <2>1 DEF StartExecution
  <2>2. CASE SemaphoreTaken BY <1>1, <2>2 DEF SemaphoreTaken
  <2>3. CASE SemaphoreTimeout BY <1>1, <2>3 DEF SemaphoreTimeout
  <2>4. CASE NothingToCancel BY <1>1, <2>4 DEF NothingToCancel
  <2>5. CASE CancelAllOperations BY <1>1, <2>5 DEF CancelAllOperations, InQueue, Running
  <2>6. CASE SubTasksFinished BY <1>1, <2>6 DEF SubTasksFinished
  <2> QED BY <1>1, <2>1, <2>2, <2>3, <2>4, <2>5, <2>6 DEF ContainerStep
<1>2. CASE CallerStep /\ UNCHANGED contact
  BY <1>2 DEF CallerStep, Cancel, CancelProgress
<1>3. ASSUME NEW t \in AddTasks, QueueStep(t), UNCHANGED contact PROVE Chained'
  <2>1. CASE Begin(t) BY <1>3, <2>1 DEF Begin
  <2>2. CASE Drop(t) BY <1>3, <2>2 DEF Drop
  <2>3. CASE Skip(t) BY <1>3, <2>3 DEF Skip
  <2>4. CASE Work(t) BY <1>3, <2>4 DEF Work
  <2>5. CASE TaskEnded(t) BY <1>3, <2>5 DEF TaskEnded, ShouldFinishOnTaskFinished
  <2> QED BY <1>3, <2>1, <2>2, <2>3, <2>4, <2>5 DEF QueueStep
<1>4. CASE Hook
  <2>1. NextRollback \in Rollbacks /\ op[NextRollback] = "none"
    BY <1>4, NextFree DEF Hook, SubTasksCancelled
  <2> QED BY <1>4, <2>1 DEF Hook, SubTasksCancelled
<1>5. CASE SubMainEnds
  <2>1. CASE Prepare BY <2>1 DEF Prepare, Succeed, Fail, WorkEnds
  <2>2. CASE CertFetch BY <2>2 DEF CertFetch, Succeed, Fail, GiveUp, WorkEnds
  <2>3. CASE CertProcess BY <2>3 DEF CertProcess, Succeed, WorkEnds
  <2>4. CASE StoreSoap BY <2>4 DEF StoreSoap, Succeed, Fail, GiveUp, WorkEnds
  <2>5. CASE StoreLocally BY <2>5 DEF StoreLocally, Succeed, WorkEnds
  <2>6. CASE CheckPasses BY <2>6 DEF CheckPasses, Succeed, WorkEnds
  <2>7. CASE CheckSchedulesRollback
    <3>1. NextRollback \in Rollbacks /\ op[NextRollback] = "none"
      BY <2>7, NextFree DEF CheckSchedulesRollback, SucceedAdding, WorkEnds
    <3> QED BY <2>7, <3>1 DEF CheckSchedulesRollback, SucceedAdding, WorkEnds
  <2>8. ASSUME NEW r \in Rollbacks, Rollback(r) PROVE Chained'
    BY <2>8 DEF Rollback, Succeed, WorkEnds, SoapTaskOf
  <2> QED BY <1>5, <2>1, <2>2, <2>3, <2>4, <2>5, <2>6, <2>7, <2>8 DEF SubMainEnds
<1>6. CASE UNCHANGED addVars BY <1>6 DEF addVars, vars
<1> QED BY <1>1, <1>2, <1>3, <1>4, <1>5, <1>6 DEF AddNext, Generic

LEMMA ReasonsStep == AddTypeOK /\ IInv /\ [AddNext]_addVars => Reasons'
<1> SUFFICES ASSUME AddTypeOK, IInv, [AddNext]_addVars PROVE Reasons'
  OBVIOUS
<1> USE TasksOf DEF AddTypeOK, TypeOK, container, state, contact, past,
      IInv, Reasons, Cancelling, Ordering, ShouldCancel
<1>1. CASE ContainerStep /\ UNCHANGED contact
  <2>1. CASE StartExecution BY <1>1, <2>1 DEF StartExecution
  <2>2. CASE SemaphoreTaken BY <1>1, <2>2 DEF SemaphoreTaken
  <2>3. CASE SemaphoreTimeout BY <1>1, <2>3 DEF SemaphoreTimeout
  <2>4. CASE NothingToCancel BY <1>1, <2>4 DEF NothingToCancel
  <2>5. CASE CancelAllOperations BY <1>1, <2>5 DEF CancelAllOperations, InQueue, Running
  <2>6. CASE SubTasksFinished BY <1>1, <2>6 DEF SubTasksFinished
  <2> QED BY <1>1, <2>1, <2>2, <2>3, <2>4, <2>5, <2>6 DEF ContainerStep
<1>2. CASE CallerStep /\ UNCHANGED contact
  BY <1>2 DEF CallerStep, Cancel, CancelProgress
<1>3. ASSUME NEW t \in AddTasks, QueueStep(t), UNCHANGED contact PROVE Reasons'
  <2>1. CASE Begin(t) BY <1>3, <2>1 DEF Begin
  <2>2. CASE Drop(t) BY <1>3, <2>2 DEF Drop
  <2>3. CASE Skip(t) BY <1>3, <2>3 DEF Skip
  <2>4. CASE Work(t) BY <1>3, <2>4 DEF Work
  <2>5. CASE TaskEnded(t) BY <1>3, <2>5 DEF TaskEnded, ShouldFinishOnTaskFinished
  <2> QED BY <1>3, <2>1, <2>2, <2>3, <2>4, <2>5 DEF QueueStep
<1>4. CASE Hook
  <2>1. /\ NextRollback \in Rollbacks /\ op[NextRollback] = "none"
        /\ \A t \in AddTasks : op'[t] = IF t = NextRollback THEN "queued" ELSE op[t]
    BY <1>4, NextFree DEF Hook, SubTasksCancelled
  <2> QED BY <1>4, <2>1 DEF Hook, SubTasksCancelled
<1>5. CASE SubMainEnds
  <2>1. CASE Prepare BY <2>1 DEF Prepare, Succeed, Fail, WorkEnds
  <2>2. CASE CertFetch BY <2>2 DEF CertFetch, Succeed, Fail, GiveUp, WorkEnds
  <2>3. CASE CertProcess BY <2>3 DEF CertProcess, Succeed, WorkEnds
  <2>4. CASE StoreSoap BY <2>4 DEF StoreSoap, Succeed, Fail, GiveUp, WorkEnds
  <2>5. CASE StoreLocally BY <2>5 DEF StoreLocally, Succeed, WorkEnds
  <2>6. CASE CheckPasses BY <2>6 DEF CheckPasses, Succeed, WorkEnds
  <2>7. CASE CheckSchedulesRollback
    <3>1. /\ NextRollback \in Rollbacks /\ op[NextRollback] = "none"
          /\ \A t \in AddTasks : op'[t] = IF t = "check" THEN "reporting"
                                        ELSE IF t = NextRollback THEN "queued" ELSE op[t]
      BY <2>7, NextFree DEF CheckSchedulesRollback, SucceedAdding, WorkEnds
    <3> QED BY <2>7, <3>1 DEF CheckSchedulesRollback, SucceedAdding, WorkEnds
  <2>8. ASSUME NEW r \in Rollbacks, Rollback(r) PROVE Reasons'
    BY <2>8 DEF Rollback, Succeed, WorkEnds, SoapTaskOf
  <2> QED BY <1>5, <2>1, <2>2, <2>3, <2>4, <2>5, <2>6, <2>7, <2>8 DEF SubMainEnds
<1>6. CASE UNCHANGED addVars BY <1>6 DEF addVars, vars
<1> QED BY <1>1, <1>2, <1>3, <1>4, <1>5, <1>6 DEF AddNext, Generic

LEMMA SchedulingStep == AddTypeOK /\ IInv /\ [AddNext]_addVars => Scheduling'
<1> SUFFICES ASSUME AddTypeOK, IInv, [AddNext]_addVars PROVE Scheduling'
  OBVIOUS
<1> USE TasksOf DEF AddTypeOK, TypeOK, container, state, contact, past,
      IInv, Scheduling, Checked, Cancelling, Ordering, Rollbacks
<1>1. CASE ContainerStep /\ UNCHANGED contact
  <2>1. CASE StartExecution BY <1>1, <2>1 DEF StartExecution
  <2>2. CASE SemaphoreTaken BY <1>1, <2>2 DEF SemaphoreTaken
  <2>3. CASE SemaphoreTimeout BY <1>1, <2>3 DEF SemaphoreTimeout
  <2>4. CASE NothingToCancel BY <1>1, <2>4 DEF NothingToCancel
  <2>5. CASE CancelAllOperations BY <1>1, <2>5 DEF CancelAllOperations, InQueue, Running
  <2>6. CASE SubTasksFinished BY <1>1, <2>6 DEF SubTasksFinished
  <2> QED BY <1>1, <2>1, <2>2, <2>3, <2>4, <2>5, <2>6 DEF ContainerStep
<1>2. CASE CallerStep /\ UNCHANGED contact
  BY <1>2 DEF CallerStep, Cancel, CancelProgress
<1>3. ASSUME NEW t \in AddTasks, QueueStep(t), UNCHANGED contact PROVE Scheduling'
  <2>1. CASE Begin(t) BY <1>3, <2>1 DEF Begin
  <2>2. CASE Drop(t) BY <1>3, <2>2 DEF Drop
  <2>3. CASE Skip(t) BY <1>3, <2>3 DEF Skip
  <2>4. CASE Work(t) BY <1>3, <2>4 DEF Work
  <2>5. CASE TaskEnded(t) BY <1>3, <2>5 DEF TaskEnded, ShouldFinishOnTaskFinished
  <2> QED BY <1>3, <2>1, <2>2, <2>3, <2>4, <2>5 DEF QueueStep
<1>4. CASE Hook
  BY <1>4 DEF Hook, SubTasksCancelled, NextRollback, LastOnceScheduled
<1>5. CASE SubMainEnds
  <2>1. CASE Prepare
    <3>1. ASSUME Succeed("prepare"), UNCHANGED contact PROVE Scheduling'
      BY RowBeforeCheck, <3>1 DEF Succeed, WorkEnds
    <3>2. ASSUME Fail("prepare"), UNCHANGED contact PROVE Scheduling'
      BY RowBeforeCheck, <3>2 DEF Fail, WorkEnds
    <3> QED BY <2>1, <3>1, <3>2 DEF Prepare
  <2>2. CASE CertFetch
    <3>1. ASSUME Succeed("certFetch"), UNCHANGED contact PROVE Scheduling'
      BY RowBeforeCheck, <3>1 DEF Succeed, WorkEnds
    <3>2. ASSUME Fail("certFetch"), UNCHANGED contact PROVE Scheduling'
      BY RowBeforeCheck, <3>2 DEF Fail, WorkEnds
    <3>3. ASSUME GiveUp("certFetch"), UNCHANGED contact PROVE Scheduling'
      BY RowBeforeCheck, <3>3 DEF GiveUp, WorkEnds
    <3> QED BY <2>2, <3>1, <3>2, <3>3 DEF CertFetch
  <2>3. CASE CertProcess BY <2>3 DEF CertProcess, Succeed, WorkEnds
  <2>4. CASE StoreSoap
    <3>1. ASSUME Succeed("storeSoap"), server' = TRUE, serverStored' = TRUE,
               UNCHANGED <<local, userStored, past>> PROVE Scheduling'
      BY RowBeforeCheck, <3>1 DEF Succeed, WorkEnds
    <3>2. ASSUME Fail("storeSoap"), server' \in BOOLEAN, serverStored' \in BOOLEAN,
               UNCHANGED <<local, userStored, past>> PROVE Scheduling'
      BY RowBeforeCheck, <3>2 DEF Fail, WorkEnds
    <3>3. ASSUME GiveUp("storeSoap"), server' \in BOOLEAN,
               UNCHANGED <<serverStored, local, userStored, past>> PROVE Scheduling'
      BY RowBeforeCheck, <3>3 DEF GiveUp, WorkEnds
    <3> QED BY <2>4, <3>1, <3>2, <3>3 DEF StoreSoap
  <2>5. CASE StoreLocally BY <2>5 DEF StoreLocally, Succeed, WorkEnds
  <2>6. CASE CheckPasses BY <2>6 DEF CheckPasses, Succeed, WorkEnds
  <2>7. CASE CheckSchedulesRollback
    BY <2>7 DEF CheckSchedulesRollback, SucceedAdding, WorkEnds, NextRollback, LastOnceScheduled
  <2>8. ASSUME NEW r \in Rollbacks, Rollback(r) PROVE Scheduling'
    BY <2>8 DEF Rollback, Succeed, WorkEnds, SoapTaskOf
  <2> QED BY <1>5, <2>1, <2>2, <2>3, <2>4, <2>5, <2>6, <2>7, <2>8 DEF SubMainEnds
<1>6. CASE UNCHANGED addVars BY <1>6 DEF addVars, vars
<1> QED BY <1>1, <1>2, <1>3, <1>4, <1>5, <1>6 DEF AddNext, Generic

LEMMA EndingStep == AddTypeOK /\ IInv /\ [AddNext]_addVars => Ending'
<1> SUFFICES ASSUME AddTypeOK, IInv, [AddNext]_addVars PROVE Ending'
  OBVIOUS
<1> USE TasksOf DEF AddTypeOK, TypeOK, container, state, contact, past,
      IInv, Ending, Scheduling, Checked, Cancelling, Ordering
<1>1. CASE ContainerStep /\ UNCHANGED contact
  <2>1. CASE StartExecution BY <1>1, <2>1 DEF StartExecution
  <2>2. CASE SemaphoreTaken BY <1>1, <2>2 DEF SemaphoreTaken
  <2>3. CASE SemaphoreTimeout BY <1>1, <2>3 DEF SemaphoreTimeout
  <2>4. CASE NothingToCancel BY <1>1, <2>4 DEF NothingToCancel
  <2>5. CASE CancelAllOperations BY <1>1, <2>5 DEF CancelAllOperations, InQueue, Running
  <2>6. CASE SubTasksFinished BY <1>1, <2>6 DEF SubTasksFinished
  <2> QED BY <1>1, <2>1, <2>2, <2>3, <2>4, <2>5, <2>6 DEF ContainerStep
<1>2. CASE CallerStep /\ UNCHANGED contact
  BY <1>2 DEF CallerStep, Cancel, CancelProgress
<1>3. ASSUME NEW t \in AddTasks, QueueStep(t), UNCHANGED contact PROVE Ending'
  <2>1. CASE Begin(t) BY <1>3, <2>1 DEF Begin
  <2>2. CASE Drop(t) BY <1>3, <2>2 DEF Drop
  <2>3. CASE Skip(t) BY <1>3, <2>3 DEF Skip
  <2>4. CASE Work(t) BY <1>3, <2>4 DEF Work
  <2>5. CASE TaskEnded(t) BY <1>3, <2>5 DEF TaskEnded, ShouldFinishOnTaskFinished
  <2> QED BY <1>3, <2>1, <2>2, <2>3, <2>4, <2>5 DEF QueueStep
<1>4. CASE Hook
  BY <1>4 DEF Hook, SubTasksCancelled, NextRollback, LastOnceScheduled
<1>5. CASE SubMainEnds
  <2>1. CASE Prepare
    <3>1. ASSUME Succeed("prepare"), UNCHANGED contact PROVE Ending'
      BY RowBeforeCheck, <3>1 DEF Succeed, WorkEnds
    <3>2. ASSUME Fail("prepare"), UNCHANGED contact PROVE Ending'
      BY RowBeforeCheck, <3>2 DEF Fail, WorkEnds
    <3> QED BY <2>1, <3>1, <3>2 DEF Prepare
  <2>2. CASE CertFetch
    <3>1. ASSUME Succeed("certFetch"), UNCHANGED contact PROVE Ending'
      BY RowBeforeCheck, <3>1 DEF Succeed, WorkEnds
    <3>2. ASSUME Fail("certFetch"), UNCHANGED contact PROVE Ending'
      BY RowBeforeCheck, <3>2 DEF Fail, WorkEnds
    <3>3. ASSUME GiveUp("certFetch"), UNCHANGED contact PROVE Ending'
      BY RowBeforeCheck, <3>3 DEF GiveUp, WorkEnds
    <3> QED BY <2>2, <3>1, <3>2, <3>3 DEF CertFetch
  <2>3. CASE CertProcess BY <2>3 DEF CertProcess, Succeed, WorkEnds
  <2>4. CASE StoreSoap
    <3>1. ASSUME Succeed("storeSoap"), server' = TRUE, serverStored' = TRUE,
               UNCHANGED <<local, userStored, past>> PROVE Ending'
      BY RowBeforeCheck, <3>1 DEF Succeed, WorkEnds
    <3>2. ASSUME Fail("storeSoap"), server' \in BOOLEAN, serverStored' \in BOOLEAN,
               UNCHANGED <<local, userStored, past>> PROVE Ending'
      BY RowBeforeCheck, <3>2 DEF Fail, WorkEnds
    <3>3. ASSUME GiveUp("storeSoap"), server' \in BOOLEAN,
               UNCHANGED <<serverStored, local, userStored, past>> PROVE Ending'
      BY RowBeforeCheck, <3>3 DEF GiveUp, WorkEnds
    <3> QED BY <2>4, <3>1, <3>2, <3>3 DEF StoreSoap
  <2>5. CASE StoreLocally BY <2>5 DEF StoreLocally, Succeed, WorkEnds
  <2>6. CASE CheckPasses BY <2>6 DEF CheckPasses, Succeed, WorkEnds
  <2>7. CASE CheckSchedulesRollback
    BY <2>7 DEF CheckSchedulesRollback, SucceedAdding, WorkEnds, NextRollback, LastOnceScheduled
  <2>8. ASSUME NEW r \in Rollbacks, Rollback(r) PROVE Ending'
    BY <2>8 DEF Rollback, Succeed, WorkEnds, SoapTaskOf
  <2> QED BY <1>5, <2>1, <2>2, <2>3, <2>4, <2>5, <2>6, <2>7, <2>8 DEF SubMainEnds
<1>6. CASE UNCHANGED addVars BY <1>6 DEF addVars, vars
<1> QED BY <1>1, <1>2, <1>3, <1>4, <1>5, <1>6 DEF AddNext, Generic

\* A subtask works on what those before it have done, not on what they left undone.
LEMMA StoresAfterPrepare ==
  ASSUME AddTypeOK, IInv, op["storeLocally"] = "started", ~ShouldCancel("storeLocally")
  PROVE  outcome["prepare"] = "ok"
<1>1. \A t \in AddTasks : op[t] = "done" /\ t \notin opCancelled => outcome[t] = "ok"
  BY TasksOf DEF AddTypeOK, TypeOK, IInv, Reasons, ShouldCancel
<1>2. ASSUME NEW t \in Row, NEW d \in Row, AddDeps[t] = {d}, t \notin opCancelled,
             op[t] \in {"started", "done"}
      PROVE  op[d] = "done" /\ d \notin opCancelled
  BY <1>2 DEF IInv, Chained
<1>3. op["storeSoap"] = "done" /\ "storeSoap" \notin opCancelled
  BY <1>2, TasksOf, DepsOf DEF ShouldCancel
<1>4. op["certProcess"] = "done" /\ "certProcess" \notin opCancelled
  BY <1>2, <1>3, TasksOf, DepsOf
<1>5. op["certFetch"] = "done" /\ "certFetch" \notin opCancelled
  BY <1>2, <1>4, TasksOf, DepsOf
<1>6. op["prepare"] = "done" /\ "prepare" \notin opCancelled
  BY <1>2, <1>5, TasksOf, DepsOf
<1> QED BY <1>1, <1>6, TasksOf

LEMMA EffectsStep == AddTypeOK /\ IInv /\ [AddNext]_addVars => Effects'
<1> SUFFICES ASSUME AddTypeOK, IInv, [AddNext]_addVars PROVE Effects'
  OBVIOUS
<1> USE TasksOf DEF AddTypeOK, TypeOK, container, state, contact, past,
      IInv, Effects, RolledBack, Reasons, Scheduling, Checked, Cancelling
<1>1. CASE ContainerStep /\ UNCHANGED contact
  <2>1. CASE StartExecution BY <1>1, <2>1 DEF StartExecution
  <2>2. CASE SemaphoreTaken BY <1>1, <2>2 DEF SemaphoreTaken
  <2>3. CASE SemaphoreTimeout BY <1>1, <2>3 DEF SemaphoreTimeout
  <2>4. CASE NothingToCancel BY <1>1, <2>4 DEF NothingToCancel
  <2>5. CASE CancelAllOperations BY <1>1, <2>5 DEF CancelAllOperations, InQueue, Running
  <2>6. CASE SubTasksFinished BY <1>1, <2>6 DEF SubTasksFinished
  <2> QED BY <1>1, <2>1, <2>2, <2>3, <2>4, <2>5, <2>6 DEF ContainerStep
<1>2. CASE CallerStep /\ UNCHANGED contact
  BY <1>2 DEF CallerStep, Cancel, CancelProgress
<1>3. ASSUME NEW t \in AddTasks, QueueStep(t), UNCHANGED contact PROVE Effects'
  <2>1. CASE Begin(t) BY <1>3, <2>1 DEF Begin
  <2>2. CASE Drop(t) BY <1>3, <2>2 DEF Drop
  <2>3. CASE Skip(t) BY <1>3, <2>3 DEF Skip
  <2>4. CASE Work(t)
    <3>1. CASE t = "storeLocally"
      <4>1. ~before BY <2>4, <3>1, StoresAfterPrepare DEF Work, Rollbacks
      <4> QED BY <1>3, <2>4, <4>1 DEF Work
    <3>2. CASE t # "storeLocally" BY <1>3, <2>4, <3>2 DEF Work
    <3> QED BY <3>1, <3>2
  <2>5. CASE TaskEnded(t) BY <1>3, <2>5 DEF TaskEnded, ShouldFinishOnTaskFinished
  <2> QED BY <1>3, <2>1, <2>2, <2>3, <2>4, <2>5 DEF QueueStep
<1>4. CASE Hook
  BY <1>4 DEF Hook, SubTasksCancelled, NextRollback, LastOnceScheduled
<1>5. CASE SubMainEnds
  <2>1. CASE Prepare BY <2>1 DEF Prepare, Succeed, Fail, WorkEnds
  <2>2. CASE CertFetch BY <2>2 DEF CertFetch, Succeed, Fail, GiveUp, WorkEnds
  <2>3. CASE CertProcess BY <2>3 DEF CertProcess, Succeed, WorkEnds
  <2>4. CASE StoreSoap BY <2>4 DEF StoreSoap, Succeed, Fail, GiveUp, WorkEnds
  <2>5. CASE StoreLocally BY <2>5 DEF StoreLocally, Succeed, WorkEnds
  <2>6. CASE CheckPasses BY <2>6 DEF CheckPasses, Succeed, WorkEnds
  <2>7. CASE CheckSchedulesRollback
    BY <2>7 DEF CheckSchedulesRollback, SucceedAdding, WorkEnds, NextRollback, LastOnceScheduled
  <2>8. ASSUME NEW r \in Rollbacks, Rollback(r) PROVE Effects'
    <3>1. op["storeLocally"] \in {"started", "working"} => noticed
      <4>1. op[r] # "none" BY <2>8 DEF Rollback, Succeed, WorkEnds
      <4> QED BY <4>1, StoredBefore, CheckIsLast, TasksOf DEF Checked
    <3> QED BY <2>8, <3>1 DEF Rollback, DeleteContact, Succeed, WorkEnds, SoapTaskOf
  <2> QED BY <1>5, <2>1, <2>2, <2>3, <2>4, <2>5, <2>6, <2>7, <2>8 DEF SubMainEnds
<1>6. CASE UNCHANGED addVars BY <1>6 DEF addVars, vars
<1> QED BY <1>1, <1>2, <1>3, <1>4, <1>5, <1>6 DEF AddNext, Generic

LEMMA RollbackStep == AddTypeOK /\ IInv /\ [AddNext]_addVars => RollbackHolds'
<1> SUFFICES ASSUME AddTypeOK, IInv, [AddNext]_addVars PROVE RollbackHolds'
  OBVIOUS
<1> USE TasksOf DEF AddTypeOK, TypeOK, container, state, contact, past,
      IInv, RollbackHolds, RolledBack, Effects, Cancelling, Ordering
<1>1. CASE ContainerStep /\ UNCHANGED contact
  <2>1. CASE StartExecution BY <1>1, <2>1 DEF StartExecution
  <2>2. CASE SemaphoreTaken BY <1>1, <2>2 DEF SemaphoreTaken
  <2>3. CASE SemaphoreTimeout BY <1>1, <2>3 DEF SemaphoreTimeout
  <2>4. CASE NothingToCancel BY <1>1, <2>4 DEF NothingToCancel
  <2>5. CASE CancelAllOperations BY <1>1, <2>5 DEF CancelAllOperations, InQueue, Running
  <2>6. CASE SubTasksFinished BY <1>1, <2>6 DEF SubTasksFinished
  <2> QED BY <1>1, <2>1, <2>2, <2>3, <2>4, <2>5, <2>6 DEF ContainerStep
<1>2. CASE CallerStep /\ UNCHANGED contact
  BY <1>2 DEF CallerStep, Cancel, CancelProgress
<1>3. ASSUME NEW t \in AddTasks, QueueStep(t), UNCHANGED contact PROVE RollbackHolds'
  <2>1. CASE Begin(t) BY <1>3, <2>1 DEF Begin
  <2>2. CASE Drop(t) BY <1>3, <2>2 DEF Drop
  <2>3. CASE Skip(t) BY <1>3, <2>3 DEF Skip
  <2>4. CASE Work(t) BY <1>3, <2>4 DEF Work
  <2>5. CASE TaskEnded(t) BY <1>3, <2>5 DEF TaskEnded, ShouldFinishOnTaskFinished
  <2> QED BY <1>3, <2>1, <2>2, <2>3, <2>4, <2>5 DEF QueueStep
<1>4. CASE Hook
  BY <1>4 DEF Hook, SubTasksCancelled, NextRollback, LastOnceScheduled
<1>5. CASE SubMainEnds
  <2>1. CASE Prepare BY <2>1 DEF Prepare, Succeed, Fail, WorkEnds
  <2>2. CASE CertFetch BY <2>2 DEF CertFetch, Succeed, Fail, GiveUp, WorkEnds
  <2>3. CASE CertProcess BY <2>3 DEF CertProcess, Succeed, WorkEnds
  <2>4. CASE StoreSoap BY <2>4 DEF StoreSoap, Succeed, Fail, GiveUp, WorkEnds
  <2>5. CASE StoreLocally BY <2>5 DEF StoreLocally, Succeed, WorkEnds
  <2>6. CASE CheckPasses BY <2>6 DEF CheckPasses, Succeed, WorkEnds
  <2>7. CASE CheckSchedulesRollback
    BY <2>7 DEF CheckSchedulesRollback, SucceedAdding, WorkEnds, NextRollback, LastOnceScheduled
  <2>8. ASSUME NEW r \in Rollbacks, Rollback(r) PROVE RollbackHolds'
    <3>1. op["storeLocally"] = "queued" => "storeLocally" \in opCancelled
      <4>1. op[r] # "none" BY <2>8 DEF Rollback, Succeed, WorkEnds
      <4> QED BY <4>1, StoredBefore
    <3> QED BY <2>8, <3>1 DEF Rollback, DeleteContact, Succeed, WorkEnds
  <2> QED BY <1>5, <2>1, <2>2, <2>3, <2>4, <2>5, <2>6, <2>7, <2>8 DEF SubMainEnds
<1>6. CASE UNCHANGED addVars BY <1>6 DEF addVars, vars
<1> QED BY <1>1, <1>2, <1>3, <1>4, <1>5, <1>6 DEF AddNext, Generic

LEMMA Inductive == AddTypeOK /\ IInv /\ [AddNext]_addVars => IInv'
BY OrderingStep, ChainedStep, CancellingStep, ReasonsStep, SchedulingStep, EndingStep, EffectsStep,
   RollbackStep DEF IInv

LEMMA Invariance == AddSpec => [](AddTypeOK /\ IInv)
BY InitType, InitInv, NextType, Inductive, PTL DEF AddSpec

\* How the wait ended, when it was not cancelled.
LEMMA EndsDone ==
  ASSUME AddTypeOK, IInv, pc = "ended", ~noticed
  PROVE  /\ Checked
         /\ result = IF failed THEN "error" ELSE "ok"
         /\ failed => RolledBack("rollback1")
         /\ ~failed => \A r \in Rollbacks : op[r] = "none"
<1>1. PICK t \in last : op[t] = "done" BY DEF IInv, Ending
<1>2. last = IF op["rollback1"] = "none" THEN {"check"} ELSE {"rollback1"}
  BY DEF IInv, Scheduling
<1>3. op["rollback1"] # "none" <=> Checked /\ failed BY DEF IInv, Scheduling
<1>4. Checked BY <1>1, <1>2, <1>3 DEF Checked
<1> QED BY <1>1, <1>2, <1>3, <1>4 DEF IInv, Scheduling, Ending, RolledBack, Rollbacks

(***************************************************************************)
(* An addition that nobody cancels and that says OK was new, is on the     *)
(* server and, if it could be inserted, in the database; one that reports  *)
(* an error leaves the database as it was, if its rollback could delete.   *)
(***************************************************************************)
THEOREM AllOrNothing == AddSpec => []AddedOrUntouched
<1>1. ASSUME AddTypeOK, IInv, pc = "ended", ~cancelled
      PROVE  /\ result = "ok" => ~before /\ server /\ (local \/ lost)
             /\ result = "error" => (local <=> before) \/ kept
  <2>1. ~noticed /\ opCancelled = {} /\ ~told BY <1>1 DEF IInv, Cancelling
  <2>2. CASE failed
    <3>1. RolledBack("rollback1") /\ result = "error" BY <1>1, <2>1, <2>2, EndsDone
    <3>2. ~overtook BY <1>1, <2>1 DEF IInv, Effects
    <3>3. local => before \/ kept BY <1>1, <3>1, <3>2, TasksOf DEF IInv, RollbackHolds
    <3>4. before => local BY <1>1 DEF IInv, Effects
    <3>5. (local <=> before) \/ kept BY <1>1, <3>3, <3>4 DEF AddTypeOK
    <3> QED BY <3>1, <3>5
  <2>3. CASE ~failed
    <3>1. Checked /\ result = "ok" /\ \A r \in Rollbacks : op[r] = "none"
      BY <1>1, <2>1, <2>3, EndsDone
    <3>2. op["storeLocally"] = "done" /\ op["storeSoap"] = "done" /\ op["prepare"] = "done"
      BY <1>1, <2>1, <3>1, CheckIsLast, TasksOf DEF Checked, IInv, Row
    <3>3. ~stopped BY <1>1, <2>3 DEF IInv, Reasons
    <3>4. \A t \in AddTasks : op[t] = "done" => outcome[t] = "ok"
      BY <1>1, <2>1, <2>3, <3>3 DEF IInv, Reasons, AddTypeOK, TypeOK
    <3>5. /\ outcome["storeLocally"] = "ok" /\ outcome["storeSoap"] = "ok"
          /\ outcome["prepare"] = "ok"
      BY <3>2, <3>4, TasksOf
    <3>6. ~before /\ server /\ (local \/ lost)
      BY <1>1, <3>1, <3>5, TasksOf DEF IInv, Effects, RolledBack
    <3> QED BY <3>1, <3>6
  <2> QED BY <2>2, <2>3
<1>2. AddTypeOK /\ IInv => AddedOrUntouched
  BY <1>1 DEF AddedOrUntouched, Quiet
<1> QED BY <1>2, Invariance, PTL

(***************************************************************************)
(* A cancelled or failed addition leaves the database as it found it,      *)
(* unless a rollback overtook the subtask that stores the contact or could *)
(* not delete it.                                                          *)
(***************************************************************************)
THEOREM NoneLeft == AddSpec => []LocalRolledBack
<1>1. ASSUME AddTypeOK, IInv, Quiet, result \in {"cancelled", "error"}, ~overtook, ~kept
      PROVE  local <=> before
  <2>1. \E r \in Rollbacks : RolledBack(r)
    <3>1. CASE noticed
      <4>1. PICK r \in Rollbacks : op[r] # "none" /\ r \notin opCancelled
        BY <1>1, <3>1 DEF IInv, Scheduling, Quiet
      <4>2. op[r] \notin {"queued", "started", "working", "reporting", "dropped"}
        BY <1>1, <4>1, TasksOf DEF Quiet, InQueue, Running, IInv, Cancelling
      <4>3. op[r] = "done" BY <1>1, <4>1, <4>2, TasksOf DEF AddTypeOK, TypeOK
      <4> QED BY <4>3 DEF RolledBack
    <3>2. CASE ~noticed
      <4>1. failed BY <1>1, <3>2, EndsDone DEF Quiet
      <4> QED BY <1>1, <3>2, <4>1, EndsDone, TasksOf DEF Quiet
    <3> QED BY <3>1, <3>2
  <2>2. local => before BY <1>1, <2>1 DEF IInv, RollbackHolds
  <2>3. before => local BY <1>1 DEF IInv, Effects
  <2> QED BY <2>2, <2>3
<1>2. AddTypeOK /\ IInv => LocalRolledBack
  BY <1>1 DEF LocalRolledBack
<1> QED BY <1>2, Invariance, PTL
=============================================================================
