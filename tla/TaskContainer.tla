--------------------------- MODULE TaskContainer ---------------------------
(***************************************************************************)
(* PEXTaskContainer: one thread (the container) hands subtasks with        *)
(* dependencies to an NSOperationQueue, then waits on a semaphore that the *)
(* last subtask signals when it ends, polling meanwhile for cancellation.  *)
(*                                                                         *)
(* Threads: the container's own (startOnBackgroundThread), one per running *)
(* subtask, and the caller, who may cancel at any time.  The shared state  *)
(* of a client (errorOccurred, cancelDetected) is what the subtasks of     *)
(* PEXTaskBlock, PEXCertGenTask, PEXCListAddTask and the others have.      *)
(***************************************************************************)
EXTENDS Naturals

CONSTANTS
  Tasks,        \* all subtasks, the ones a hook may add later included
  Prepared,     \* those prepareSubTasks creates
  Deps,         \* addDependency: the subtasks a subtask waits for
  Last,         \* the one marked setIsLast
  RunAnyway,    \* the ones that run in spite of cancellation
  CustomFinish  \* the client overrides shouldFinishOnTaskFinished to NO

ASSUME TasksAssumption ==
  /\ Prepared \subseteq Tasks
  /\ Last \in Prepared
  /\ RunAnyway \subseteq Tasks
  /\ Deps \in [Tasks -> SUBSET Prepared]
  /\ CustomFinish \in BOOLEAN

\* Every client makes its last subtask depend, directly or not, on all others.
ASSUME LastAssumption ==
  \A S \in SUBSET Prepared :
    (Last \in S /\ \A t \in S : Deps[t] \subseteq S) => S = Prepared

VARIABLES
  pc,          \* the container's thread
  noticed,     \* alreadyCancelled of waitForSubTasks
  result,      \* state of finishedEvent
  cancelled,   \* shouldCancel of the container
  told,        \* the NSProgress of each prepared subtask is cancelled
  op,          \* the life of each subtask in the queue and in main
  opCancelled, \* isCancelled of the operations
  outcome,     \* how each subtask ended
  failed,      \* errorOccurred of the shared state
  stopped,     \* cancelDetected of the shared state
  last,        \* the subtasks with isLast set
  sem          \* _semFinished

container == <<pc, noticed, result>>
state     == <<failed, stopped>>
vars == <<container, cancelled, told, op, opCancelled, outcome, state, last, sem>>

Running  == {t \in Tasks : op[t] \in {"started", "working", "reporting"}}
Finished == {t \in Tasks : op[t] \in {"done", "dropped"}}
\* Operations in the queue: those an operation queue has not let go of.
InQueue  == {t \in Tasks : op[t] = "queued"} \cup Running

(***************************************************************************)
(* The container.                                                          *)
(***************************************************************************)

\* init, prepareForPerform: everything is created, nothing is in the queue.
Init ==
  /\ pc = "idle" /\ noticed = FALSE /\ result = "none"
  /\ cancelled = FALSE /\ told = FALSE
  /\ op = [t \in Tasks |-> "none"] /\ opCancelled = {}
  /\ outcome = [t \in Tasks |-> "none"]
  /\ failed = FALSE /\ stopped = FALSE
  /\ last = {Last} /\ sem = 0

\* startExecution: the queue is suspended while the subtasks are added.
StartExecution ==
  /\ pc = "idle" /\ pc' = "waiting"
  /\ op' = [t \in Tasks |-> IF t \in Prepared THEN "queued" ELSE op[t]]
  /\ UNCHANGED <<noticed, result, cancelled, told, opCancelled, outcome, state, last, sem>>

\* Mutant: the wait is left although nothing was signalled.
SemaphoreTakenUnchecked ==
  /\ pc = "waiting"
  /\ sem' = sem - 1 /\ pc' = "finishing"
  /\ UNCHANGED <<noticed, result, cancelled, told, op, opCancelled, outcome, state, last>>

\* dispatch_semaphore_wait returns 0: the loop is left.
SemaphoreTaken ==
  /\ pc = "waiting" /\ sem > 0
  /\ sem' = sem - 1 /\ pc' = "finishing"
  /\ UNCHANGED <<noticed, result, cancelled, told, op, opCancelled, outcome, state, last>>

\* dispatch_semaphore_wait times out: next comes the check for cancellation.
SemaphoreTimeout ==
  /\ pc = "waiting" /\ sem = 0
  /\ pc' = "checking"
  /\ UNCHANGED <<noticed, result, cancelled, told, op, opCancelled, outcome, state, last, sem>>

NothingToCancel ==
  /\ pc = "checking" /\ (noticed \/ ~cancelled)
  /\ pc' = "waiting"
  /\ UNCHANGED <<noticed, result, cancelled, told, op, opCancelled, outcome, state, last, sem>>

\* Mutant: only the operations that run are cancelled.
CancelRunningOperations ==
  /\ pc = "checking" /\ ~noticed /\ cancelled
  /\ noticed' = TRUE /\ pc' = "hook"
  /\ opCancelled' = opCancelled \cup Running
  /\ UNCHANGED <<result, cancelled, told, op, outcome, state, last, sem>>

\* cancelAllOperations on what is in the queue now, taken as one step.
CancelAllOperations ==
  /\ pc = "checking" /\ ~noticed /\ cancelled
  /\ noticed' = TRUE /\ pc' = "hook"
  /\ opCancelled' = opCancelled \cup InQueue
  /\ UNCHANGED <<result, cancelled, told, op, outcome, state, last, sem>>

\* subTasksCancelled, the hook; the container itself does nothing in it.
\* added: what a client puts into the queue, newLast: what is last then.
SubTasksCancelled(added, newLast) ==
  /\ pc = "hook" /\ pc' = "waiting"
  /\ op' = [t \in Tasks |-> IF t \in added THEN "queued" ELSE op[t]]
  /\ last' = newLast
  /\ UNCHANGED <<noticed, result, cancelled, told, opCancelled, outcome, state, sem>>

\* subTasksFinished and endedProtected: the state of the finished event.
SubTasksFinished ==
  /\ pc = "finishing" /\ pc' = "ended"
  /\ result' = IF noticed THEN "cancelled" ELSE IF failed THEN "error" ELSE "ok"
  /\ UNCHANGED <<noticed, cancelled, told, op, opCancelled, outcome, state, last, sem>>

(***************************************************************************)
(* The caller: cancel sets the container's flag; cancelling the progress   *)
(* reaches the container's and then those of the prepared subtasks, taken  *)
(* here as one step.  A caller that only sets the flag never gets there.   *)
(***************************************************************************)
Cancel ==
  /\ ~cancelled /\ pc # "ended"
  /\ cancelled' = TRUE
  /\ UNCHANGED <<container, told, op, opCancelled, outcome, state, last, sem>>

CancelProgress ==
  /\ cancelled /\ ~told
  /\ told' = TRUE
  /\ UNCHANGED <<container, cancelled, op, opCancelled, outcome, state, last, sem>>

(***************************************************************************)
(* The operation queue: runs a subtask when those it depends on have       *)
(* finished; one cancelled before it runs ignores its dependencies and     *)
(* finishes without running.                                               *)
(***************************************************************************)
Begin(t) ==
  /\ op[t] = "queued" /\ t \notin opCancelled
  /\ Deps[t] \subseteq Finished
  /\ op' = [op EXCEPT ![t] = "started"]
  /\ UNCHANGED <<container, cancelled, told, opCancelled, outcome, state, last, sem>>

Drop(t) ==
  /\ op[t] = "queued" /\ t \in opCancelled
  /\ op' = [op EXCEPT ![t] = "dropped"]
  /\ UNCHANGED <<container, cancelled, told, opCancelled, outcome, state, last, sem>>

(***************************************************************************)
(* PEXSubTask main.                                                        *)
(***************************************************************************)
ShouldCancel(t) == t \in opCancelled \/ (told /\ t \in Prepared) \/ failed \/ stopped

\* Mutant: a skipped subtask returns early and reports nothing.
SkipSilently(t) ==
  /\ op[t] = "started" /\ t \notin RunAnyway /\ ShouldCancel(t)
  /\ op' = [op EXCEPT ![t] = "done"]
  /\ outcome' = [outcome EXCEPT ![t] = "skipped"]
  /\ UNCHANGED <<container, cancelled, told, opCancelled, state, last, sem>>

Skip(t) ==
  /\ op[t] = "started" /\ t \notin RunAnyway /\ ShouldCancel(t)
  /\ op' = [op EXCEPT ![t] = "reporting"]
  /\ outcome' = [outcome EXCEPT ![t] = "skipped"]
  /\ UNCHANGED <<container, cancelled, told, opCancelled, state, last, sem>>

Work(t) ==
  /\ op[t] = "started" /\ (t \in RunAnyway \/ ~ShouldCancel(t))
  /\ op' = [op EXCEPT ![t] = "working"]
  /\ UNCHANGED <<container, cancelled, told, opCancelled, outcome, state, last, sem>>

\* subMain returns; it may have put other subtasks into the queue (added).
WorkEnds(t, how, added) ==
  /\ op[t] = "working"
  /\ op' = [u \in Tasks |-> IF u = t THEN "reporting"
                       ELSE IF u \in added THEN "queued" ELSE op[u]]
  /\ outcome' = [outcome EXCEPT ![t] = how]
  /\ UNCHANGED <<container, cancelled, told, opCancelled, sem>>

Succeed(t) == WorkEnds(t, "ok", {}) /\ UNCHANGED <<state, last>>

SucceedAdding(t, added, newLast) ==
  WorkEnds(t, "ok", added) /\ last' = newLast /\ UNCHANGED state

\* Mutant: the error stays with the subtask, the shared state is not told.
FailAlone(t) == WorkEnds(t, "error", {}) /\ UNCHANGED <<state, last>>

\* subError
Fail(t) ==
  /\ WorkEnds(t, "error", {})
  /\ failed' = TRUE /\ UNCHANGED <<stopped, last>>

\* A subtask asks shouldCancel in the middle of its work, then subCancel.
GiveUp(t) ==
  /\ ShouldCancel(t) /\ WorkEnds(t, "cancelled", {})
  /\ stopped' = TRUE /\ UNCHANGED <<failed, last>>

\* Mutant: any subtask that ends ends the wait.
ShouldFinishAlways == ~CustomFinish

\* Mutant: a cancelled container waits for its last subtask nevertheless.
ShouldFinishNever == FALSE

ShouldFinishOnTaskFinished == ~CustomFinish /\ cancelled

\* taskEnded of the container, called by the subtask; then the operation ends.
TaskEnded(t) ==
  /\ op[t] = "reporting"
  /\ op' = [op EXCEPT ![t] = "done"]
  /\ sem' = IF t \in last \/ ShouldFinishOnTaskFinished THEN sem + 1 ELSE sem
  /\ UNCHANGED <<container, cancelled, told, opCancelled, outcome, state, last>>

-----------------------------------------------------------------------------

ContainerStep ==
  \/ StartExecution \/ SemaphoreTaken \/ SemaphoreTimeout \/ NothingToCancel
  \/ CancelAllOperations \/ SubTasksFinished

SubTaskEnds(t) == Succeed(t) \/ Fail(t) \/ GiveUp(t)

QueueStep(t) == Begin(t) \/ Drop(t) \/ Skip(t) \/ Work(t) \/ TaskEnded(t)

CallerStep == Cancel \/ CancelProgress

Next ==
  \/ ContainerStep \/ SubTasksCancelled({}, last) \/ CallerStep
  \/ \E t \in Tasks : QueueStep(t) \/ SubTaskEnds(t)

Spec == Init /\ [][Next]_vars

\* Threads run: the container polls, the queue executes what may run, and
\* the work of a subtask ends (network calls have timeouts).
ContainerFairness == WF_vars(ContainerStep \/ SubTasksCancelled({}, last))
QueueFairness == \A t \in Tasks : WF_vars(QueueStep(t)) /\ WF_vars(SubTaskEnds(t))

FairSpec == Spec /\ ContainerFairness /\ QueueFairness

-----------------------------------------------------------------------------

TypeOK ==
  /\ pc \in {"idle", "waiting", "checking", "hook", "finishing", "ended"}
  /\ noticed \in BOOLEAN
  /\ result \in {"none", "ok", "error", "cancelled"}
  /\ cancelled \in BOOLEAN
  /\ told \in BOOLEAN
  /\ op \in [Tasks -> {"none", "queued", "started", "working", "reporting", "done", "dropped"}]
  /\ opCancelled \in SUBSET Tasks
  /\ outcome \in [Tasks -> {"none", "ok", "skipped", "error", "cancelled"}]
  /\ failed \in BOOLEAN /\ stopped \in BOOLEAN
  /\ last \in SUBSET Tasks
  /\ sem \in Nat

\* A container nobody cancelled reports success only when each of its subtasks
\* has run and did its work: PEXTaskContainer.m:337-386 with subTasksFinished.
OkMeansAllDone ==
  (result = "ok" /\ ~cancelled) => \A t \in Prepared : op[t] = "done" /\ outcome[t] = "ok"

\* A subtask never works on what a failed or cancelled subtask left behind:
\* the failure is in the shared state before the operation ends, so that
\* whatever depends on it, directly or through subtasks that were skipped for
\* it, sees it at its start.
NoWorkAfterFailure ==
  \A t \in Tasks \ RunAnyway : op[t] = "working" =>
    \A d \in Deps[t] : /\ outcome[d] \notin {"error", "cancelled"}
                       /\ outcome[d] = "skipped" => cancelled

\* Once the queue is cancelled no subtask begins to work, except those meant to
\* run anyway, however many were waiting for others.
CancelIsFinal ==
  [][\A t \in Tasks : (noticed /\ op'[t] = "working" /\ op[t] # "working")
       => t \in RunAnyway]_vars

\* A container nobody cancels ends, whatever subtask fails.
EndsUncancelled == (pc = "waiting") ~> (pc = "ended" \/ cancelled)

\* A cancelled container ends if some subtask is running when it is cancelled.
EndsIfSomeoneRuns ==
  (cancelled /\ pc # "idle" /\ Running # {}) ~> (pc = "ended")

=============================================================================
