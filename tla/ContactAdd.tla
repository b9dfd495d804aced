---------------------------- MODULE ContactAdd ----------------------------
(***************************************************************************)
(* PEXCListAddTask on the task container: a contact is added on the server *)
(* and then locally; on an error or a cancellation a rollback subtask is   *)
(* scheduled, by the check that runs last or by the container's hook.      *)
(***************************************************************************)
EXTENDS Naturals

Row       == {"prepare", "certFetch", "certProcess", "storeSoap", "storeLocally", "check"}
\* scheduleRollbackTask may run twice, each time with a subtask of its own.
Rollbacks == {"rollback1", "rollback2"}
AddTasks  == Row \cup Rollbacks

AddDeps == [t \in AddTasks |->
  CASE t = "prepare"      -> {}
    [] t = "certFetch"    -> {"prepare"}
    [] t = "certProcess"  -> {"certFetch"}
    [] t = "storeSoap"    -> {"certProcess"}
    [] t = "storeLocally" -> {"storeSoap"}
    [] t = "check"        -> {"storeLocally"}
    [] t \in Rollbacks    -> {"check"}]

VARIABLES pc, noticed, result, cancelled, told, op, opCancelled, outcome,
          failed, stopped, last, sem

INSTANCE TaskContainer WITH
  Tasks <- AddTasks, Prepared <- Row, Deps <- AddDeps, Last <- "check",
  RunAnyway <- {"check"} \cup Rollbacks, CustomFinish <- TRUE

VARIABLES
  server,        \* the server has the contact
  local,         \* the database has it
  serverStored,  \* userServerStored of the shared state
  userStored,    \* userStored of the shared state
  before,        \* history: the database had the contact before the addition
  lost,          \* history: the contact could not be inserted
  kept,          \* history: a rollback could not delete it
  overtook       \* history: a rollback ended while the contact was being stored

past == <<before, lost, kept, overtook>>
contact == <<server, local, serverStored, userStored, past>>
addVars == <<vars, contact>>

\* The user may add whom the database or the server has already.
AddInit ==
  /\ Init
  /\ server \in BOOLEAN /\ local \in BOOLEAN
  /\ serverStored = FALSE /\ userStored = FALSE
  /\ before = local /\ lost = FALSE /\ kept = FALSE /\ overtook = FALSE

(***************************************************************************)
(* The work of the subtasks.                                               *)
(***************************************************************************)

\* PEXClistAddErrorUserAlreadyAdded
Prepare ==
  /\ \/ local /\ Fail("prepare")
     \/ ~local /\ Succeed("prepare")
  /\ UNCHANGED contact

CertFetch ==
  /\ \/ Succeed("certFetch") /\ ~ShouldCancel("certFetch")
     \/ Fail("certFetch") /\ ~ShouldCancel("certFetch")
     \/ GiveUp("certFetch")
  /\ UNCHANGED contact

CertProcess == Succeed("certProcess") /\ UNCHANGED contact

StoreSoap ==
  /\ \/ \* accepted
        /\ Succeed("storeSoap") /\ ~ShouldCancel("storeSoap")
        /\ server' = TRUE /\ serverStored' = TRUE
     \/ \* refused: the code goes on after subError
        /\ Fail("storeSoap") /\ ~ShouldCancel("storeSoap")
        /\ serverStored' = TRUE /\ UNCHANGED server
     \/ \* no answer, whether or not the request arrived
        /\ Fail("storeSoap") /\ ~ShouldCancel("storeSoap")
        /\ server' \in BOOLEAN /\ UNCHANGED serverStored
     \/ /\ GiveUp("storeSoap")
        /\ server' \in BOOLEAN /\ UNCHANGED serverStored
  /\ UNCHANGED <<local, userStored, past>>

\* Mutant: the contact is stored but the state does not say so.
StoreLocallyUnmarked ==
  /\ Succeed("storeLocally")
  /\ local' = TRUE
  /\ UNCHANGED <<server, serverStored, userStored, past>>

\* The subtask succeeds whether or not the contact could be inserted: the result
\* of insert is not tested, and its exception is caught before userStored is set.
StoreLocally ==
  /\ Succeed("storeLocally")
  /\ \/ local' = TRUE /\ userStored' = TRUE /\ UNCHANGED lost
     \/ userStored' \in BOOLEAN /\ lost' = TRUE /\ UNCHANGED local
  /\ UNCHANGED <<server, serverStored, before, kept, overtook>>

\* scheduleRollbackTask
NextRollback == IF op["rollback1"] = "none" THEN "rollback1" ELSE "rollback2"
LastOnceScheduled == (last \ {"check"}) \cup {NextRollback}

CheckPasses == ~failed /\ Succeed("check") /\ UNCHANGED contact

CheckSchedulesRollback ==
  /\ failed /\ SucceedAdding("check", {NextRollback}, LastOnceScheduled)
  /\ UNCHANGED contact

\* The soap subtask is created in prepareProgress, which only prepareForPerform
\* calls; a rollback is scheduled later and sends its request to nil.
SoapTaskOf(t) == t \in Row

\* The deletion from the database, whose result is not tested either.
DeleteContact ==
  \/ ~userStored /\ UNCHANGED <<local, userStored, kept>>
  \/ userStored /\ local' = FALSE /\ userStored' = FALSE /\ UNCHANGED kept
  \/ userStored /\ userStored' \in BOOLEAN /\ kept' = TRUE /\ UNCHANGED local

Rollback(r) ==
  /\ Succeed(r)
  /\ DeleteContact
  /\ server' = IF serverStored /\ SoapTaskOf(r) THEN FALSE ELSE server
  /\ overtook' = (overtook \/ op["storeLocally"] \in {"started", "working"})
  /\ UNCHANGED <<serverStored, before, lost>>

SubMainEnds ==
  \/ Prepare \/ CertFetch \/ CertProcess \/ StoreSoap \/ StoreLocally
  \/ CheckPasses \/ CheckSchedulesRollback
  \/ \E r \in Rollbacks : Rollback(r)

-----------------------------------------------------------------------------

\* Mutant: nothing is scheduled when the queue was cancelled.
HookForgotten == SubTasksCancelled({}, last) /\ UNCHANGED contact

\* subTasksCancelled
Hook == SubTasksCancelled({NextRollback}, LastOnceScheduled) /\ UNCHANGED contact

Generic ==
  /\ ContainerStep \/ CallerStep \/ \E t \in AddTasks : QueueStep(t)
  /\ UNCHANGED contact

AddNext == Generic \/ Hook \/ SubMainEnds

AddSpec == AddInit /\ [][AddNext]_addVars

AddFairness ==
  /\ WF_addVars((ContainerStep /\ UNCHANGED contact) \/ Hook)
  /\ \A t \in AddTasks : WF_addVars(QueueStep(t) /\ UNCHANGED contact)
  /\ WF_addVars(SubMainEnds)

AddFairSpec == AddSpec /\ AddFairness

-----------------------------------------------------------------------------

Quiet == pc = "ended" /\ InQueue = {}

\* An addition nobody cancels tells what it did. Success: the contact is new and
\* on the server, and in the database if it could be inserted at all. An error:
\* the database has the contact if and only if it had it before, as long as a
\* contact to be rolled back could be deleted.
AddedOrUntouched ==
  (Quiet /\ ~cancelled) =>
    /\ result = "ok" => ~before /\ server /\ (local \/ lost)
    /\ result = "error" => (local <=> before) \/ kept

\* A cancelled or failed addition leaves the database as it found it: without the
\* contact it added, and with the one that was there before. Excluded are rollbacks
\* that ran while the contact was still being stored, and failed deletions.
LocalRolledBack ==
  (Quiet /\ result \in {"cancelled", "error"} /\ ~overtook /\ ~kept) => (local <=> before)

\* Whenever it is cancelled, the task ends: a subtask that runs anyway is last.
AddEnds == (pc = "waiting") ~> (pc = "ended")

\* PEXContactAddTask.m:167: "Signalize successful user add.", for each OK.
OkMeansAdded == (Quiet /\ result = "ok") => local
=============================================================================
