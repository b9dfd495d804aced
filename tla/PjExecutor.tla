----------------------------- MODULE PjExecutor -----------------------------
(***************************************************************************)
(* PEXPjExecutor and the part of PEXPjManager that creates, uses and tears *)
(* down executors: every call of the SIP stack is a job for a thread.      *)
(*                                                                         *)
(* Threads: those that call pjExecName, one call each here, and the        *)
(* threads of the executors.  A call creates at most one executor and      *)
(* starts at most one thread: both bear the name of the call.              *)
(***************************************************************************)
EXTENDS Naturals, Sequences, FiniteSets

CONSTANTS
  Calls,     \* calls of pjExecName
  Kind,      \* what the job of a call does
  Async,     \* calls that do not wait for their job
  After,     \* the calls a call is made after, on one thread
  Nested,    \* the errorDestroy of a startStack that may fail, called by its job
  none

ASSUME CallsAssumption ==
  /\ none \notin Calls
  /\ Kind \in [Calls -> {"work", "startStack", "errorDestroy", "cleanDestroy"}]
  /\ Async \subseteq {c \in Calls : Kind[c] = "work"}
  /\ After \in [Calls -> SUBSET Calls]
  /\ Nested \in [Calls -> Calls \cup {none}]

VARIABLES
  executor,  \* _executor of the manager
  running,   \* executors with _pjThreadRunning set
  ready,     \* executors with a queue and a condition
  jobQueue,  \* _jobQueue of each executor
  pc,        \* the thread of each call
  target,    \* the executor a call works on
  thread,    \* the threads of the executors
  home,      \* the executor of a thread
  job,       \* what a thread has popped
  created,   \* created of the manager
  up,        \* the stack exists
  started,   \* history: jobs that were executed
  raced      \* history: two calls created or started executors at once

call == <<pc, target>>
pool == <<executor, running, ready, jobQueue>>
work == <<thread, home, job>>
sip  == <<created, up>>
vars == <<pool, call, work, sip, started, raced>>

Init ==
  /\ executor = none /\ running = {} /\ ready = {}
  /\ jobQueue = [e \in Calls |-> <<>>]
  /\ pc = [c \in Calls |-> "idle"]
  /\ target = [c \in Calls |-> none]
  /\ thread = [t \in Calls |-> "none"]
  /\ home = [t \in Calls |-> none]
  /\ job = [t \in Calls |-> none]
  /\ created = FALSE /\ up = FALSE
  /\ started = {} /\ raced = FALSE

Moves(c, from, to) == pc[c] = from /\ pc' = [pc EXCEPT ![c] = to]

(***************************************************************************)
(* pjExecName: _executor is read anew by each statement, without a lock.   *)
(***************************************************************************)

Returned == {c \in Calls : pc[c] \in {"done", "refused"}}

\* A startStack that failed calls errorDestroy on the executor's thread.
MayBegin(c) ==
  /\ After[c] \subseteq Returned
  /\ \A s \in Calls : Nested[s] = c =>
       \E t \in Calls : thread[t] = "failed" /\ job[t] = s

\* _executor == nil
Lookup(c) ==
  /\ MayBegin(c)
  /\ Moves(c, "idle", IF executor = none THEN "create" ELSE "check")
  /\ UNCHANGED <<pool, target, work, sip, started, raced>>

\* _executor = [[PEXPjExecutor alloc] init]
Create(c) ==
  /\ Moves(c, "create", "check")
  /\ executor' = c
  /\ raced' = (raced \/ executor # none)
  /\ UNCHANGED <<running, ready, jobQueue, target, work, sip, started>>

\* [_executor isRunning]
Check(c) ==
  /\ Moves(c, "check", IF executor \in running THEN "add" ELSE "start")
  /\ UNCHANGED <<pool, target, work, sip, started, raced>>

\* startExecutor of nil does nothing.
StartNil(c) ==
  /\ executor = none /\ Moves(c, "start", "add")
  /\ UNCHANGED <<pool, target, work, sip, started, raced>>

\* Mutant: the guard of Start is dropped.
StartUnguarded(c) ==
  /\ Moves(c, "start", "starting")
  /\ target' = [target EXCEPT ![c] = executor]
  /\ running' = running \cup {executor}
  /\ raced' = (raced \/ executor \in running \cup ready)
  /\ UNCHANGED <<executor, ready, jobQueue, work, sip, started>>

\* startExecutor: the flag comes first.
Start(c) ==
  /\ executor # none /\ Moves(c, "start", "starting")
  /\ target' = [target EXCEPT ![c] = executor]
  /\ running' = running \cup {executor}
  /\ raced' = (raced \/ executor \in running \cup ready)
  /\ UNCHANGED <<executor, ready, jobQueue, work, sip, started>>

\* A new queue, a new condition and a new thread, whatever was there before.
StartThread(c) ==
  /\ Moves(c, "starting", "add")
  /\ ready' = ready \cup {target[c]}
  /\ jobQueue' = [jobQueue EXCEPT ![target[c]] = <<>>]
  /\ thread' = [thread EXCEPT ![c] = "loop"]
  /\ home' = [home EXCEPT ![c] = target[c]]
  /\ UNCHANGED <<executor, running, target, job, sip, started, raced>>

(***************************************************************************)
(* addJobAsync.                                                            *)
(***************************************************************************)

\* No executor, or one that does not run: the block is never executed.
Refuse(c) ==
  /\ executor \notin running /\ Moves(c, "add", "refused")
  /\ UNCHANGED <<pool, target, work, sip, started, raced>>

Accept(c) ==
  /\ executor \in running /\ Moves(c, "add", "push")
  /\ target' = [target EXCEPT ![c] = executor]
  /\ UNCHANGED <<pool, work, sip, started, raced>>

\* Mutant: an asynchronous job is put before those that wait.
PushFront(c) ==
  /\ Moves(c, "push", IF c \in Async THEN "done" ELSE "wait")
  /\ jobQueue' = IF target[c] \in ready
                   THEN [jobQueue EXCEPT ![target[c]] = <<c>> \o @] ELSE jobQueue
  /\ raced' = (raced \/ target[c] \notin ready)
  /\ UNCHANGED <<executor, running, ready, target, work, sip, started>>

\* Under the lock of the condition; a push to a queue not yet created is lost.
Push(c) ==
  /\ Moves(c, "push", IF c \in Async THEN "done" ELSE "wait")
  /\ jobQueue' = IF target[c] \in ready
                   THEN [jobQueue EXCEPT ![target[c]] = Append(@, c)] ELSE jobQueue
  /\ raced' = (raced \/ target[c] \notin ready)
  /\ UNCHANGED <<executor, running, ready, target, work, sip, started>>

(***************************************************************************)
(* pjThreadMain.                                                           *)
(***************************************************************************)

Runs(t) == home[t] \in running

Quit(t) ==
  /\ thread[t] = "loop" /\ ~Runs(t)
  /\ thread' = [thread EXCEPT ![t] = "ended"]
  /\ UNCHANGED <<pool, call, home, job, sip, started, raced>>

\* Mutant: a thread without a job ends.
QuitWhenEmpty(t) ==
  /\ thread[t] = "loop" /\ Runs(t) /\ jobQueue[home[t]] = <<>>
  /\ thread' = [thread EXCEPT ![t] = "ended"]
  /\ UNCHANGED <<pool, call, home, job, sip, started, raced>>

\* The condition is waited for at most 3 seconds.
WaitForJob(t) ==
  /\ thread[t] = "loop" /\ Runs(t) /\ jobQueue[home[t]] = <<>>
  /\ thread' = [thread EXCEPT ![t] = "waiting"]
  /\ UNCHANGED <<pool, call, home, job, sip, started, raced>>

PopFront(t) ==
  LET q == jobQueue[home[t]] IN
  /\ \/ thread[t] = "loop" /\ Runs(t)
     \/ thread[t] = "waiting"
  /\ q # <<>>
  /\ thread' = [thread EXCEPT ![t] = "popped"]
  /\ job' = [job EXCEPT ![t] = Head(q)]
  /\ jobQueue' = [jobQueue EXCEPT ![home[t]] = Tail(q)]
  /\ UNCHANGED <<executor, running, ready, call, home, sip, started, raced>>

\* The wait timed out, popFront returns nil; both checks of the flag are one.
NoJob(t) ==
  /\ thread[t] = "waiting" /\ jobQueue[home[t]] = <<>>
  /\ thread' = [thread EXCEPT ![t] = "loop"]
  /\ UNCHANGED <<pool, call, home, job, sip, started, raced>>

\* "If signaling ended with command to quit": the job popped is dropped.
QuitSignaled(t) ==
  /\ thread[t] = "popped" /\ ~Runs(t)
  /\ thread' = [thread EXCEPT ![t] = "ended"]
  /\ job' = [job EXCEPT ![t] = none]
  /\ UNCHANGED <<pool, call, home, sip, started, raced>>

Execute(t) ==
  /\ thread[t] = "popped" /\ Runs(t)
  /\ thread' = [thread EXCEPT ![t] = "executing"]
  /\ started' = started \cup {job[t]}
  /\ UNCHANGED <<pool, call, home, job, sip, raced>>

\* Mutant: a block that was executed does not signal the semaphore.
FinishSilently(t, from) ==
  /\ thread[t] = from
  /\ thread' = [thread EXCEPT ![t] = "loop"]
  /\ job' = [job EXCEPT ![t] = none]
  /\ UNCHANGED <<pc, pool, target, home, started, raced>>

\* The block is left: the semaphore is signalled.
Finish(t, from) ==
  /\ thread[t] = from
  /\ thread' = [thread EXCEPT ![t] = "loop"]
  /\ job' = [job EXCEPT ![t] = none]
  /\ pc' = [pc EXCEPT ![job[t]] = IF @ = "wait" THEN "done" ELSE @]
  /\ UNCHANGED <<pool, target, home, started, raced>>

JobOf(t, kind) == job[t] # none /\ Kind[job[t]] = kind

Work(t) == JobOf(t, "work") /\ Finish(t, "executing") /\ UNCHANGED sip

(***************************************************************************)
(* startStackInternal and cleanDestroyInternal, jobs like any other.       *)
(***************************************************************************)

\* pjsua_create to pjsua_acc_add
StackStarts(t) ==
  /\ thread[t] = "executing" /\ JobOf(t, "startStack")
  /\ thread' = [thread EXCEPT ![t] = "up"]
  /\ up' = TRUE
  /\ UNCHANGED <<pool, call, home, job, created, started, raced>>

StackStarted(t) == Finish(t, "up") /\ created' = TRUE /\ UNCHANGED up

StackFails(t) ==
  /\ thread[t] \in {"executing", "up"} /\ JobOf(t, "startStack")
  /\ Nested[job[t]] # none
  /\ thread' = [thread EXCEPT ![t] = "failed"]
  /\ UNCHANGED <<pool, call, home, job, sip, started, raced>>

\* errorDestroy waits for a job of its own; then startStack returns the error.
ErrorReturned(t) ==
  /\ thread[t] = "failed" /\ Nested[job[t]] \in Returned
  /\ Finish(t, "failed") /\ UNCHANGED sip

ErrorDestroy(t) ==
  JobOf(t, "errorDestroy") /\ Finish(t, "executing") /\ up' = FALSE /\ UNCHANGED created

NothingToDestroy(t) ==
  JobOf(t, "cleanDestroy") /\ ~created /\ Finish(t, "executing") /\ UNCHANGED sip

\* pjsua_destroy2
StackDown(t) ==
  /\ thread[t] = "executing" /\ JobOf(t, "cleanDestroy") /\ created
  /\ thread' = [thread EXCEPT ![t] = "down"]
  /\ up' = FALSE
  /\ UNCHANGED <<pool, call, home, job, created, started, raced>>

\* Mutant: the executor is forgotten before it is stopped.
StopNil(t) ==
  /\ thread[t] = "down"
  /\ thread' = [thread EXCEPT ![t] = "stopped"]
  /\ executor' = none
  /\ UNCHANGED <<running, ready, jobQueue, call, home, job, sip, started, raced>>

\* [_executor stopExecutor]
StopExecutor(t) ==
  /\ thread[t] = "down"
  /\ thread' = [thread EXCEPT ![t] = "stopped"]
  /\ running' = running \ {executor}
  /\ UNCHANGED <<executor, ready, jobQueue, call, home, job, sip, started, raced>>

\* _executor = nil
ForgetExecutor(t) ==
  /\ thread[t] = "stopped"
  /\ thread' = [thread EXCEPT ![t] = "forgotten"]
  /\ executor' = none
  /\ UNCHANGED <<running, ready, jobQueue, call, home, job, sip, started, raced>>

Destroyed(t) == Finish(t, "forgotten") /\ created' = FALSE /\ UNCHANGED up

-----------------------------------------------------------------------------

CallStep(c) ==
  \/ Lookup(c) \/ Create(c) \/ Check(c) \/ StartNil(c) \/ Start(c) \/ StartThread(c)
  \/ Refuse(c) \/ Accept(c) \/ Push(c)

LoopStep(t) ==
  \/ Quit(t) \/ WaitForJob(t) \/ PopFront(t) \/ QuitSignaled(t) \/ NoJob(t) \/ Execute(t)

BlockStep(t) ==
  \/ Work(t) \/ StackStarts(t) \/ StackStarted(t) \/ StackFails(t) \/ ErrorReturned(t)
  \/ ErrorDestroy(t) \/ NothingToDestroy(t) \/ StackDown(t) \/ StopExecutor(t)
  \/ ForgetExecutor(t) \/ Destroyed(t)

Next ==
  \/ \E c \in Calls : CallStep(c)
  \/ \E t \in Calls : LoopStep(t) \/ BlockStep(t)

Spec == Init /\ [][Next]_vars

\* Threads run, waiting for the condition times out, the functions of the stack
\* return. A thread that makes a call goes through with it.
FairSpec ==
  /\ Spec
  /\ \A c \in Calls : WF_vars(pc[c] # "idle" /\ CallStep(c))
  /\ \A c \in Calls : WF_vars(\E s \in Calls : Nested[s] = c /\ Lookup(c))
  /\ \A t \in Calls : WF_vars(LoopStep(t)) /\ WF_vars(BlockStep(t))

-----------------------------------------------------------------------------

\* Threads inside a block; cleanDestroy has given up its executor in Leaving.
Inside  == {t \in Calls : thread[t] \in {"executing", "up", "failed", "down"}}
Leaving == {t \in Calls : thread[t] \in {"stopped", "forgotten"}}

TypeOK ==
  /\ executor \in Calls \cup {none}
  /\ running \subseteq Calls /\ ready \subseteq Calls
  /\ jobQueue \in [Calls -> Seq(Calls)]
  /\ pc \in [Calls -> {"idle", "create", "check", "start", "starting", "add", "refused",
                       "push", "wait", "done"}]
  /\ target \in [Calls -> Calls \cup {none}]
  /\ thread \in [Calls -> {"none", "loop", "waiting", "popped", "executing", "up", "failed",
                           "down", "stopped", "forgotten", "ended"}]
  /\ home \in [Calls -> Calls \cup {none}]
  /\ job \in [Calls -> Calls \cup {none}]
  /\ created \in BOOLEAN /\ up \in BOOLEAN
  /\ started \subseteq Calls /\ raced \in BOOLEAN

\* Jobs are executed one at a time, as those of the stack must be, through any
\* number of executors, unless two calls created them at once. The block of
\* cleanDestroy counts until it has stopped its executor.
Serial == ~raced => Cardinality(Inside) <= 1

\* A call that returned without waiting, then another from the same thread:
\* their jobs are never executed in the other order.
InOrder ==
  [][\A d \in started : \A c \in After[d] : c \in started' /\ ~raced => c \in started]_vars

\* Who waits for a job that was begun waits for a thread inside of it, and who is
\* let go was so once it was executed: a signal is neither forgotten nor early.
WaitsForItsJob ==
  \A c \in Calls \ Async :
    /\ pc[c] = "wait" /\ c \in started => \E t \in Inside \cup Leaving : job[t] = c
    /\ pc[c] = "done" => c \in started /\ \A t \in Calls : job[t] # c

\* The job of a call that waits is in the hands of a living thread, or in the
\* queue of one, unless the executor was stopped behind the call's back or two
\* calls created executors at once: no wake-up and no job is lost otherwise.
NobodyForgotten ==
  ~raced => \A c \in Calls : (pc[c] = "wait" /\ target[c] \in running) =>
    \E t \in Calls : /\ home[t] = target[c] /\ thread[t] \notin {"none", "ended"}
                    /\ \/ job[t] = c
                       \/ \E i \in 1..Len(jobQueue[home[t]]) : jobQueue[home[t]][i] = c

\* What those who give jobs see of the executors: jobs in the queue of an executor
\* that runs, or popped by a thread of one; jobs under execution.
Given  == {c \in Calls : pc[c] \in {"wait", "done"}}
LetGo  == {c \in Calls \ Async : pc[c] = "done"}
Active == {job[t] : t \in Inside}
Pending ==
  {c \in Calls : \/ \E e \in running : \E i \in 1..Len(jobQueue[e]) : jobQueue[e][i] = c
                \/ \E t \in Calls : thread[t] = "popped" /\ Runs(t) /\ job[t] = c}

\* Whatever threads, teardowns and new executors do, who gives jobs sees one
\* queue: one job at a time, each once, in the order of its thread, and nobody
\* that waits is let go before; the last also after a race.
Jobs == INSTANCE SerialJobs WITH
  given <- Given, pending <- Pending, active <- Active, executed <- started,
  returned <- LetGo, broken <- raced
ImplementsSerialJobs == Jobs!Spec

\* PEXPjExecutor.m:94: "Maximum wait time in condition wait is x seconds so we
\* dont deadlock (soft deadlock)." A call that waits returns.
NoDeadlock == \A c \in Calls : (pc[c] = "wait") ~> (pc[c] = "done")

=============================================================================
