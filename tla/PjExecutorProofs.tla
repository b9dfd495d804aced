-------------------------- MODULE PjExecutorProofs --------------------------
(***************************************************************************)
(* Theorems of PjExecutor, for any number and kinds of calls.              *)
(***************************************************************************)
EXTENDS PjExecutor, FiniteSetTheorems, TLAPS

Holding == {"popped", "executing", "up", "failed", "down", "stopped", "forgotten"}

\* A call has not started a thread yet.
Before == {"idle", "create", "check", "start", "starting"}

\* What a thread or a call refers to exists.
Placed ==
  /\ \A t \in Calls : thread[t] # "none" => home[t] \in ready
  /\ \A c \in Calls : pc[c] \in Before => thread[c] = "none"
  /\ \A c \in Calls : pc[c] \in {"starting", "push", "wait"} => target[c] \in Calls
  /\ \A t \in Calls : job[t] # none <=> thread[t] \in Holding

TypeInv == TypeOK /\ Placed

LEMMA InitType == Init => TypeInv
<1> SUFFICES ASSUME Init PROVE TypeInv
  OBVIOUS
<1>1. TypeOK
  <2>1. <<>> \in Seq(Calls) OBVIOUS
  <2> QED BY <2>1 DEF Init, TypeOK
<1>2. Placed BY DEF Init, Placed, Holding, Before
<1> QED BY <1>1, <1>2 DEF TypeInv

LEMMA NextType == TypeInv /\ [Next]_vars => TypeInv'
<1> SUFFICES ASSUME TypeInv, [Next]_vars PROVE TypeInv'
  OBVIOUS
<1> USE CallsAssumption DEF TypeInv, TypeOK, Placed, Holding, Before, Moves, pool, call, work, sip
<1>1. ASSUME NEW c \in Calls, CallStep(c) PROVE TypeInv'
  <2>1. CASE Lookup(c) BY <2>1 DEF Lookup
  <2>2. CASE Create(c) BY <2>2 DEF Create
  <2>3. CASE Check(c) BY <2>3 DEF Check
  <2>4. CASE StartNil(c) BY <2>4 DEF StartNil
  <2>5. CASE Start(c) BY <2>5 DEF Start
  <2>6. CASE StartThread(c)
    <3>1. TypeOK'
      <4>1. <<>> \in Seq(Calls) /\ target[c] \in Calls BY <2>6 DEF StartThread
      <4>2. jobQueue' \in [Calls -> Seq(Calls)] BY <4>1, <2>6 DEF StartThread
      <4> QED BY <4>1, <4>2, <2>6 DEF StartThread
    <3>2. Placed' BY <2>6 DEF StartThread
    <3> QED BY <3>1, <3>2
  <2>7. CASE Refuse(c) BY <2>7 DEF Refuse
  <2>8. CASE Accept(c) BY <2>8 DEF Accept
  <2>9. CASE Push(c) BY <2>9 DEF Push
  <2> QED BY <1>1, <2>1, <2>2, <2>3, <2>4, <2>5, <2>6, <2>7, <2>8, <2>9 DEF CallStep
<1>2. ASSUME NEW t \in Calls, LoopStep(t) PROVE TypeInv'
  <2>1. CASE Quit(t) BY <2>1 DEF Quit, Runs
  <2>2. CASE WaitForJob(t) BY <2>2 DEF WaitForJob, Runs
  <2>3. CASE PopFront(t) BY <2>3 DEF PopFront, Runs
  <2>4. CASE NoJob(t) BY <2>4 DEF NoJob
  <2>5. CASE QuitSignaled(t) BY <2>5 DEF QuitSignaled, Runs
  <2>6. CASE Execute(t) BY <2>6 DEF Execute, Runs
  <2> QED BY <1>2, <2>1, <2>2, <2>3, <2>4, <2>5, <2>6 DEF LoopStep
<1>3. ASSUME NEW t \in Calls, BlockStep(t) PROVE TypeInv'
  <2>1. CASE Work(t) BY <2>1 DEF Work, Finish, JobOf
  <2>2. CASE StackStarts(t) BY <2>2 DEF StackStarts, JobOf
  <2>3. CASE StackStarted(t) BY <2>3 DEF StackStarted, Finish
  <2>4. CASE StackFails(t) BY <2>4 DEF StackFails, JobOf
  <2>5. CASE ErrorReturned(t) BY <2>5 DEF ErrorReturned, Finish
  <2>6. CASE ErrorDestroy(t)
    <3>1. TypeOK' BY <2>6 DEF ErrorDestroy, Finish
    <3>2. Placed' BY <2>6 DEF ErrorDestroy, Finish
    <3> QED BY <3>1, <3>2
  <2>7. CASE NothingToDestroy(t) BY <2>7 DEF NothingToDestroy, Finish, JobOf
  <2>8. CASE StackDown(t)
    <3>1. TypeOK' BY <2>8 DEF StackDown
    <3>2. Placed' BY <2>8 DEF StackDown
    <3> QED BY <3>1, <3>2
  <2>9. CASE StopExecutor(t) BY <2>9 DEF StopExecutor
  <2>10. CASE ForgetExecutor(t) BY <2>10 DEF ForgetExecutor
  <2>11. CASE Destroyed(t) BY <2>11 DEF Destroyed, Finish
  <2> QED BY <1>3, <2>1, <2>2, <2>3, <2>4, <2>5, <2>6, <2>7, <2>8, <2>9, <2>10, <2>11 DEF BlockStep
<1>4. CASE UNCHANGED vars BY <1>4 DEF vars
<1> QED BY <1>1, <1>2, <1>3, <1>4 DEF Next

(***************************************************************************)
(* Every variable keeps its type.                                          *)
(***************************************************************************)
THEOREM TypeCorrect == Spec => []TypeOK
<1>1. TypeInv => TypeOK BY DEF TypeInv
<1> QED BY <1>1, InitType, NextType, PTL DEF Spec

-----------------------------------------------------------------------------
(***************************************************************************)
(* One executor: the invariant that holds until two calls race.            *)
(***************************************************************************)

SingleExecutor ==
  /\ running \subseteq {executor}
  /\ \A t \in Inside : home[t] \in running
  /\ \A t \in Calls : thread[t] = "stopped" => home[t] = executor /\ executor \notin running
  /\ \A t \in Calls : thread[t] = "ended" => home[t] \notin running

\* An executor has one thread, started by the call that set it running.
SingleThread ==
  /\ \A s, t \in Calls : (thread[s] # "none" /\ thread[t] # "none" /\ home[s] = home[t]) => s = t
  /\ \A c \in Calls : pc[c] = "starting" => target[c] \in running \ ready
  /\ \A c, d \in Calls :
       (pc[c] = "starting" /\ pc[d] = "starting" /\ target[c] = target[d]) => c = d
  /\ \A e \in ready : \E t \in Calls : thread[t] # "none" /\ home[t] = e
  /\ \A c \in Calls : pc[c] = "wait" => target[c] \in ready

Single == ~raced => SingleExecutor /\ SingleThread

LEMMA InitSingle == Init => Single
BY DEF Init, Single, SingleExecutor, SingleThread, Inside

LEMMA NextSingle == TypeInv /\ Single /\ [Next]_vars => Single'
<1> SUFFICES ASSUME TypeInv, Single, [Next]_vars, ~raced' PROVE SingleExecutor' /\ SingleThread'
  BY DEF Single
<1>0. SingleExecutor /\ SingleThread
  BY DEF Single, Next, vars, CallStep, LoopStep, BlockStep, Lookup, Create, Check, StartNil, Start,
    StartThread, Refuse, Accept, Push, Quit, WaitForJob, PopFront, NoJob, QuitSignaled, Execute, Work,
    StackStarts, StackStarted, StackFails, ErrorReturned, ErrorDestroy, NothingToDestroy, StackDown,
    StopExecutor, ForgetExecutor, Destroyed, Finish, TypeInv, TypeOK
<1> USE CallsAssumption, <1>0 DEF TypeInv, TypeOK, Placed, Holding, Before, Moves, pool, call, work, sip,
      SingleExecutor, SingleThread, Inside
<1>1. ASSUME NEW c \in Calls, CallStep(c) PROVE (SingleExecutor /\ SingleThread)'
  <2>1. CASE Lookup(c) BY <2>1 DEF Lookup
  <2>2. CASE Create(c)
    <3>1. executor = none BY ~raced', <2>2 DEF Create
    <3> QED BY <3>1, <2>2 DEF Create
  <2>3. CASE Check(c) BY <2>3 DEF Check
  <2>4. CASE StartNil(c) BY <2>4 DEF StartNil
  <2>5. CASE Start(c)
    <3>1. executor \notin running \cup ready BY ~raced', <2>5 DEF Start
    <3>2. SingleExecutor' BY <3>1, <2>5 DEF Start
    <3>3. SingleThread' BY <3>1, <2>5 DEF Start
    <3> QED BY <3>2, <3>3
  <2>6. CASE StartThread(c) BY <2>6 DEF StartThread
  <2>7. CASE Refuse(c) BY <2>7 DEF Refuse
  <2>8. CASE Accept(c) BY <2>8 DEF Accept
  <2>9. CASE Push(c)
    <3>1. target[c] \in ready BY ~raced', <2>9 DEF Push
    <3> QED BY <3>1, <2>9 DEF Push
  <2> QED BY <1>1, <2>1, <2>2, <2>3, <2>4, <2>5, <2>6, <2>7, <2>8, <2>9 DEF CallStep
<1>2. ASSUME NEW t \in Calls, LoopStep(t) PROVE (SingleExecutor /\ SingleThread)'
  <2>1. CASE Quit(t) BY <2>1 DEF Quit, Runs
  <2>2. CASE WaitForJob(t) BY <2>2 DEF WaitForJob, Runs
  <2>3. CASE PopFront(t) BY <2>3 DEF PopFront, Runs
  <2>4. CASE NoJob(t) BY <2>4 DEF NoJob
  <2>5. CASE QuitSignaled(t) BY <2>5 DEF QuitSignaled, Runs
  <2>6. CASE Execute(t) BY <2>6 DEF Execute, Runs
  <2> QED BY <1>2, <2>1, <2>2, <2>3, <2>4, <2>5, <2>6 DEF LoopStep
<1>3. ASSUME NEW t \in Calls, BlockStep(t) PROVE (SingleExecutor /\ SingleThread)'
  <2>1. CASE Work(t) BY <2>1 DEF Work, Finish, JobOf
  <2>2. CASE StackStarts(t) BY <2>2 DEF StackStarts, JobOf
  <2>3. CASE StackStarted(t) BY <2>3 DEF StackStarted, Finish
  <2>4. CASE StackFails(t) BY <2>4 DEF StackFails, JobOf
  <2>5. CASE ErrorReturned(t) BY <2>5 DEF ErrorReturned, Finish
  <2>6. CASE ErrorDestroy(t) BY <2>6 DEF ErrorDestroy, Finish, JobOf
  <2>7. CASE NothingToDestroy(t) BY <2>7 DEF NothingToDestroy, Finish, JobOf
  <2>8. CASE StackDown(t) BY <2>8 DEF StackDown, JobOf
  <2>9. CASE StopExecutor(t) BY <2>9 DEF StopExecutor
  <2>10. CASE ForgetExecutor(t) BY <2>10 DEF ForgetExecutor
  <2>11. CASE Destroyed(t) BY <2>11 DEF Destroyed, Finish
  <2> QED BY <1>3, <2>1, <2>2, <2>3, <2>4, <2>5, <2>6, <2>7, <2>8, <2>9, <2>10, <2>11 DEF BlockStep
<1>4. CASE UNCHANGED vars BY <1>4 DEF vars
<1> QED BY <1>1, <1>2, <1>3, <1>4 DEF Next

(***************************************************************************)
(* Jobs are executed one at a time, until two calls race.                  *)
(***************************************************************************)
THEOREM Serialized == Spec => []Serial
<1>1. TypeInv /\ Single => Serial
  <2> SUFFICES ASSUME TypeInv, Single, ~raced PROVE Cardinality(Inside) <= 1
    BY DEF Serial
  <2>1. \A s, t \in Inside : s = t
    BY DEF Single, SingleExecutor, SingleThread, Inside
  <2>2. CASE Inside = {}
    BY <2>2, FS_EmptySet
  <2>3. CASE Inside # {}
    <3>1. PICK t \in Inside : TRUE BY <2>3
    <3>2. Inside = {t} BY <3>1, <2>1
    <3>3. Cardinality({t}) = 1 BY FS_Singleton
    <3> QED BY <3>2, <3>3
  <2> QED BY <2>2, <2>3
<1> QED BY <1>1, InitType, NextType, InitSingle, NextSingle, PTL DEF Spec

-----------------------------------------------------------------------------

\* Where the job of c is in the hands of thread t.
Held(c, t) ==
  /\ home[t] = target[c] /\ thread[t] \notin {"none", "ended"}
  /\ \/ job[t] = c
     \/ \E i \in 1..Len(jobQueue[home[t]]) : jobQueue[home[t]][i] = c

LEMMA NextNobodyForgotten ==
  TypeInv /\ Single /\ Single' /\ NobodyForgotten /\ [Next]_vars => NobodyForgotten'
<1> SUFFICES ASSUME TypeInv, Single, Single', NobodyForgotten, [Next]_vars, ~raced',
                    NEW d \in Calls, pc'[d] = "wait", target'[d] \in running'
             PROVE \E s \in Calls : Held(d, s)'
  BY DEF NobodyForgotten, Held
<1>0. ~raced /\ SingleExecutor /\ SingleThread
  BY DEF Single, Next, vars, CallStep, LoopStep, BlockStep, Lookup, Create, Check, StartNil, Start,
    StartThread, Refuse, Accept, Push, Quit, WaitForJob, PopFront, NoJob, QuitSignaled, Execute, Work,
    StackStarts, StackStarted, StackFails, ErrorReturned, ErrorDestroy, NothingToDestroy, StackDown,
    StopExecutor, ForgetExecutor, Destroyed, Finish, TypeInv, TypeOK
<1> USE CallsAssumption, <1>0 DEF TypeInv, TypeOK, Placed, Holding, Before, Moves, pool, call, work, sip
<1>1. Push(d) \/ (pc[d] = "wait" /\ target[d] \in running)
  BY SMTT(30) DEF Single, SingleThread, Next, vars, CallStep, LoopStep, BlockStep, Lookup, Create, Check, StartNil, Start,
    StartThread, Refuse, Accept, Push, Quit, WaitForJob, PopFront, NoJob, QuitSignaled, Execute, Work,
    StackStarts, StackStarted, StackFails, ErrorReturned, ErrorDestroy, NothingToDestroy, StackDown,
    StopExecutor, ForgetExecutor, Destroyed, Finish
<1>2. CASE Push(d)
  <2>1. target[d] \in ready BY ~raced', <1>2 DEF Push
  <2>2. PICK s \in Calls : thread[s] # "none" /\ home[s] = target[d] BY <2>1 DEF SingleThread
  <2>3. thread[s] # "ended" BY <1>2, <2>2 DEF SingleExecutor, Push
  <2>4. /\ Len(jobQueue'[home[s]]) = Len(jobQueue[home[s]]) + 1
        /\ jobQueue'[home[s]][Len(jobQueue[home[s]]) + 1] = d
    BY <1>2, <2>1, <2>2 DEF Push
  <2>5. Len(jobQueue[home[s]]) \in Nat BY <2>1, <2>2
  <2>6. /\ home'[s] = target'[d] /\ thread'[s] \notin {"none", "ended"}
        /\ Len(jobQueue[home[s]]) + 1 \in 1..Len(jobQueue'[home'[s]])
        /\ jobQueue'[home'[s]][Len(jobQueue[home[s]]) + 1] = d
    BY <1>2, <2>2, <2>3, <2>4, <2>5 DEF Push
  <2> QED BY <2>6 DEF Held
<1>3. CASE pc[d] = "wait" /\ target[d] \in running
  <2>0. PICK s \in Calls : Held(d, s) BY <1>3 DEF NobodyForgotten, Held
  <2> USE <1>3, <2>0 DEF Held, SingleExecutor, SingleThread, Inside
  <2>1. ASSUME NEW c \in Calls, CallStep(c) PROVE Held(d, s)'
    <3>1. CASE Lookup(c) BY <3>1 DEF Lookup
    <3>2. CASE Create(c) BY <3>2 DEF Create
    <3>3. CASE Check(c) BY <3>3 DEF Check
    <3>4. CASE StartNil(c) BY <3>4 DEF StartNil
    <3>5. CASE Start(c) BY <3>5 DEF Start
    <3>6. CASE StartThread(c) BY <3>6 DEF StartThread
    <3>7. CASE Refuse(c) BY <3>7 DEF Refuse
    <3>8. CASE Accept(c) BY <3>8 DEF Accept
    <3>9. CASE Push(c) BY <3>9 DEF Push
    <3> QED BY <2>1, <3>1, <3>2, <3>3, <3>4, <3>5, <3>6, <3>7, <3>8, <3>9 DEF CallStep
  <2>2. ASSUME NEW t \in Calls, LoopStep(t) PROVE Held(d, s)'
    <3>1. CASE Quit(t) BY <3>1 DEF Quit, Runs
    <3>2. CASE WaitForJob(t) BY <3>2 DEF WaitForJob, Runs
    <3>3. CASE PopFront(t)
      <4>1. CASE s # t
        <5>1. home[s] # home[t] /\ home[t] \in Calls BY <4>1, <3>3 DEF PopFront
        <5> QED BY <4>1, <5>1, <3>3 DEF PopFront
      <4>2. CASE s = t
        <5> DEFINE q == jobQueue[home[t]]
        <5>1. q \in Seq(Calls) /\ q # <<>> /\ home[t] \in Calls BY <3>3 DEF PopFront
        <5>2. PICK i \in 1..Len(q) : q[i] = d
          <6>0. thread[s] \in {"loop", "waiting"} BY <4>2, <3>3 DEF PopFront
          <6>1. thread[s] \notin Holding BY <6>0
          <6>2. none \notin Calls BY CallsAssumption
          <6>3. job[s] = none BY <6>1
          <6>4. job[s] # d BY <6>2, <6>3
          <6> QED BY <6>4, <4>2
        <5>3. jobQueue'[home'[t]] = Tail(q) /\ job'[t] = Head(q) BY <5>1, <3>3 DEF PopFront
        <5>4. CASE i = 1
          <6>1. Head(q) = d BY <5>1, <5>2, <5>4
          <6>2. home'[s] = target'[d] /\ thread'[s] \notin {"none", "ended"}
            BY <4>2, <3>3 DEF PopFront
          <6> QED BY <6>1, <6>2, <5>3, <4>2
        <5>5. CASE i # 1
          <6>1. i - 1 \in 1..Len(Tail(q)) /\ Tail(q)[i - 1] = d BY <5>1, <5>2, <5>5
          <6>2. home'[s] = target'[d] /\ thread'[s] \notin {"none", "ended"}
            BY <4>2, <3>3 DEF PopFront
          <6> QED BY <6>1, <6>2, <5>3, <4>2
        <5> QED BY <5>4, <5>5
      <4> QED BY <4>1, <4>2
    <3>4. CASE NoJob(t) BY <3>4 DEF NoJob
    <3>5. CASE QuitSignaled(t) BY <3>5 DEF QuitSignaled, Runs
    <3>6. CASE Execute(t) BY <3>6 DEF Execute, Runs
    <3> QED BY <2>2, <3>1, <3>2, <3>3, <3>4, <3>5, <3>6 DEF LoopStep
  <2>3. ASSUME NEW t \in Calls, BlockStep(t) PROVE Held(d, s)'
    <3>1. CASE Work(t) BY <3>1 DEF Work, Finish
    <3>2. CASE StackStarts(t) BY <3>2 DEF StackStarts
    <3>3. CASE StackStarted(t) BY <3>3 DEF StackStarted, Finish
    <3>4. CASE StackFails(t) BY <3>4 DEF StackFails
    <3>5. CASE ErrorReturned(t) BY <3>5 DEF ErrorReturned, Finish
    <3>6. CASE ErrorDestroy(t) BY <3>6 DEF ErrorDestroy, Finish
    <3>7. CASE NothingToDestroy(t) BY <3>7 DEF NothingToDestroy, Finish
    <3>8. CASE StackDown(t) BY <3>8 DEF StackDown
    <3>9. CASE StopExecutor(t) BY <3>9 DEF StopExecutor
    <3>10. CASE ForgetExecutor(t) BY <3>10 DEF ForgetExecutor
    <3>11. CASE Destroyed(t) BY <3>11 DEF Destroyed, Finish
    <3> QED BY <2>3, <3>1, <3>2, <3>3, <3>4, <3>5, <3>6, <3>7, <3>8, <3>9, <3>10, <3>11 DEF BlockStep
  <2>4. CASE UNCHANGED vars
    <3>1. UNCHANGED <<home, thread, job, jobQueue, target>> BY <2>4 DEF vars
    <3> QED BY <3>1
  <2> QED BY <2>1, <2>2, <2>3, <2>4, <2>0 DEF Next
<1> QED BY <1>1, <1>2, <1>3

(***************************************************************************)
(* Until two calls race, no job a call waits for is lost, nor left without *)
(* a thread, as long as its executor is not stopped.                       *)
(***************************************************************************)
THEOREM NoneForgotten == Spec => []NobodyForgotten
<1>1. Init => NobodyForgotten BY DEF Init, NobodyForgotten
<1> QED
  BY <1>1, NextNobodyForgotten, InitType, NextType, InitSingle, NextSingle, PTL DEF Spec

-----------------------------------------------------------------------------
(***************************************************************************)
(* Each job is in one place at most.                                       *)
(***************************************************************************)

\* Calls whose jobs were pushed and that, if they wait, were not let go.
Handed == {c \in Calls : pc[c] = "wait" \/ (pc[c] = "done" /\ c \in Async)}

Queues ==
  /\ \A e \in Calls : \A i \in 1..Len(jobQueue[e]) : jobQueue[e][i] \in Handed
  /\ \A e, f \in Calls : \A i \in 1..Len(jobQueue[e]) : \A j \in 1..Len(jobQueue[f]) :
       jobQueue[e][i] = jobQueue[f][j] => e = f /\ i = j

Hands ==
  /\ \A t \in Calls : job[t] # none => job[t] \in Handed
  /\ \A s, t \in Calls : (job[s] = job[t] /\ job[s] # none) => s = t
  /\ \A t \in Calls : \A e \in Calls : \A i \in 1..Len(jobQueue[e]) : jobQueue[e][i] # job[t]
  /\ \A t \in Calls : thread[t] \in Holding \ {"popped"} => job[t] \in started
  /\ \A c \in Calls \ Async : pc[c] = "done" => c \in started

OnePlace == Queues /\ Hands

LEMMA InitOnePlace == Init => OnePlace
BY DEF Init, OnePlace, Queues, Hands, Handed, Holding

\* What Append and Tail leave in the queues.
LEMMA AppendEntries ==
  ASSUME NEW S, NEW Q \in [S -> Seq(S)], NEW x \in S, NEW c \in S,
         NEW Q2, Q2 = [Q EXCEPT ![x] = Append(@, c)]
  PROVE  \A e \in S : \A i \in 1..Len(Q2[e]) :
           \/ e = x /\ i = Len(Q[x]) + 1 /\ Q2[e][i] = c
           \/ i \in 1..Len(Q[e]) /\ Q2[e][i] = Q[e][i]
<1> TAKE e \in S
<1>1. CASE e = x
  <2>1. Q2[e] = Append(Q[e], c) BY <1>1
  <2>2. Q[e] \in Seq(S) OBVIOUS
  <2>3. /\ Len(Append(Q[e], c)) = Len(Q[e]) + 1 /\ Len(Q[e]) \in Nat
        /\ \A k \in 1..Len(Q[e]) : Append(Q[e], c)[k] = Q[e][k]
        /\ Append(Q[e], c)[Len(Q[e]) + 1] = c
    BY <2>2
  <2>4. ASSUME NEW i \in 1..Len(Q2[e])
        PROVE  (i = Len(Q[e]) + 1 /\ Q2[e][i] = c) \/ (i \in 1..Len(Q[e]) /\ Q2[e][i] = Q[e][i])
    BY <2>1, <2>3
  <2> QED BY <1>1, <2>4
<1>2. CASE e # x BY <1>2
<1> QED BY <1>1, <1>2

LEMMA TailEntries ==
  ASSUME NEW S, NEW Q \in [S -> Seq(S)], NEW x \in S, Q[x] # <<>>,
         NEW Q2, Q2 = [Q EXCEPT ![x] = Tail(@)]
  PROVE  /\ \A e \in S : \A i \in 1..Len(Q2[e]) :
              IF e = x THEN i + 1 \in 2..Len(Q[x]) /\ Q2[e][i] = Q[x][i + 1]
                       ELSE i \in 1..Len(Q[e]) /\ Q2[e][i] = Q[e][i]
         /\ Head(Q[x]) = Q[x][1] /\ 1 \in 1..Len(Q[x])
<1>1. Q[x] \in Seq(S) OBVIOUS
<1>2. Head(Q[x]) = Q[x][1] /\ 1 \in 1..Len(Q[x]) BY <1>1
<1>3. ASSUME NEW e \in S, NEW i \in 1..Len(Q2[e])
      PROVE IF e = x THEN i + 1 \in 2..Len(Q[x]) /\ Q2[e][i] = Q[x][i + 1]
                     ELSE i \in 1..Len(Q[e]) /\ Q2[e][i] = Q[e][i]
  <2>1. CASE e = x
    <3>1. Q2[e] = Tail(Q[x]) BY <2>1
    <3>2. Len(Tail(Q[x])) = Len(Q[x]) - 1 /\ Len(Q[x]) \in Nat BY <1>1
    <3>3. \A k \in 1..(Len(Q[x]) - 1) : Tail(Q[x])[k] = Q[x][k + 1] BY <1>1
    <3> QED BY <2>1, <3>1, <3>2, <3>3
  <2>2. CASE e # x BY <2>2
  <2> QED BY <2>1, <2>2
<1> QED BY <1>2, <1>3

\* Queues that hold nothing of a set hold nothing of it when one is popped.
LEMMA TailAvoids ==
  ASSUME NEW S, NEW Q \in [S -> Seq(S)], NEW x \in S, Q[x] # <<>>,
         NEW Q2, Q2 = [Q EXCEPT ![x] = Tail(@)],
         NEW R, \A e \in S : \A i \in 1..Len(Q[e]) : Q[e][i] \notin R
  PROVE  /\ Head(Q[x]) \notin R
         /\ \A e \in S : \A i \in 1..Len(Q2[e]) : Q2[e][i] \notin R
<1>1. Q[x] \in Seq(S) /\ Len(Q[x]) \in Nat OBVIOUS
<1>2. Head(Q[x]) = Q[x][1] /\ 1 \in 1..Len(Q[x]) BY <1>1
<1>3. ASSUME NEW e \in S, NEW i \in 1..Len(Q2[e]) PROVE Q2[e][i] \notin R
  <2>1. CASE e = x
    <3>1. i + 1 \in 2..Len(Q[x]) /\ Q2[e][i] = Q[x][i + 1] BY <2>1, TailEntries
    <3>2. i + 1 \in 1..Len(Q[x]) BY <1>1, <3>1
    <3> QED BY <3>1, <3>2
  <2>2. CASE e # x
    <3>1. i \in 1..Len(Q[e]) /\ Q2[e][i] = Q[e][i] BY <2>2, TailEntries
    <3> QED BY <3>1
  <2> QED BY <2>1, <2>2
<1> QED BY <1>2, <1>3

LEMMA PushOnePlace ==
  ASSUME TypeInv, OnePlace, NEW c \in Calls, Push(c) PROVE OnePlace'
<1>1. CASE target[c] \notin ready
  <2>1. jobQueue' = jobQueue /\ job' = job /\ thread' = thread /\ started' = started
    BY <1>1 DEF Push, work
  <2>2. Handed' = Handed \cup {c} BY DEF Push, Moves, Handed, TypeInv, TypeOK
  <2>3. \A d \in Calls \ Async : pc'[d] = "done" => d \in started'
    BY <2>1 DEF Push, Moves, OnePlace, Hands, TypeInv, TypeOK
  <2> QED BY <2>1, <2>2, <2>3 DEF OnePlace, Queues, Hands
<1>2. CASE target[c] \in ready
  <2>1. /\ job' = job /\ thread' = thread /\ started' = started
        /\ jobQueue' = [jobQueue EXCEPT ![target[c]] = Append(@, c)]
    BY <1>2 DEF Push, work
  <2>2. Handed' = Handed \cup {c} BY DEF Push, Moves, Handed, TypeInv, TypeOK
  <2>3. c \notin Handed /\ c # none
    BY CallsAssumption DEF Push, Moves, Handed
  <2>4. \A d \in Calls \ Async : pc'[d] = "done" => d \in started'
    BY <2>1 DEF Push, Moves, OnePlace, Hands, TypeInv, TypeOK
  <2>5. target[c] \in Calls /\ jobQueue \in [Calls -> Seq(Calls)]
    BY <1>2 DEF TypeInv, TypeOK
  <2>6. \A e \in Calls : \A i \in 1..Len(jobQueue'[e]) :
          \/ e = target[c] /\ i = Len(jobQueue[target[c]]) + 1 /\ jobQueue'[e][i] = c
          \/ i \in 1..Len(jobQueue[e]) /\ jobQueue'[e][i] = jobQueue[e][i]
    BY <2>1, <2>5, AppendEntries
  <2>7. Queues'
    <3>1. \A e \in Calls : \A i \in 1..Len(jobQueue'[e]) : jobQueue'[e][i] \in Handed'
      BY <2>2, <2>6 DEF OnePlace, Queues
    <3>2. ASSUME NEW e \in Calls, NEW f \in Calls, NEW i \in 1..Len(jobQueue'[e]),
                 NEW j \in 1..Len(jobQueue'[f]), jobQueue'[e][i] = jobQueue'[f][j]
          PROVE e = f /\ i = j
      <4>1. \A d \in Calls : \A k \in 1..Len(jobQueue[d]) : jobQueue[d][k] # c
        BY <2>3 DEF OnePlace, Queues
      <4>2. CASE e = target[c] /\ i = Len(jobQueue[target[c]]) + 1 /\ jobQueue'[e][i] = c
        <5>1. jobQueue'[f][j] = c BY <3>2, <4>2
        <5>2. ~(j \in 1..Len(jobQueue[f]) /\ jobQueue'[f][j] = jobQueue[f][j])
          BY <4>1, <5>1
        <5>3. f = target[c] /\ j = Len(jobQueue[target[c]]) + 1 BY <2>6, <5>2
        <5> QED BY <4>2, <5>3
      <4>3. CASE i \in 1..Len(jobQueue[e]) /\ jobQueue'[e][i] = jobQueue[e][i]
        <5>1. jobQueue'[f][j] # c BY <3>2, <4>1, <4>3
        <5>2. j \in 1..Len(jobQueue[f]) /\ jobQueue'[f][j] = jobQueue[f][j] BY <2>6, <5>1
        <5>3. jobQueue[e][i] = jobQueue[f][j] BY <3>2, <4>3, <5>2
        <5> QED BY <4>3, <5>2, <5>3 DEF OnePlace, Queues
      <4> QED BY <2>6, <4>2, <4>3
    <3> QED BY <3>1, <3>2 DEF Queues
  <2>8. \A t \in Calls : job[t] # c BY <2>3 DEF OnePlace, Hands
  <2>9. Hands' BY <2>1, <2>2, <2>4, <2>6, <2>8 DEF OnePlace, Hands
  <2> QED BY <2>7, <2>9 DEF OnePlace
<1> QED BY <1>1, <1>2

LEMMA PopOnePlace ==
  ASSUME TypeInv, OnePlace, NEW t \in Calls, PopFront(t) PROVE OnePlace'
<1> DEFINE q == jobQueue[home[t]]
<1>1. /\ thread[t] \notin Holding /\ q # <<>> /\ home[t] \in Calls
      /\ jobQueue \in [Calls -> Seq(Calls)]
  BY DEF PopFront, Runs, Holding, TypeInv, TypeOK, Placed
<1>2. /\ jobQueue' = [jobQueue EXCEPT ![home[t]] = Tail(@)]
      /\ job' = [job EXCEPT ![t] = Head(q)] /\ thread' = [thread EXCEPT ![t] = "popped"]
      /\ started' = started /\ pc' = pc /\ Handed' = Handed
  BY DEF PopFront, call, Handed
<1>3. /\ \A e \in Calls : \A i \in 1..Len(jobQueue'[e]) :
           IF e = home[t] THEN i + 1 \in 2..Len(q) /\ jobQueue'[e][i] = q[i + 1]
                          ELSE i \in 1..Len(jobQueue[e]) /\ jobQueue'[e][i] = jobQueue[e][i]
      /\ Head(q) = q[1] /\ 1 \in 1..Len(q)
  BY <1>1, <1>2, TailEntries
<1> DEFINE at(e, i) == IF e = home[t] THEN i + 1 ELSE i
<1>4. \A e \in Calls : \A i \in 1..Len(jobQueue'[e]) :
           /\ at(e, i) \in 1..Len(jobQueue[e])
           /\ jobQueue'[e][i] = jobQueue[e][at(e, i)]
           /\ e = home[t] => at(e, i) # 1
  <2>1. \A e \in Calls : Len(jobQueue[e]) \in Nat BY <1>1
  <2>2. ASSUME NEW e \in Calls, NEW i \in 1..Len(jobQueue'[e])
        PROVE  /\ at(e, i) \in 1..Len(jobQueue[e])
               /\ jobQueue'[e][i] = jobQueue[e][at(e, i)]
               /\ e = home[t] => at(e, i) # 1
    <3>1. CASE e = home[t] BY <1>3, <2>1, <3>1
    <3>2. CASE e # home[t] BY <1>3, <2>1, <3>2
    <3> QED BY <3>1, <3>2
  <2> QED BY <2>2
<1>5. \A e \in Calls : \A i, j \in Int : at(e, i) = at(e, j) => i = j OBVIOUS
<1>a. Head(q) = jobQueue[home[t]][1] /\ 1 \in 1..Len(jobQueue[home[t]]) BY <1>3
<1>b. /\ \A e \in Calls : \A i \in 1..Len(jobQueue[e]) : jobQueue[e][i] \in Handed
      /\ \A e, f \in Calls : \A i \in 1..Len(jobQueue[e]) : \A j \in 1..Len(jobQueue[f]) :
           jobQueue[e][i] = jobQueue[f][j] => e = f /\ i = j
      /\ \A s, e \in Calls : \A i \in 1..Len(jobQueue[e]) : jobQueue[e][i] # job[s]
  BY DEF OnePlace, Queues, Hands
<1> HIDE DEF q, at
<1>6. Queues'
  <2>1. \A e \in Calls : \A i \in 1..Len(jobQueue'[e]) : jobQueue'[e][i] \in Handed'
    BY <1>2, <1>4, <1>b
  <2>2. ASSUME NEW e \in Calls, NEW f \in Calls, NEW i \in 1..Len(jobQueue'[e]),
               NEW j \in 1..Len(jobQueue'[f]), jobQueue'[e][i] = jobQueue'[f][j]
        PROVE e = f /\ i = j
    <3>1. at(e, i) \in 1..Len(jobQueue[e]) /\ jobQueue'[e][i] = jobQueue[e][at(e, i)]
      BY <1>4
    <3>2. at(f, j) \in 1..Len(jobQueue[f]) /\ jobQueue'[f][j] = jobQueue[f][at(f, j)]
      BY <1>4
    <3>3. jobQueue[e][at(e, i)] = jobQueue[f][at(f, j)] BY <2>2, <3>1, <3>2
    <3>4. e = f /\ at(e, i) = at(f, j) BY <1>b, <3>1, <3>2, <3>3
    <3>5. i \in Int /\ j \in Int OBVIOUS
    <3> QED BY <1>5, <3>4, <3>5
  <2> QED BY <2>1, <2>2 DEF Queues
<1>7. \A s \in Calls : job[s] # Head(q) BY <1>1, <1>a, <1>b
<1>8. \A s \in Calls : job'[s] = IF s = t THEN Head(q) ELSE job[s]
  BY <1>2 DEF TypeInv, TypeOK
<1>9. ASSUME NEW e \in Calls, NEW i \in 1..Len(jobQueue'[e]) PROVE jobQueue'[e][i] # Head(q)
  <2>1. /\ at(e, i) \in 1..Len(jobQueue[e]) /\ jobQueue'[e][i] = jobQueue[e][at(e, i)]
        /\ e = home[t] => at(e, i) # 1
    BY <1>4
  <2>2. ASSUME jobQueue[e][at(e, i)] = jobQueue[home[t]][1] PROVE FALSE
    <3>1. e = home[t] /\ at(e, i) = 1 BY <1>1, <1>a, <1>b, <2>1, <2>2
    <3> QED BY <2>1, <3>1
  <2> QED BY <1>a, <2>1, <2>2
<1>10. \A s \in Calls : \A e \in Calls : \A i \in 1..Len(jobQueue'[e]) : jobQueue'[e][i] # job'[s]
  BY <1>4, <1>8, <1>9, <1>b
<1>11. Head(q) \in Handed BY <1>1, <1>a, <1>b
<1>12. \A s \in Calls : job'[s] # none => job'[s] \in Handed'
  BY <1>2, <1>8, <1>11 DEF OnePlace, Hands
<1>13. \A r, s \in Calls : (job'[r] = job'[s] /\ job'[r] # none) => r = s
  BY <1>7, <1>8 DEF OnePlace, Hands
<1>14. \A s \in Calls : thread'[s] \in Holding \ {"popped"} => job'[s] \in started'
  <2>1. \A s \in Calls : thread'[s] = IF s = t THEN "popped" ELSE thread[s]
    BY <1>2 DEF TypeInv, TypeOK
  <2> QED BY <1>2, <1>8, <2>1 DEF OnePlace, Hands
<1>15. \A c \in Calls \ Async : pc'[c] = "done" => c \in started'
  BY <1>2 DEF OnePlace, Hands
<1>16. Hands' BY <1>10, <1>12, <1>13, <1>14, <1>15 DEF Hands
<1> QED BY <1>6, <1>16 DEF OnePlace

LEMMA NextOnePlace == TypeInv /\ OnePlace /\ [Next]_vars => OnePlace'
<1> SUFFICES ASSUME TypeInv, OnePlace, [Next]_vars PROVE OnePlace'
  OBVIOUS
<1>0. none \notin Calls BY CallsAssumption
<1> USE <1>0 DEF TypeInv, TypeOK, Placed, Holding, Before, Moves, pool, call, work, sip,
      OnePlace, Queues, Hands, Handed
<1>1. ASSUME NEW c \in Calls, CallStep(c) PROVE OnePlace'
  <2>1. CASE Lookup(c) BY <2>1 DEF Lookup
  <2>2. CASE Create(c) BY <2>2 DEF Create
  <2>3. CASE Check(c) BY <2>3 DEF Check
  <2>4. CASE StartNil(c) BY <2>4 DEF StartNil
  <2>5. CASE Start(c) BY <2>5 DEF Start
  <2>6. CASE StartThread(c) BY <2>6 DEF StartThread
  <2>7. CASE Refuse(c) BY <2>7 DEF Refuse
  <2>8. CASE Accept(c) BY <2>8 DEF Accept
  <2>9. CASE Push(c) BY <2>9, PushOnePlace
  <2> QED BY <1>1, <2>1, <2>2, <2>3, <2>4, <2>5, <2>6, <2>7, <2>8, <2>9 DEF CallStep
<1>2. ASSUME NEW t \in Calls, LoopStep(t) PROVE OnePlace'
  <2>1. CASE Quit(t) BY <2>1 DEF Quit, Runs
  <2>2. CASE WaitForJob(t) BY <2>2 DEF WaitForJob, Runs
  <2>3. CASE PopFront(t) BY <2>3, PopOnePlace
  <2>4. CASE NoJob(t) BY <2>4 DEF NoJob
  <2>5. CASE QuitSignaled(t) BY <2>5 DEF QuitSignaled, Runs
  <2>6. CASE Execute(t) BY <2>6 DEF Execute, Runs
  <2> QED BY <1>2, <2>1, <2>2, <2>3, <2>4, <2>5, <2>6 DEF LoopStep
<1>3. ASSUME NEW t \in Calls, BlockStep(t) PROVE OnePlace'
  <2>1. CASE Work(t) BY <2>1 DEF Work, Finish
  <2>2. CASE StackStarts(t) BY <2>2 DEF StackStarts
  <2>3. CASE StackStarted(t) BY <2>3 DEF StackStarted, Finish
  <2>4. CASE StackFails(t) BY <2>4 DEF StackFails
  <2>5. CASE ErrorReturned(t) BY <2>5 DEF ErrorReturned, Finish
  <2>6. CASE ErrorDestroy(t) BY <2>6 DEF ErrorDestroy, Finish
  <2>7. CASE NothingToDestroy(t) BY <2>7 DEF NothingToDestroy, Finish
  <2>8. CASE StackDown(t) BY <2>8 DEF StackDown
  <2>9. CASE StopExecutor(t) BY <2>9 DEF StopExecutor
  <2>10. CASE ForgetExecutor(t) BY <2>10 DEF ForgetExecutor
  <2>11. CASE Destroyed(t) BY <2>11 DEF Destroyed, Finish
  <2> QED BY <1>3, <2>1, <2>2, <2>3, <2>4, <2>5, <2>6, <2>7, <2>8, <2>9, <2>10, <2>11 DEF BlockStep
<1>4. CASE UNCHANGED vars BY <1>4 DEF vars
<1> QED BY <1>1, <1>2, <1>3, <1>4 DEF Next

\* Who waits for a job that was begun waits for a thread inside of it.
InBlock(t) == thread[t] \in Holding \ {"popped"}

Attended ==
  \A c \in started : \/ pc[c] = "done"
                     \/ pc[c] = "wait" /\ \E t \in Calls : InBlock(t) /\ job[t] = c

LEMMA InitAttended == Init => Attended
BY DEF Init, Attended

\* A step that begins no job and lets no thread out of one.
LEMMA StillAttended ==
  ASSUME Attended, started' = started, started \subseteq Calls,
         \A c \in started : pc'[c] = pc[c],
         \A t \in Calls : InBlock(t) => InBlock(t)' /\ job'[t] = job[t]
  PROVE  Attended'
BY DEF Attended

\* A thread leaves a block: the call that waits for it is let go.
LEMMA FinishAttended ==
  ASSUME TypeInv, OnePlace, Attended, NEW t \in Calls, NEW from, Finish(t, from)
  PROVE  Attended'
<1> SUFFICES ASSUME NEW c \in started
             PROVE  \/ pc'[c] = "done"
                    \/ pc'[c] = "wait" /\ \E s \in Calls : InBlock(s)' /\ job'[s] = c
  BY DEF Attended, Finish
<1>1. c \in Calls /\ DOMAIN pc = Calls /\ pc = [d \in Calls |-> pc[d]] BY DEF TypeInv, TypeOK
<1>2. CASE pc[c] = "done" BY <1>1, <1>2 DEF Finish
<1>3. CASE pc[c] = "wait" /\ job[t] = c BY <1>1, <1>3 DEF Finish
<1>4. CASE pc[c] = "wait" /\ job[t] # c
  <2>1. PICK s \in Calls : InBlock(s) /\ job[s] = c BY <1>4 DEF Attended
  <2>2. s # t /\ InBlock(s)' /\ job'[s] = c BY <1>4, <2>1 DEF Finish, InBlock, TypeInv, TypeOK
  <2> QED BY <1>1, <1>4, <2>2 DEF Finish
<1> QED BY <1>2, <1>3, <1>4 DEF Attended

LEMMA NextAttended == TypeInv /\ OnePlace /\ Attended /\ [Next]_vars => Attended'
<1> SUFFICES ASSUME TypeInv, OnePlace, Attended, [Next]_vars PROVE Attended'
  OBVIOUS
<1>0. /\ started \subseteq Calls /\ none \notin Calls
      /\ \A c \in started : pc[c] \in {"wait", "done"}
  BY CallsAssumption DEF TypeInv, TypeOK, Attended
<1>1. ASSUME NEW c \in Calls, CallStep(c) PROVE Attended'
  <2>1. /\ started' = started /\ job' = job
        /\ \A d \in started : pc'[d] = pc[d]
        /\ \A t \in Calls : thread'[t] = thread[t] \/ thread[t] = "none"
    BY <1>0, <1>1 DEF CallStep, Lookup, Create, Check, StartNil, Start, StartThread, Refuse,
       Accept, Push, Moves, work, TypeInv, TypeOK, Placed, Before
  <2> QED BY <1>0, <2>1, StillAttended DEF InBlock, Holding
<1>2. ASSUME NEW t \in Calls, LoopStep(t), ~Execute(t) PROVE Attended'
  <2>1. /\ started' = started /\ pc' = pc /\ ~InBlock(t)
        /\ \A s \in Calls \ {t} : thread'[s] = thread[s] /\ job'[s] = job[s]
    BY <1>2 DEF LoopStep, Quit, WaitForJob, PopFront, NoJob, QuitSignaled, call, work,
       TypeInv, TypeOK, InBlock, Holding
  <2> QED BY <1>0, <2>1, StillAttended DEF InBlock
<1>3. ASSUME NEW t \in Calls, Execute(t) PROVE Attended'
  <2>1. /\ started' = started \cup {job[t]} /\ pc' = pc /\ job' = job /\ thread[t] = "popped"
        /\ \A s \in Calls : thread'[s] = IF s = t THEN "executing" ELSE thread[s]
    BY <1>3 DEF Execute, call, TypeInv, TypeOK
  <2>2. job[t] \in Handed BY <2>1 DEF TypeInv, Placed, Holding, OnePlace, Hands
  <2>3. \A s \in Calls : InBlock(s) \/ s = t => InBlock(s)'
    BY <2>1 DEF InBlock, Holding
  <2> QED BY <2>1, <2>2, <2>3 DEF Attended, Handed
<1>4. ASSUME NEW t \in Calls, BlockStep(t) PROVE Attended'
  <2>1. CASE \/ StackStarts(t) \/ StackFails(t) \/ StackDown(t)
             \/ StopExecutor(t) \/ ForgetExecutor(t)
    <3>1. /\ started' = started /\ pc' = pc /\ job' = job
          /\ \A s \in Calls : InBlock(s) => InBlock(s)'
      BY <2>1 DEF StackStarts, StackFails, StackDown, StopExecutor, ForgetExecutor, call, work,
         TypeInv, TypeOK, InBlock, Holding
    <3> QED BY <1>0, <3>1, StillAttended
  <2>2. CASE \E from : Finish(t, from) BY <2>2, FinishAttended
  <2> QED
    BY <1>4, <2>1, <2>2
    DEF BlockStep, Work, StackStarted, ErrorReturned, ErrorDestroy, NothingToDestroy, Destroyed
<1>5. CASE UNCHANGED vars
  BY <1>0, <1>5, StillAttended DEF vars, call, work, InBlock
<1> QED BY <1>1, <1>2, <1>3, <1>4, <1>5 DEF Next

(***************************************************************************)
(* Races included, whoever waits for a job waits for its end and for       *)
(* nothing else: while its job is executed a thread is in it, and it       *)
(* returns when the job was executed, which is then in nobody's hands.     *)
(***************************************************************************)
THEOREM JobDone == Spec => []WaitsForItsJob
<1>1. ASSUME TypeInv, OnePlace, Attended PROVE WaitsForItsJob
  <2> SUFFICES ASSUME NEW c \in Calls \ Async
               PROVE  /\ pc[c] = "wait" /\ c \in started =>
                           \E t \in Inside \cup Leaving : job[t] = c
                      /\ pc[c] = "done" => c \in started /\ \A t \in Calls : job[t] # c
    BY DEF WaitsForItsJob
  <2>1. CASE pc[c] = "wait" /\ c \in started
    <3>1. PICK t \in Calls : InBlock(t) /\ job[t] = c BY <1>1, <2>1 DEF Attended
    <3> QED BY <2>1, <3>1 DEF InBlock, Holding, Inside, Leaving
  <2>2. CASE pc[c] = "done"
    <3>1. c \notin Handed /\ c # none BY <2>2, CallsAssumption DEF Handed
    <3> QED BY <1>1, <2>2, <3>1 DEF OnePlace, Hands
  <2> QED BY <2>1, <2>2
<1> QED
  BY <1>1, InitType, NextType, InitOnePlace, NextOnePlace, InitAttended, NextAttended, PTL DEF Spec

-----------------------------------------------------------------------------
(***************************************************************************)
(* The order of the jobs of one thread.                                    *)
(***************************************************************************)

\* Who called before d has returned; what was executed was called; only a queue
\* that was created has entries.
Calling ==
  /\ \A d \in Calls : pc[d] # "idle" => After[d] \subseteq Returned \ {d}
  /\ \A d \in started : pc[d] # "idle"
  /\ \A e \in Calls : jobQueue[e] # <<>> => e \in ready

\* A thread that will execute what it has popped.
Takes(t) == thread[t] = "popped" /\ home[t] \in running

\* If the job of c was not executed, it never will be.
Gone(c) ==
  /\ \A e \in running : \A i \in 1..Len(jobQueue[e]) : jobQueue[e][i] # c
  /\ \A t \in Calls : Takes(t) => job[t] # c

Passed(d) == d \in started \/ \E t \in Calls : Takes(t) /\ job[t] = d

Sequenced ==
  \A d \in Calls : \A c \in After[d] \ started :
    /\ Passed(d) => Gone(c)
    /\ \A e \in running : \A i, j \in 1..Len(jobQueue[e]) :
         jobQueue[e][i] = c /\ jobQueue[e][j] = d => i < j

OrderInv == Calling /\ (~raced => Sequenced)

LEMMA InitOrder == Init => OrderInv
BY CallsAssumption DEF Init, OrderInv, Calling, Sequenced, Takes, Passed, Gone

\* A step that hands out no job and queues none.
LEMMA SequencedFrame ==
  ASSUME TypeInv, Sequenced,
         \A e \in running' : jobQueue'[e] = <<>> \/ (e \in running /\ jobQueue'[e] = jobQueue[e]),
         \A t \in Calls : Takes(t)' => Takes(t) /\ job'[t] = job[t],
         started \subseteq started', \A d \in started' : Passed(d)
  PROVE  Sequenced'
<1> SUFFICES ASSUME NEW d \in Calls, NEW c \in After[d] \ started'
             PROVE  /\ Passed(d)' => Gone(c)'
                    /\ \A e \in running' : \A i, j \in 1..Len(jobQueue'[e]) :
                         jobQueue'[e][i] = c /\ jobQueue'[e][j] = d => i < j
  BY DEF Sequenced
<1>1. c \in After[d] \ started OBVIOUS
<1>2. Len(<<>>) = 0 OBVIOUS
<1>3. \A e \in running' : \A i \in 1..Len(jobQueue'[e]) :
        e \in running /\ jobQueue'[e] = jobQueue[e]
  BY <1>2
<1>4. Passed(d)' => Passed(d) BY DEF Passed
<1>5. Gone(c) => Gone(c)' BY <1>3 DEF Gone
<1>6. \A e \in running' : \A i, j \in 1..Len(jobQueue'[e]) :
        jobQueue'[e][i] = c /\ jobQueue'[e][j] = d => i < j
  BY <1>1, <1>3 DEF Sequenced
<1> QED BY <1>1, <1>4, <1>5, <1>6 DEF Sequenced

LEMMA PassedCalled ==
  ASSUME TypeInv, OnePlace, Calling, NEW d \in Calls, Passed(d)
  PROVE  After[d] \subseteq Returned \ {d}
<1>1. CASE d \in started BY <1>1 DEF Calling
<1>2. CASE \E t \in Calls : Takes(t) /\ job[t] = d
  <2>1. d \in Handed
    BY <1>2, CallsAssumption DEF OnePlace, Hands
  <2> QED BY <2>1 DEF Handed, Calling
<1> QED BY <1>1, <1>2 DEF Passed

LEMMA PushSequenced ==
  ASSUME TypeInv, OnePlace, Calling, Sequenced, NEW x \in Calls, Push(x), ~raced'
  PROVE  Sequenced'
<1>1. /\ running' = running /\ started' = started /\ thread' = thread /\ home' = home
      /\ job' = job /\ pc[x] = "push" /\ target[x] \in ready
      /\ jobQueue' = [jobQueue EXCEPT ![target[x]] = Append(@, x)]
  BY DEF Push, Moves, work, TypeInv, TypeOK
<1>2. jobQueue \in [Calls -> Seq(Calls)] /\ target[x] \in Calls /\ running \subseteq Calls
  BY <1>1 DEF TypeInv, TypeOK
<1>3. \A e \in Calls : \A i \in 1..Len(jobQueue'[e]) :
        \/ e = target[x] /\ i = Len(jobQueue[target[x]]) + 1 /\ jobQueue'[e][i] = x
        \/ i \in 1..Len(jobQueue[e]) /\ jobQueue'[e][i] = jobQueue[e][i]
  BY <1>1, <1>2, AppendEntries
<1>4. x \notin Returned BY <1>1 DEF Returned
<1> SUFFICES ASSUME NEW d \in Calls, NEW c \in After[d] \ started
             PROVE  /\ Passed(d)' => Gone(c)'
                    /\ \A e \in running : \A i, j \in 1..Len(jobQueue'[e]) :
                         jobQueue'[e][i] = c /\ jobQueue'[e][j] = d => i < j
  BY <1>1 DEF Sequenced
<1>5. ASSUME Passed(d)' PROVE Gone(c)'
  <2>1. Passed(d) BY <1>1, <1>5 DEF Passed, Takes
  <2>2. c # x BY <1>4, <2>1, PassedCalled
  <2>3. Gone(c) BY <2>1 DEF Sequenced
  <2>4. \A t \in Calls : Takes(t)' => job'[t] # c BY <1>1, <2>3 DEF Gone, Takes
  <2>5. \A e \in running' : \A i \in 1..Len(jobQueue'[e]) : jobQueue'[e][i] # c
    BY <1>1, <1>2, <1>3, <2>2, <2>3 DEF Gone
  <2> QED BY <2>4, <2>5 DEF Gone
<1>6. ASSUME NEW e \in running, NEW i \in 1..Len(jobQueue'[e]), NEW j \in 1..Len(jobQueue'[e]),
             jobQueue'[e][i] = c, jobQueue'[e][j] = d
      PROVE  i < j
  <2>0. e \in Calls /\ Len(jobQueue[e]) \in Nat BY <1>2
  <2>1. pc[d] # "idle"
    <3>1. CASE jobQueue'[e][j] = x BY <1>1, <1>6, <3>1
    <3>2. CASE j \in 1..Len(jobQueue[e]) /\ jobQueue'[e][j] = jobQueue[e][j]
      BY <1>6, <2>0, <3>2 DEF OnePlace, Queues, Handed
    <3> QED BY <1>3, <2>0, <3>1, <3>2
  <2>2. c # x BY <1>4, <2>1 DEF Calling
  <2>3. i \in 1..Len(jobQueue[e]) /\ jobQueue[e][i] = c BY <1>3, <1>6, <2>0, <2>2
  <2>4. CASE e = target[x] /\ j = Len(jobQueue[target[x]]) + 1 BY <2>0, <2>3, <2>4
  <2>5. CASE j \in 1..Len(jobQueue[e]) /\ jobQueue'[e][j] = jobQueue[e][j]
    BY <1>6, <2>3, <2>5 DEF Sequenced
  <2> QED BY <1>3, <2>0, <2>4, <2>5
<1> QED BY <1>5, <1>6

LEMMA PopSequenced ==
  ASSUME TypeInv, SingleExecutor, SingleThread, OnePlace, Calling, Sequenced,
         NEW t \in Calls, PopFront(t)
  PROVE  Sequenced'
<1> DEFINE q == jobQueue[home[t]]
<1>1. /\ running' = running /\ started' = started /\ home' = home
      /\ q # <<>> /\ home[t] \in Calls /\ thread[t] # "none"
      /\ thread' = [thread EXCEPT ![t] = "popped"] /\ job' = [job EXCEPT ![t] = Head(q)]
      /\ jobQueue' = [jobQueue EXCEPT ![home[t]] = Tail(@)]
  BY DEF PopFront, TypeInv, TypeOK, Placed
<1>2. /\ jobQueue \in [Calls -> Seq(Calls)] /\ running \subseteq Calls
      /\ thread \in [Calls -> {"none", "loop", "waiting", "popped", "executing", "up", "failed",
                               "down", "stopped", "forgotten", "ended"}]
      /\ job \in [Calls -> Calls \cup {none}]
  BY DEF TypeInv, TypeOK
<1>3. /\ \A e \in Calls : \A i \in 1..Len(jobQueue'[e]) :
           IF e = home[t] THEN i + 1 \in 2..Len(q) /\ jobQueue'[e][i] = q[i + 1]
                          ELSE i \in 1..Len(jobQueue[e]) /\ jobQueue'[e][i] = jobQueue[e][i]
      /\ Head(q) = q[1] /\ 1 \in 1..Len(q)
  BY <1>1, <1>2, TailEntries
<1>a. \A e \in Calls : e # home[t] => jobQueue'[e] = jobQueue[e]
  BY <1>1, <1>2
<1>b. \A i \in 1..Len(jobQueue'[home[t]]) :
        /\ i + 1 \in 1..Len(jobQueue[home[t]])
        /\ jobQueue'[home[t]][i] = jobQueue[home[t]][i + 1]
  <2> SUFFICES ASSUME NEW i \in 1..Len(jobQueue'[home[t]])
               PROVE  /\ i + 1 \in 1..Len(jobQueue[home[t]])
                      /\ jobQueue'[home[t]][i] = jobQueue[home[t]][i + 1]
    OBVIOUS
  <2>1. i + 1 \in 2..Len(q) /\ jobQueue'[home[t]][i] = q[i + 1] BY <1>1, <1>3
  <2>2. Len(q) \in Nat BY <1>1, <1>2
  <2> QED BY <2>1, <2>2
<1>4. \A s \in Calls : Takes(s)' => (s = t /\ job'[s] = Head(q)) \/ (s # t /\ Takes(s) /\ job'[s] = job[s])
  BY <1>1, <1>2 DEF Takes
<1>5. \A e \in running : \A s \in Calls : Takes(s)' => home[s] = e
  BY <1>1 DEF SingleExecutor, Takes
<1>7. Head(q) = jobQueue[home[t]][1] /\ 1 \in 1..Len(jobQueue[home[t]]) BY <1>3
<1> SUFFICES ASSUME NEW d \in Calls, NEW c \in After[d] \ started
             PROVE  /\ Passed(d)' => Gone(c)'
                    /\ \A e \in running : \A i, j \in 1..Len(jobQueue'[e]) :
                         jobQueue'[e][i] = c /\ jobQueue'[e][j] = d => i < j
  BY <1>1 DEF Sequenced
<1>8. ASSUME Gone(c) PROVE Gone(c)'
  <2>1. \A e \in running' : \A i \in 1..Len(jobQueue'[e]) : jobQueue'[e][i] # c
    <3> SUFFICES ASSUME NEW e \in running, NEW i \in 1..Len(jobQueue'[e])
                 PROVE  jobQueue'[e][i] # c
      BY <1>1
    <3>1. CASE e = home[t]
      <4>1. i + 1 \in 1..Len(jobQueue[e]) /\ jobQueue'[e][i] = jobQueue[e][i + 1]
        BY <1>b, <3>1
      <4> QED BY <1>8, <4>1 DEF Gone
    <3>2. CASE e # home[t] BY <1>2, <1>a, <1>8, <3>2 DEF Gone
    <3> QED BY <3>1, <3>2
  <2>2. \A s \in Calls : Takes(s)' => job'[s] # c
    <3>1. home[t] \in running => Head(q) # c BY <1>7, <1>8 DEF Gone
    <3>2. Takes(t)' => home[t] \in running BY <1>1 DEF Takes
    <3> QED BY <1>4, <1>8, <3>1, <3>2 DEF Gone
  <2> QED BY <2>1, <2>2 DEF Gone
<1>9. ASSUME Takes(t)', Head(q) = d PROVE Gone(c)'
  <2>1. home[t] \in running BY <1>1, <1>9 DEF Takes
  <2>2. c # d
    <3>1. d \in Handed BY <1>7, <1>1, <1>9 DEF OnePlace, Queues
    <3> QED BY <3>1 DEF Handed, Calling
  <2>3. \A s \in Calls : Takes(s)' => s = t
    BY <1>1, <1>4, <1>5, <2>1 DEF Takes, SingleThread
  <2>4. \A s \in Calls : Takes(s)' => job'[s] # c BY <1>4, <1>9, <2>2, <2>3
  <2>5. \A e \in running' : \A i \in 1..Len(jobQueue'[e]) : jobQueue'[e][i] # c
    <3> SUFFICES ASSUME NEW e \in running, NEW i \in 1..Len(jobQueue'[e]), jobQueue'[e][i] = c
                 PROVE  FALSE
      BY <1>1
    <3>1. e = home[t] BY <1>1, <2>1 DEF SingleExecutor
    <3>2. i + 1 \in 1..Len(jobQueue[e]) /\ jobQueue[e][i + 1] = c
      BY <1>b, <3>1
    <3>3. 1 \in 1..Len(jobQueue[e]) /\ jobQueue[e][1] = d BY <1>7, <1>9, <3>1
    <3>4. i + 1 < 1 BY <3>2, <3>3 DEF Sequenced
    <3> QED BY <3>4
  <2> QED BY <2>4, <2>5 DEF Gone
<1>10. Passed(d)' => Gone(c)'
  <2>1. Passed(d)' => Passed(d) \/ (Takes(t)' /\ Head(q) = d) BY <1>1, <1>4 DEF Passed
  <2> QED BY <1>8, <1>9, <2>1 DEF Sequenced
<1>11. ASSUME NEW e \in running, NEW i \in 1..Len(jobQueue'[e]), NEW j \in 1..Len(jobQueue'[e]),
              jobQueue'[e][i] = c, jobQueue'[e][j] = d
       PROVE  i < j
  <2>1. CASE e = home[t]
    <3>1. /\ i + 1 \in 1..Len(jobQueue[e]) /\ jobQueue[e][i + 1] = c
          /\ j + 1 \in 1..Len(jobQueue[e]) /\ jobQueue[e][j + 1] = d
      BY <1>b, <1>11, <2>1
    <3>2. i + 1 < j + 1 BY <3>1 DEF Sequenced
    <3> QED BY <3>2
  <2>2. CASE e # home[t]
    <3>1. /\ i \in 1..Len(jobQueue[e]) /\ jobQueue[e][i] = c
          /\ j \in 1..Len(jobQueue[e]) /\ jobQueue[e][j] = d
      BY <1>2, <1>a, <1>11, <2>2
    <3> QED BY <3>1 DEF Sequenced
  <2> QED BY <2>1, <2>2
<1> QED BY <1>10, <1>11

LEMMA NextCalling == TypeInv /\ OnePlace /\ Calling /\ [Next]_vars => Calling'
<1> SUFFICES ASSUME TypeInv, OnePlace, Calling, [Next]_vars PROVE Calling'
  OBVIOUS
<1> USE CallsAssumption DEF TypeInv, TypeOK, Placed, Holding, Before, Moves, pool, call, work, sip,
      Calling, Returned
<1>1. ASSUME NEW c \in Calls, CallStep(c) PROVE Calling'
  <2>1. CASE Lookup(c) BY <2>1 DEF Lookup, MayBegin
  <2>2. CASE Create(c) BY <2>2 DEF Create
  <2>3. CASE Check(c) BY <2>3 DEF Check
  <2>4. CASE StartNil(c) BY <2>4 DEF StartNil
  <2>5. CASE Start(c) BY <2>5 DEF Start
  <2>6. CASE StartThread(c) BY <2>6 DEF StartThread
  <2>7. CASE Refuse(c) BY <2>7 DEF Refuse
  <2>8. CASE Accept(c) BY <2>8 DEF Accept
  <2>9. CASE Push(c)
    <3>1. \A e \in Calls : e = target[c] \/ jobQueue'[e] = jobQueue[e] BY <2>9 DEF Push
    <3>2. target[c] \in ready \/ jobQueue' = jobQueue BY <2>9 DEF Push
    <3>3. /\ ready' = ready /\ started' = started
          /\ \A d \in Calls : pc'[d] # "idle" => pc[d] # "idle"
          /\ Returned \subseteq Returned'
          /\ \A d \in Calls : pc[d] # "idle" => pc'[d] # "idle"
      BY <2>9 DEF Push
    <3>4. \A e \in Calls : jobQueue'[e] # <<>> => e \in ready' BY <3>1, <3>2, <3>3
    <3> HIDE DEF Returned
    <3> QED BY <3>3, <3>4
  <2> QED BY <1>1, <2>1, <2>2, <2>3, <2>4, <2>5, <2>6, <2>7, <2>8, <2>9 DEF CallStep
<1>2. ASSUME NEW t \in Calls, LoopStep(t) PROVE Calling'
  <2>1. CASE Quit(t) BY <2>1 DEF Quit, Runs
  <2>2. CASE WaitForJob(t) BY <2>2 DEF WaitForJob, Runs
  <2>3. CASE PopFront(t) BY <2>3 DEF PopFront, Runs
  <2>4. CASE NoJob(t) BY <2>4 DEF NoJob
  <2>5. CASE QuitSignaled(t) BY <2>5 DEF QuitSignaled, Runs
  <2>6. CASE Execute(t)
    <3>1. job[t] \in Handed BY <2>6 DEF Execute, OnePlace, Hands
    <3>2. pc[job[t]] # "idle" BY <3>1 DEF Handed
    <3> QED BY <2>6, <3>2 DEF Execute
  <2> QED BY <1>2, <2>1, <2>2, <2>3, <2>4, <2>5, <2>6 DEF LoopStep
<1>3. ASSUME NEW t \in Calls, BlockStep(t) PROVE Calling'
  <2>1. CASE Work(t) BY <2>1 DEF Work, Finish
  <2>2. CASE StackStarts(t) BY <2>2 DEF StackStarts
  <2>3. CASE StackStarted(t) BY <2>3 DEF StackStarted, Finish
  <2>4. CASE StackFails(t) BY <2>4 DEF StackFails
  <2>5. CASE ErrorReturned(t) BY <2>5 DEF ErrorReturned, Finish
  <2>6. CASE ErrorDestroy(t) BY <2>6 DEF ErrorDestroy, Finish
  <2>7. CASE NothingToDestroy(t) BY <2>7 DEF NothingToDestroy, Finish
  <2>8. CASE StackDown(t) BY <2>8 DEF StackDown
  <2>9. CASE StopExecutor(t) BY <2>9 DEF StopExecutor
  <2>10. CASE ForgetExecutor(t) BY <2>10 DEF ForgetExecutor
  <2>11. CASE Destroyed(t) BY <2>11 DEF Destroyed, Finish
  <2> QED BY <1>3, <2>1, <2>2, <2>3, <2>4, <2>5, <2>6, <2>7, <2>8, <2>9, <2>10, <2>11 DEF BlockStep
<1>4. CASE UNCHANGED vars BY <1>4 DEF vars
<1> QED BY <1>1, <1>2, <1>3, <1>4 DEF Next

LEMMA NextSequenced ==
  TypeInv /\ Single /\ OnePlace /\ Calling /\ Sequenced /\ ~raced /\ ~raced' /\ [Next]_vars
    => Sequenced'
<1> SUFFICES ASSUME TypeInv, SingleExecutor, SingleThread, OnePlace, Calling, Sequenced, ~raced',
                    [Next]_vars
             PROVE  Sequenced'
  BY DEF Single
<1> DEFINE Quiet ==
      /\ \A e \in running' : jobQueue'[e] = <<>> \/ (e \in running /\ jobQueue'[e] = jobQueue[e])
      /\ \A t \in Calls : Takes(t)' => Takes(t) /\ job'[t] = job[t]
      /\ started \subseteq started' /\ \A d \in started' : Passed(d)
<1>0. ASSUME Quiet PROVE Sequenced' BY <1>0, SequencedFrame
<1> USE DEF TypeInv, TypeOK, Placed, Moves, pool, call, work, sip, Takes
<1>1. ASSUME NEW c \in Calls, CallStep(c) PROVE Sequenced'
  <2>1. CASE Lookup(c) BY <1>0, <2>1 DEF Lookup, Passed
  <2>2. CASE Create(c) BY <1>0, <2>2 DEF Create, Passed
  <2>3. CASE Check(c) BY <1>0, <2>3 DEF Check, Passed
  <2>4. CASE StartNil(c) BY <1>0, <2>4 DEF StartNil, Passed
  <2>5. CASE Start(c)
    <3>1. executor \notin running \cup ready BY ~raced', <2>5 DEF Start
    <3>2. Quiet BY <2>5, <3>1 DEF Start, Passed, Calling
    <3> QED BY <1>0, <3>2
  <2>6. CASE StartThread(c)
    <3>1. target[c] \in Calls /\ target[c] \notin ready BY <2>6 DEF StartThread, SingleThread
    <3>2. Quiet BY <2>6, <3>1 DEF StartThread, Passed
    <3> QED BY <1>0, <3>2
  <2>7. CASE Refuse(c) BY <1>0, <2>7 DEF Refuse, Passed
  <2>8. CASE Accept(c) BY <1>0, <2>8 DEF Accept, Passed
  <2>9. CASE Push(c) BY <2>9, PushSequenced
  <2> QED BY <1>1, <2>1, <2>2, <2>3, <2>4, <2>5, <2>6, <2>7, <2>8, <2>9 DEF CallStep
<1>2. ASSUME NEW t \in Calls, LoopStep(t) PROVE Sequenced'
  <2>1. CASE Quit(t) BY <1>0, <2>1 DEF Quit, Passed
  <2>2. CASE WaitForJob(t) BY <1>0, <2>2 DEF WaitForJob, Passed
  <2>3. CASE PopFront(t) BY <2>3, PopSequenced
  <2>4. CASE NoJob(t) BY <1>0, <2>4 DEF NoJob, Passed
  <2>5. CASE QuitSignaled(t) BY <1>0, <2>5 DEF QuitSignaled, Passed
  <2>6. CASE Execute(t) BY <1>0, <2>6 DEF Execute, Runs, Passed
  <2> QED BY <1>2, <2>1, <2>2, <2>3, <2>4, <2>5, <2>6 DEF LoopStep
<1>3. ASSUME NEW t \in Calls, BlockStep(t) PROVE Sequenced'
  <2>1. CASE Work(t) BY <1>0, <2>1 DEF Work, Finish, Passed
  <2>2. CASE StackStarts(t) BY <1>0, <2>2 DEF StackStarts, Passed
  <2>3. CASE StackStarted(t) BY <1>0, <2>3 DEF StackStarted, Finish, Passed
  <2>4. CASE StackFails(t) BY <1>0, <2>4 DEF StackFails, Passed
  <2>5. CASE ErrorReturned(t) BY <1>0, <2>5 DEF ErrorReturned, Finish, Passed
  <2>6. CASE ErrorDestroy(t) BY <1>0, <2>6 DEF ErrorDestroy, Finish, Passed
  <2>7. CASE NothingToDestroy(t) BY <1>0, <2>7 DEF NothingToDestroy, Finish, Passed
  <2>8. CASE StackDown(t) BY <1>0, <2>8 DEF StackDown, Passed
  <2>9. CASE StopExecutor(t) BY <1>0, <2>9 DEF StopExecutor, Passed
  <2>10. CASE ForgetExecutor(t) BY <1>0, <2>10 DEF ForgetExecutor, Passed
  <2>11. CASE Destroyed(t) BY <1>0, <2>11 DEF Destroyed, Finish, Passed
  <2> QED BY <1>3, <2>1, <2>2, <2>3, <2>4, <2>5, <2>6, <2>7, <2>8, <2>9, <2>10, <2>11 DEF BlockStep
<1>4. CASE UNCHANGED vars BY <1>0, <1>4 DEF vars, Passed
<1> QED BY <1>1, <1>2, <1>3, <1>4 DEF Next

\* Races are remembered, and only a thread that executes changes what was.
LEMMA StepHistory ==
  TypeInv /\ [Next]_vars =>
    /\ raced => raced'
    /\ started' = started \/ \E t \in Calls : Execute(t)
BY DEF Next, vars, CallStep, LoopStep, BlockStep, Lookup, Create, Check, StartNil, Start,
    StartThread, Refuse, Accept, Push, Quit, WaitForJob, PopFront, NoJob, QuitSignaled, Work,
    StackStarts, StackStarted, StackFails, ErrorReturned, ErrorDestroy, NothingToDestroy, StackDown,
    StopExecutor, ForgetExecutor, Destroyed, Finish, Execute, TypeInv, TypeOK

LEMMA NextOrder ==
  TypeInv /\ Single /\ OnePlace /\ OrderInv /\ [Next]_vars => OrderInv'
BY NextCalling, NextSequenced, StepHistory DEF OrderInv

(***************************************************************************)
(* Until two calls race, the jobs of one thread are executed in the order  *)
(* it called, whether it waited for them or not.                           *)
(***************************************************************************)
THEOREM Ordered == Spec => InOrder
<1> DEFINE Step == \A d \in started : \A c \in After[d] : c \in started' /\ ~raced => c \in started
<1>1. TypeInv /\ OrderInv /\ [Next]_vars => Step
  <2> SUFFICES ASSUME TypeInv, OrderInv, [Next]_vars, NEW d \in started, NEW c \in After[d],
                      c \in started', ~raced, c \notin started
               PROVE  FALSE
    OBVIOUS
  <2>1. PICK t \in Calls : Execute(t) BY StepHistory
  <2>2. Takes(t) /\ job[t] = c BY <2>1 DEF Execute, Runs, Takes
  <2>3. d \in Calls BY DEF TypeInv, TypeOK
  <2>4. Gone(c) BY <2>3 DEF OrderInv, Sequenced, Passed
  <2> QED BY <2>1, <2>2, <2>4 DEF Gone
<1> QED
  BY <1>1, InitType, NextType, InitSingle, NextSingle, InitOnePlace, NextOnePlace, InitOrder,
     NextOrder, PTL DEF Spec, InOrder

-----------------------------------------------------------------------------
(***************************************************************************)
(* The executors implement SerialJobs.                                     *)
(***************************************************************************)

\* No job that was executed is still to be executed.
Fresh ==
  /\ started \subseteq Given
  /\ \A e \in Calls : \A i \in 1..Len(jobQueue[e]) : jobQueue[e][i] \notin started
  /\ \A t \in Calls : thread[t] = "popped" => job[t] \notin started

LEMMA InitFresh == Init => Fresh
BY DEF Init, Fresh

\* A step that executes, pushes and pops nothing.
LEMMA FreshFrame ==
  ASSUME Fresh, started' = started, Given \subseteq Given',
         \A e \in Calls : jobQueue'[e] = <<>> \/ jobQueue'[e] = jobQueue[e],
         \A t \in Calls : thread'[t] = "popped" => thread[t] = "popped" /\ job'[t] = job[t]
  PROVE  Fresh'
<1>1. Len(<<>>) = 0 OBVIOUS
<1> QED BY <1>1 DEF Fresh

LEMMA NextFresh == TypeInv /\ OnePlace /\ Fresh /\ [Next]_vars => Fresh'
<1> SUFFICES ASSUME TypeInv, OnePlace, Fresh, [Next]_vars PROVE Fresh'
  OBVIOUS
<1> USE CallsAssumption, FreshFrame DEF TypeInv, TypeOK, Placed, Moves, pool, call, work, sip, Given
<1>1. ASSUME NEW c \in Calls, CallStep(c) PROVE Fresh'
  <2>1. CASE Lookup(c) BY <2>1 DEF Lookup
  <2>2. CASE Create(c) BY <2>2 DEF Create
  <2>3. CASE Check(c) BY <2>3 DEF Check
  <2>4. CASE StartNil(c) BY <2>4 DEF StartNil
  <2>5. CASE Start(c) BY <2>5 DEF Start
  <2>6. CASE StartThread(c) BY <2>6 DEF StartThread
  <2>7. CASE Refuse(c) BY <2>7 DEF Refuse
  <2>8. CASE Accept(c) BY <2>8 DEF Accept
  <2>9. CASE Push(c)
    <3>1. /\ started' = started /\ thread' = thread /\ job' = job
          /\ Given \subseteq Given' /\ c \notin started
      BY <2>9 DEF Push, Fresh
    <3>2. \A e \in Calls : \A i \in 1..Len(jobQueue'[e]) :
            jobQueue'[e][i] = c \/ (i \in 1..Len(jobQueue[e]) /\ jobQueue'[e][i] = jobQueue[e][i])
      <4>1. CASE target[c] \in ready BY <2>9, <4>1, AppendEntries DEF Push
      <4>2. CASE target[c] \notin ready BY <2>9, <4>2 DEF Push
      <4> QED BY <4>1, <4>2
    <3> HIDE FreshFrame DEF Given
    <3> QED BY <3>1, <3>2 DEF Fresh
  <2> QED BY <1>1, <2>1, <2>2, <2>3, <2>4, <2>5, <2>6, <2>7, <2>8, <2>9 DEF CallStep
<1>2. ASSUME NEW t \in Calls, LoopStep(t) PROVE Fresh'
  <2>1. CASE Quit(t) BY <2>1 DEF Quit
  <2>2. CASE WaitForJob(t) BY <2>2 DEF WaitForJob
  <2>3. CASE PopFront(t)
    <3>1. /\ jobQueue[home[t]] # <<>> /\ home[t] \in Calls
          /\ jobQueue \in [Calls -> Seq(Calls)]
          /\ jobQueue' = [jobQueue EXCEPT ![home[t]] = Tail(@)]
      BY <2>3 DEF PopFront
    <3>2. /\ started' = started /\ Given' = Given
          /\ \A s \in Calls : thread'[s] = "popped" =>
               job'[s] = Head(jobQueue[home[t]]) \/ (thread[s] = "popped" /\ job'[s] = job[s])
      BY <2>3 DEF PopFront
    <3> HIDE CallsAssumption, FreshFrame DEF TypeInv, TypeOK, Placed, Moves, pool, call, work, sip, Given
    <3>3. \A e \in Calls : \A i \in 1..Len(jobQueue[e]) : jobQueue[e][i] \notin started
      BY DEF Fresh
    <3>4. /\ Head(jobQueue[home[t]]) \notin started
          /\ \A e \in Calls : \A i \in 1..Len(jobQueue'[e]) : jobQueue'[e][i] \notin started
      BY <3>1, <3>3, TailAvoids
    <3> QED BY <3>2, <3>4 DEF Fresh
  <2>4. CASE NoJob(t) BY <2>4 DEF NoJob
  <2>5. CASE QuitSignaled(t) BY <2>5 DEF QuitSignaled
  <2>6. CASE Execute(t)
    <3>1. job[t] \in Given /\ job[t] # none
      BY <2>6 DEF Execute, OnePlace, Hands, Handed, Holding
    <3>2. /\ \A s \in Calls : thread'[s] = "popped" => job'[s] # job[t]
          /\ \A e \in Calls : \A i \in 1..Len(jobQueue'[e]) : jobQueue'[e][i] # job[t]
      BY <2>6, <3>1 DEF Execute, OnePlace, Hands
    <3> QED BY <2>6, <3>1, <3>2 DEF Execute, Fresh
  <2> QED BY <1>2, <2>1, <2>2, <2>3, <2>4, <2>5, <2>6 DEF LoopStep
<1>3. ASSUME NEW t \in Calls, BlockStep(t) PROVE Fresh'
  <2>1. CASE Work(t) BY <2>1 DEF Work, Finish
  <2>2. CASE StackStarts(t) BY <2>2 DEF StackStarts
  <2>3. CASE StackStarted(t) BY <2>3 DEF StackStarted, Finish
  <2>4. CASE StackFails(t) BY <2>4 DEF StackFails
  <2>5. CASE ErrorReturned(t) BY <2>5 DEF ErrorReturned, Finish
  <2>6. CASE ErrorDestroy(t) BY <2>6 DEF ErrorDestroy, Finish
  <2>7. CASE NothingToDestroy(t) BY <2>7 DEF NothingToDestroy, Finish
  <2>8. CASE StackDown(t) BY <2>8 DEF StackDown
  <2>9. CASE StopExecutor(t) BY <2>9 DEF StopExecutor
  <2>10. CASE ForgetExecutor(t) BY <2>10 DEF ForgetExecutor
  <2>11. CASE Destroyed(t) BY <2>11 DEF Destroyed, Finish
  <2> QED BY <1>3, <2>1, <2>2, <2>3, <2>4, <2>5, <2>6, <2>7, <2>8, <2>9, <2>10, <2>11 DEF BlockStep
<1>4. CASE UNCHANGED vars BY <1>4 DEF vars
<1> QED BY <1>1, <1>2, <1>3, <1>4 DEF Next

JobsStep == [Jobs!Next]_(Jobs!vars)

\* A step that those who give jobs do not see.
LEMMA Unseen ==
  ASSUME Given' = Given, Pending' = Pending, Active' = Active, started' = started,
         LetGo' = LetGo, raced' = raced
  PROVE  JobsStep
BY DEF JobsStep, Jobs!vars

\* Queues of running executors and what their threads popped stay.
LEMMA PendingFrame ==
  ASSUME \A e \in running' : jobQueue'[e] = <<>> \/ (e \in running /\ jobQueue'[e] = jobQueue[e]),
         \A e \in running : jobQueue[e] = <<>> \/ (e \in running' /\ jobQueue'[e] = jobQueue[e]),
         \A t \in Calls : Takes(t)' <=> Takes(t),
         \A t \in Calls : Takes(t) => job'[t] = job[t]
  PROVE  Pending' = Pending
<1>1. Len(<<>>) = 0 OBVIOUS
<1>2. ASSUME NEW c, NEW e \in running, NEW i \in 1..Len(jobQueue[e]), jobQueue[e][i] = c
      PROVE  \E f \in running' : \E j \in 1..Len(jobQueue'[f]) : jobQueue'[f][j] = c
  BY <1>1, <1>2
<1>3. ASSUME NEW c, NEW e \in running', NEW i \in 1..Len(jobQueue'[e]), jobQueue'[e][i] = c
      PROVE  \E f \in running : \E j \in 1..Len(jobQueue[f]) : jobQueue[f][j] = c
  BY <1>1, <1>3
<1> QED BY <1>2, <1>3 DEF Pending, Takes, Runs

LEMMA ActiveFrame ==
  ASSUME TypeInv, TypeInv', Inside' = Inside, \A t \in Inside : job'[t] = job[t]
  PROVE  Active' = Active
BY DEF Active

LEMMA PushHands ==
  ASSUME TypeInv, TypeInv', OnePlace, Calling, NEW c \in Calls, Push(c), ~raced' PROVE JobsStep
<1>1. /\ running' = running /\ started' = started /\ thread' = thread /\ home' = home
      /\ job' = job /\ pc[c] = "push" /\ target[c] \in ready /\ raced' = raced
      /\ jobQueue' = [jobQueue EXCEPT ![target[c]] = Append(@, c)]
      /\ pc' = [pc EXCEPT ![c] = IF c \in Async THEN "done" ELSE "wait"]
  BY DEF Push, Moves, work, TypeInv, TypeOK
<1>2. /\ jobQueue \in [Calls -> Seq(Calls)] /\ target[c] \in Calls /\ running \subseteq Calls
      /\ pc \in [Calls -> {"idle", "create", "check", "start", "starting", "add", "refused",
                       "push", "wait", "done"}]
  BY <1>1 DEF TypeInv, TypeOK
<1>3. \A e \in Calls : \A i \in 1..Len(jobQueue'[e]) :
        \/ e = target[c] /\ i = Len(jobQueue[target[c]]) + 1 /\ jobQueue'[e][i] = c
        \/ i \in 1..Len(jobQueue[e]) /\ jobQueue'[e][i] = jobQueue[e][i]
  BY <1>1, <1>2, AppendEntries
<1>4. ASSUME NEW e \in Calls, NEW i \in 1..Len(jobQueue[e])
      PROVE  i \in 1..Len(jobQueue'[e]) /\ jobQueue'[e][i] = jobQueue[e][i]
  <2>1. CASE e = target[c]
    <3>1. jobQueue'[e] = Append(jobQueue[e], c) /\ jobQueue[e] \in Seq(Calls) BY <1>1, <1>2, <2>1
    <3> QED BY <3>1
  <2>2. CASE e # target[c] BY <1>1, <1>2, <2>2
  <2> QED BY <2>1, <2>2
<1>5. c \notin Given /\ Given' = Given \union {c} BY <1>1, <1>2 DEF Given
<1>6. \A d \in Given : c \notin After[d]
  <2>1. c \notin Returned BY <1>1 DEF Returned
  <2> QED BY <2>1 DEF Given, Calling
<1>7. Pending' \in {Pending, Pending \union {c}}
  <2>1. Pending' \subseteq Pending \union {c} BY <1>1, <1>2, <1>3 DEF Pending, Runs
  <2>2. ASSUME NEW d \in Pending PROVE d \in Pending'
    <3>1. CASE \E e \in running : \E i \in 1..Len(jobQueue[e]) : jobQueue[e][i] = d
      <4>1. PICK e \in running : \E i \in 1..Len(jobQueue[e]) : jobQueue[e][i] = d BY <3>1
      <4>2. PICK i \in 1..Len(jobQueue[e]) : jobQueue[e][i] = d BY <4>1
      <4>3. e \in running' /\ i \in 1..Len(jobQueue'[e]) /\ jobQueue'[e][i] = d
        BY <1>1, <1>2, <1>4, <4>2
      <4> QED BY <4>3 DEF Pending
    <3>2. CASE \E t \in Calls : thread[t] = "popped" /\ Runs(t) /\ job[t] = d
      BY <1>1, <3>2 DEF Pending, Runs
    <3> QED BY <3>1, <3>2 DEF Pending
  <2> QED BY <2>1, <2>2
<1>8. Active' = Active BY <1>1, ActiveFrame DEF Inside
<1>9. LetGo' = LetGo BY <1>1, <1>2 DEF LetGo
<1>10. Jobs!Hand(c) BY <1>1, <1>5, <1>6, <1>7, <1>8, <1>9 DEF Jobs!Hand
<1> QED BY <1>10 DEF JobsStep, Jobs!Next

LEMMA PopUnseen ==
  ASSUME TypeInv, TypeInv', OnePlace, NEW t \in Calls, PopFront(t) PROVE JobsStep
<1> DEFINE q == jobQueue[home[t]]
<1>1. /\ running' = running /\ started' = started /\ home' = home /\ raced' = raced
      /\ q # <<>> /\ home[t] \in Calls /\ thread[t] \in {"loop", "waiting"} /\ pc' = pc
      /\ thread' = [thread EXCEPT ![t] = "popped"] /\ job' = [job EXCEPT ![t] = Head(q)]
      /\ jobQueue' = [jobQueue EXCEPT ![home[t]] = Tail(@)]
  BY DEF PopFront, call, TypeInv, TypeOK, Placed
<1>2. /\ jobQueue \in [Calls -> Seq(Calls)] /\ running \subseteq Calls
      /\ thread \in [Calls -> {"none", "loop", "waiting", "popped", "executing", "up", "failed",
                               "down", "stopped", "forgotten", "ended"}]
      /\ job \in [Calls -> Calls \cup {none}]
  BY DEF TypeInv, TypeOK
<1>3. /\ \A e \in Calls : \A i \in 1..Len(jobQueue'[e]) :
           IF e = home[t] THEN i + 1 \in 2..Len(q) /\ jobQueue'[e][i] = q[i + 1]
                          ELSE i \in 1..Len(jobQueue[e]) /\ jobQueue'[e][i] = jobQueue[e][i]
      /\ Head(q) = q[1] /\ 1 \in 1..Len(q)
  BY <1>1, <1>2, TailEntries
<1>4. q \in Seq(Calls) /\ Len(q) \in Nat BY <1>1, <1>2
<1>5. /\ Len(Tail(q)) = Len(q) - 1
      /\ \A k \in 1..(Len(q) - 1) : Tail(q)[k] = q[k + 1]
  BY <1>1, <1>4
<1>6. jobQueue'[home[t]] = Tail(q) /\ \A e \in Calls \ {home[t]} : jobQueue'[e] = jobQueue[e]
  BY <1>1, <1>2
\* What is left in the queue, and who popped what.
<1>7. \A i \in 1..Len(jobQueue'[home[t]]) : \E j \in 1..Len(q) : jobQueue'[home[t]][i] = q[j]
  <2> SUFFICES ASSUME NEW i \in 1..Len(jobQueue'[home[t]])
               PROVE  \E j \in 1..Len(q) : jobQueue'[home[t]][i] = q[j]
    OBVIOUS
  <2>1. i + 1 \in 1..Len(q) /\ jobQueue'[home[t]][i] = q[i + 1] BY <1>1, <1>3, <1>4
  <2> QED BY <2>1
<1>8. \A j \in 1..Len(q) : q[j] = Head(q) \/ \E i \in 1..Len(jobQueue'[home[t]]) : jobQueue'[home[t]][i] = q[j]
  <2> SUFFICES ASSUME NEW j \in 1..Len(q), j # 1
               PROVE  \E i \in 1..Len(Tail(q)) : Tail(q)[i] = q[j]
    BY <1>3, <1>6
  <2>1. j - 1 \in 1..Len(Tail(q)) /\ Tail(q)[j - 1] = q[j] BY <1>4, <1>5
  <2> QED BY <2>1
<1>9. /\ \A s \in Calls \ {t} : thread'[s] = thread[s] /\ job'[s] = job[s]
      /\ thread'[t] = "popped" /\ job'[t] = Head(q)
  BY <1>1, <1>2
<1> HIDE DEF q
<1>10. \A c \in Calls :
         (\E j \in 1..Len(q) : q[j] = c)
           <=> (c = Head(q) \/ \E i \in 1..Len(jobQueue'[home[t]]) : jobQueue'[home[t]][i] = c)
  BY <1>3, <1>7, <1>8
<1>11. Pending' = Pending
  <2> SUFFICES ASSUME NEW c \in Calls PROVE c \in Pending' <=> c \in Pending
    BY DEF Pending
  <2> DEFINE other == \/ \E e \in running \ {home[t]} : \E i \in 1..Len(jobQueue[e]) : jobQueue[e][i] = c
                      \/ \E s \in Calls \ {t} : thread[s] = "popped" /\ home[s] \in running /\ job[s] = c
             in == home[t] \in running /\ \E j \in 1..Len(q) : q[j] = c
  <2>1. c \in Pending <=> other \/ in
    BY <1>1 DEF Pending, Runs, q
  <2>2. c \in Pending' <=> other \/ (home[t] \in running /\
          (c = Head(q) \/ \E i \in 1..Len(jobQueue'[home[t]]) : jobQueue'[home[t]][i] = c))
    <3>1. running \subseteq Calls /\ running' = running /\ home' = home BY <1>1, <1>2
    <3>2. (\E e \in running' : \E i \in 1..Len(jobQueue'[e]) : jobQueue'[e][i] = c)
            <=> \/ \E e \in running \ {home[t]} : \E i \in 1..Len(jobQueue[e]) : jobQueue[e][i] = c
                \/ home[t] \in running /\ \E i \in 1..Len(jobQueue'[home[t]]) : jobQueue'[home[t]][i] = c
      BY <1>6, <3>1
    <3>3. (\E s \in Calls : thread'[s] = "popped" /\ home'[s] \in running' /\ job'[s] = c)
            <=> \/ \E s \in Calls \ {t} : thread[s] = "popped" /\ home[s] \in running /\ job[s] = c
                \/ home[t] \in running /\ c = Head(q)
      BY <1>9, <3>1
    <3> QED BY <3>2, <3>3 DEF Pending, Runs
  <2> QED BY <1>10, <2>1, <2>2
<1>12. Active' = Active
  <2>1. Inside' = Inside /\ t \notin Inside BY <1>1, <1>9 DEF Inside
  <2> QED BY <1>9, <2>1, ActiveFrame DEF Inside
<1>13. Given' = Given /\ LetGo' = LetGo BY <1>1 DEF Given, LetGo
<1> QED BY <1>1, <1>11, <1>12, <1>13, Unseen

LEMMA ExecuteBegins ==
  ASSUME TypeInv, SingleExecutor, SingleThread, OnePlace, Sequenced, Fresh,
         NEW t \in Calls, Execute(t)
  PROVE  JobsStep
<1> DEFINE c == job[t]
<1>1. /\ thread[t] = "popped" /\ home[t] \in running /\ c \in Calls /\ c # none
      /\ started' = started \union {c} /\ thread' = [thread EXCEPT ![t] = "executing"]
      /\ UNCHANGED <<running, jobQueue, home, job, pc, raced>>
  BY CallsAssumption DEF Execute, Runs, pool, call, TypeInv, TypeOK, Placed, Holding
<1>2. \A s \in Calls : thread'[s] = IF s = t THEN "executing" ELSE thread[s]
  BY <1>1 DEF TypeInv, TypeOK
<1>3. Inside = {}
  <2>1. \A s \in Inside : s = t BY <1>1 DEF SingleExecutor, SingleThread, Inside
  <2> QED BY <1>1, <2>1 DEF Inside
<1>4. Active = {} BY <1>3 DEF Active
<1>5. Active' = {c}
  <2>1. Inside' = {t} BY <1>2, <1>3 DEF Inside
  <2> QED BY <1>1, <2>1 DEF Active
<1>6. c \in Pending /\ c \notin started BY <1>1 DEF Pending, Runs, Fresh
<1>7. After[c] \intersect Pending = {}
  <2> SUFFICES ASSUME NEW d \in After[c], d \in Pending PROVE FALSE
    OBVIOUS
  <2>1. CASE d \in started
    <3>1. running \subseteq Calls BY DEF TypeInv, TypeOK
    <3> QED BY <2>1, <3>1 DEF Pending, Fresh
  <2>2. CASE d \notin started
    <3>1. Takes(t) BY <1>1 DEF Takes
    <3>2. Passed(c) BY <3>1 DEF Passed
    <3>3. Gone(d) BY <1>1, <2>2, <3>2 DEF Sequenced
    <3> QED BY <3>3 DEF Gone, Pending, Takes, Runs
  <2> QED BY <2>1, <2>2
<1>8. Pending' = Pending \ {c}
  <2> SUFFICES ASSUME NEW d \in Calls PROVE d \in Pending' <=> d \in Pending /\ d # c
    BY DEF Pending
  <2>1. (\E s \in Calls : thread'[s] = "popped" /\ home'[s] \in running' /\ job'[s] = d)
          <=> d # c /\ \E s \in Calls : thread[s] = "popped" /\ home[s] \in running /\ job[s] = d
    <3>1. \A s \in Calls : job[s] = c => s = t BY <1>1 DEF OnePlace, Hands
    <3> QED BY <1>1, <1>2, <3>1
  <2>2. \A e \in running : \A i \in 1..Len(jobQueue[e]) : jobQueue[e][i] # c
    <3>1. running \subseteq Calls BY DEF TypeInv, TypeOK
    <3> QED BY <3>1 DEF OnePlace, Hands
  <2> QED BY <1>1, <2>1, <2>2 DEF Pending, Runs
<1>9. Given' = Given /\ LetGo' = LetGo BY <1>1 DEF Given, LetGo
<1>10. Jobs!Begin(c) BY <1>1, <1>4, <1>5, <1>6, <1>7, <1>8, <1>9 DEF Jobs!Begin
<1> QED BY <1>1, <1>10 DEF JobsStep, Jobs!Next

\* The end of a block, one that gave up its executor included.
LEMMA FinishEnds ==
  ASSUME TypeInv, TypeInv', OnePlace, NEW t \in Calls, NEW from \in Holding \ {"popped"},
         Finish(t, from)
  PROVE  JobsStep
<1> DEFINE c == job[t]
<1>1. /\ thread[t] = from /\ c \in Calls /\ c # none /\ c \in started /\ c \in Handed
      /\ thread' = [thread EXCEPT ![t] = "loop"] /\ job' = [job EXCEPT ![t] = none]
      /\ pc' = [pc EXCEPT ![c] = IF @ = "wait" THEN "done" ELSE @]
      /\ UNCHANGED <<running, jobQueue, home, started, raced>>
  BY CallsAssumption DEF Finish, pool, TypeInv, TypeOK, Placed, Holding, OnePlace, Hands
<1>2. \A s \in Calls : /\ thread'[s] = IF s = t THEN "loop" ELSE thread[s]
                       /\ job'[s] = IF s = t THEN none ELSE job[s]
  BY <1>1 DEF TypeInv, TypeOK
<1>3. \A d \in Calls : pc'[d] = IF d = c /\ pc[d] = "wait" THEN "done" ELSE pc[d]
  BY <1>1 DEF TypeInv, TypeOK
<1>4. Given' = Given BY <1>3 DEF Given
<1>5. LetGo' = LetGo \union ({c} \ Async)
  <2>1. pc[c] = "wait" \/ c \in Async BY <1>1 DEF Handed
  <2> QED BY <1>1, <1>3, <2>1 DEF LetGo
<1>6. Pending' = Pending
  <2>1. \A s \in Calls : Takes(s)' <=> Takes(s) BY <1>1, <1>2 DEF Takes, Holding
  <2>2. \A s \in Calls : Takes(s) => job'[s] = job[s] BY <1>1, <1>2 DEF Takes, Holding
  <2> QED BY <1>1, <2>1, <2>2, PendingFrame
<1>7. Active' = Active \ {c}
  <2>1. Inside' = Inside \ {t} BY <1>2 DEF Inside
  <2>2. \A s \in Calls : job[s] = c <=> s = t BY <1>1 DEF OnePlace, Hands
  <2>3. Active' = {job[s] : s \in Inside \ {t}}
    <3>1. \A s \in Inside \ {t} : job'[s] = job[s] BY <1>2 DEF Inside
    <3> QED BY <2>1, <3>1 DEF Active
  <2> QED BY <2>2, <2>3 DEF Active, Inside
<1>8. Jobs!Finish(c) BY <1>1, <1>4, <1>5, <1>6, <1>7 DEF Jobs!Finish
<1> QED BY <1>1, <1>8 DEF JobsStep, Jobs!Next

LEMMA StopTearsDown ==
  ASSUME TypeInv, SingleExecutor, SingleThread, NEW t \in Calls, StopExecutor(t)
  PROVE  JobsStep
<1>1. /\ thread[t] = "down" /\ thread' = [thread EXCEPT ![t] = "stopped"]
      /\ running' = running \ {executor}
      /\ UNCHANGED <<jobQueue, home, job, pc, started, raced>>
  BY DEF StopExecutor, call
<1>2. t \in Inside /\ Inside' = {}
  <2>1. \A s \in Inside : s = t BY <1>1 DEF SingleExecutor, SingleThread, Inside
  <2>2. \A s \in Calls : thread'[s] = IF s = t THEN "stopped" ELSE thread[s]
    BY <1>1 DEF TypeInv, TypeOK
  <2> QED BY <1>1, <2>1, <2>2 DEF Inside
<1>3. Active # {} /\ Active' = {} BY <1>2 DEF Active
<1>4. running' = {} BY <1>1 DEF SingleExecutor
<1>5. Pending' = {} BY <1>4 DEF Pending, Runs
<1>6. Given' = Given /\ LetGo' = LetGo BY <1>1 DEF Given, LetGo
<1>7. Jobs!TearDown BY <1>1, <1>3, <1>5, <1>6 DEF Jobs!TearDown
<1> QED BY <1>7 DEF JobsStep, Jobs!Next

\* After a race, too, nobody is let go before his job was executed.
LEMMA RaceBreaks ==
  ASSUME TypeInv, OnePlace, OnePlace', [Next]_vars, raced' PROVE JobsStep
<1>1. started \subseteq started' BY StepHistory DEF Execute
<1>2. LetGo \subseteq LetGo'
  <2>1. ASSUME NEW c \in Calls, pc[c] = "done" PROVE pc'[c] = "done"
    <3>1. DOMAIN pc = Calls BY DEF TypeInv, TypeOK
    <3>2. ASSUME NEW d \in Calls, CallStep(d) PROVE pc'[c] = "done"
      <4>1. pc[d] # "done" /\ \E to : pc' = [pc EXCEPT ![d] = to]
        BY <3>2, Zenon DEF CallStep, Lookup, Create, Check, StartNil, Start, StartThread, Refuse,
          Accept, Push, Moves
      <4> QED BY <2>1, <3>1, <4>1
    <3>3. ASSUME NEW t \in Calls, LoopStep(t) PROVE pc' = pc
      BY <3>3 DEF LoopStep, Quit, WaitForJob, PopFront, QuitSignaled, NoJob, Execute, call
    <3>4. ASSUME NEW t \in Calls, BlockStep(t)
          PROVE  pc' = pc \/ \E d : pc' = [pc EXCEPT ![d] = IF @ = "wait" THEN "done" ELSE @]
      BY <3>4 DEF BlockStep, Work, StackStarts, StackStarted, StackFails, ErrorReturned,
        ErrorDestroy, NothingToDestroy, StackDown, StopExecutor, ForgetExecutor, Destroyed,
        Finish, call
    <3>5. CASE UNCHANGED vars BY <2>1, <3>5 DEF vars, call
    <3> QED BY <2>1, <3>1, <3>2, <3>3, <3>4, <3>5 DEF Next
  <2> QED BY <2>1 DEF LetGo
<1>3. LetGo' \subseteq started' BY DEF LetGo, OnePlace, Hands
<1> QED BY <1>1, <1>2, <1>3 DEF JobsStep, Jobs!Next, Jobs!Race

LEMMA StepJobs ==
  TypeInv /\ TypeInv' /\ Single /\ OnePlace /\ OnePlace' /\ OrderInv /\ Fresh /\ [Next]_vars
    => JobsStep
<1> SUFFICES ASSUME TypeInv, TypeInv', Single, OnePlace, OnePlace', OrderInv, Fresh, [Next]_vars,
                    ~raced'
             PROVE  JobsStep
  BY RaceBreaks
<1>0. ~raced /\ SingleExecutor /\ SingleThread /\ Calling /\ Sequenced
  BY StepHistory DEF Single, OrderInv
<1> DEFINE Hidden ==
      /\ \A e \in running' : jobQueue'[e] = <<>> \/ (e \in running /\ jobQueue'[e] = jobQueue[e])
      /\ \A e \in running : jobQueue[e] = <<>> \/ (e \in running' /\ jobQueue'[e] = jobQueue[e])
      /\ \A t \in Calls : Takes(t)' <=> Takes(t)
      /\ \A t \in Calls : Takes(t) => job'[t] = job[t]
      /\ Inside' = Inside /\ \A t \in Inside : job'[t] = job[t]
      /\ \A c \in Calls : \A p \in {"wait", "done"} : pc'[c] = p <=> pc[c] = p
      /\ started' = started /\ raced' = raced
<1>1. ASSUME Hidden PROVE JobsStep
  <2>1. Pending' = Pending BY <1>1, PendingFrame
  <2>2. Active' = Active BY <1>1, ActiveFrame
  <2>3. Given' = Given /\ LetGo' = LetGo BY <1>1 DEF Given, LetGo
  <2> QED BY <1>1, <2>1, <2>2, <2>3, Unseen
<1>2. ASSUME NEW c \in Calls, CallStep(c) PROVE JobsStep
  <2> USE DEF TypeInv, TypeOK, Placed, Moves, pool, call, work, sip, Takes, Inside
  <2>1. CASE Lookup(c) BY <1>1, <2>1 DEF Lookup
  <2>2. CASE Create(c)
    <3>1. raced' = FALSE /\ raced = FALSE BY <1>0, <2>2 DEF Create
    <3>2. UNCHANGED <<running, jobQueue, home, thread, job, started>> BY <2>2 DEF Create
    <3>3. \A d \in Calls : \A p \in {"wait", "done"} : pc'[d] = p <=> pc[d] = p
      BY <2>2 DEF Create
    <3> QED BY <1>1, <3>1, <3>2, <3>3
  <2>3. CASE Check(c) BY <1>1, <2>3 DEF Check
  <2>4. CASE StartNil(c) BY <1>1, <2>4 DEF StartNil
  <2>5. CASE Start(c)
    <3>1. executor \notin running \cup ready /\ raced' = raced BY <1>0, <2>5 DEF Start
    <3>2. Hidden BY <2>5, <1>0, <3>1 DEF Start, Calling
    <3> QED BY <1>1, <3>2
  <2>6. CASE StartThread(c)
    <3>1. target[c] \in Calls /\ target[c] \notin ready /\ jobQueue[target[c]] = <<>>
      BY <1>0, <2>6 DEF StartThread, SingleThread, Calling
    <3>2. Hidden BY <2>6, <3>1 DEF StartThread, Before
    <3> QED BY <1>1, <3>2
  <2>7. CASE Refuse(c) BY <1>1, <2>7 DEF Refuse
  <2>8. CASE Accept(c) BY <1>1, <2>8 DEF Accept
  <2>9. CASE Push(c) BY <1>0, <2>9, PushHands
  <2> QED BY <1>2, <2>1, <2>2, <2>3, <2>4, <2>5, <2>6, <2>7, <2>8, <2>9 DEF CallStep
<1>3. ASSUME NEW t \in Calls, LoopStep(t) PROVE JobsStep
  <2>3. CASE PopFront(t) BY <2>3, PopUnseen
  <2>6. CASE Execute(t) BY <1>0, <2>6, ExecuteBegins
  <2> USE DEF TypeInv, TypeOK, Placed, pool, call, work, sip, Takes, Inside, Runs
  <2>1. CASE Quit(t) BY <1>1, <2>1 DEF Quit
  <2>2. CASE WaitForJob(t) BY <1>1, <2>2 DEF WaitForJob
  <2>4. CASE NoJob(t) BY <1>1, <2>4 DEF NoJob
  <2>5. CASE QuitSignaled(t) BY <1>1, <2>5 DEF QuitSignaled
  <2> QED BY <1>3, <2>1, <2>2, <2>3, <2>4, <2>5, <2>6 DEF LoopStep
<1>4. ASSUME NEW t \in Calls, BlockStep(t) PROVE JobsStep
  <2>9. CASE StopExecutor(t) BY <1>0, <2>9, StopTearsDown
  <2>12. ASSUME NEW from \in {"executing", "up", "failed", "forgotten"}, Finish(t, from) PROVE JobsStep
    BY <2>12, FinishEnds DEF Holding
  <2>1. CASE Work(t) BY <2>1, <2>12 DEF Work
  <2>3. CASE StackStarted(t) BY <2>3, <2>12 DEF StackStarted
  <2>5. CASE ErrorReturned(t) BY <2>5, <2>12 DEF ErrorReturned
  <2>6. CASE ErrorDestroy(t) BY <2>6, <2>12 DEF ErrorDestroy
  <2>7. CASE NothingToDestroy(t) BY <2>7, <2>12 DEF NothingToDestroy
  <2>11. CASE Destroyed(t) BY <2>11, <2>12 DEF Destroyed
  <2> USE DEF TypeInv, TypeOK, Placed, pool, call, work, sip, Takes, Inside
  <2>2. CASE StackStarts(t) BY <1>1, <2>2 DEF StackStarts
  <2>4. CASE StackFails(t) BY <1>1, <2>4 DEF StackFails
  <2>8. CASE StackDown(t) BY <1>1, <2>8 DEF StackDown
  <2>10. CASE ForgetExecutor(t) BY <1>1, <2>10 DEF ForgetExecutor
  <2> QED BY <1>4, <2>1, <2>2, <2>3, <2>4, <2>5, <2>6, <2>7, <2>8, <2>9, <2>10, <2>11 DEF BlockStep
<1>5. CASE UNCHANGED vars BY <1>1, <1>5 DEF vars, pool, call, work, Takes, Inside
<1> QED BY <1>2, <1>3, <1>4, <1>5 DEF Next

LEMMA InitJobs == Init => Jobs!Init
BY DEF Init, Jobs!Init, Given, Pending, Active, LetGo, Inside

(***************************************************************************)
(* Whoever gives jobs sees a queue: each job is executed once at most, one *)
(* at a time and in the order of its thread, a teardown ends what is       *)
(* pending, and nobody that waits is let go before his job was executed.   *)
(***************************************************************************)
THEOREM Implements == Spec => ImplementsSerialJobs
<1>1. TypeInv /\ TypeInv' /\ Single /\ OnePlace /\ OnePlace' /\ OrderInv /\ Fresh /\ [Next]_vars
        => [Jobs!Next]_(Jobs!vars)
  BY StepJobs DEF JobsStep
<1> QED
  BY <1>1, InitJobs, InitType, NextType, InitSingle, NextSingle, InitOnePlace, NextOnePlace,
     InitOrder, NextOrder, InitFresh, NextFresh, PTL DEF Spec, ImplementsSerialJobs, Jobs!Spec

=============================================================================
