------------------------------ MODULE SerialJobs ------------------------------
(***************************************************************************)
(* What the rest of the program relies on when it gives jobs to the SIP    *)
(* stack: they are executed one at a time, each at most once, those of one *)
(* thread in the order of its calls, and a call that waits returns after   *)
(* its job.  A job may tear the stack down; jobs not yet executed are      *)
(* given up with it.  Nothing but the last two promises is left once two   *)
(* calls have created or started executors at once.                        *)
(***************************************************************************)
CONSTANTS
    Calls,      \* calls, with one job each
    Async,      \* those that do not wait for their job
    After       \* the calls made before a call, on its thread

VARIABLES
    given,      \* jobs that were handed over
    pending,    \* of these, those that are still to be executed
    active,     \* the job under execution, as a set
    executed,   \* jobs whose execution has begun
    returned,   \* calls that waited and have returned
    broken      \* two calls have created or started executors at once

Init ==
    /\ given = {} /\ pending = {} /\ active = {}
    /\ executed = {} /\ returned = {}
    /\ broken = FALSE

\* A job that comes when the stack is torn down is never executed.
Hand(c) ==
    /\ c \notin given
    /\ \A d \in given : c \notin After[d]
    /\ given' = given \union {c}
    /\ pending' \in {pending, pending \union {c}}
    /\ UNCHANGED <<active, executed, returned, broken>>

Begin(c) ==
    /\ active = {}
    /\ c \in pending /\ c \notin executed
    /\ After[c] \intersect pending = {}
    /\ pending' = pending \ {c}
    /\ active' = {c}
    /\ executed' = executed \union {c}
    /\ UNCHANGED <<given, returned, broken>>

\* The block of a teardown goes on without the stack.
TearDown ==
    /\ active # {}
    /\ active' = {} /\ pending' = {}
    /\ UNCHANGED <<given, executed, returned, broken>>

Finish(c) ==
    /\ c \in executed
    /\ active' = active \ {c}
    /\ returned' = returned \union ({c} \ Async)
    /\ UNCHANGED <<given, pending, executed, broken>>

Race ==
    /\ broken'
    /\ executed \subseteq executed'
    /\ returned \subseteq returned'
    /\ returned' \subseteq executed'

Next ==
    \/ \E c \in Calls : Hand(c) \/ Begin(c) \/ Finish(c)
    \/ TearDown
    \/ Race

vars == <<given, pending, active, executed, returned, broken>>

Spec == Init /\ [][Next]_vars
===============================================================================
