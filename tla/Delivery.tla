------------------------------- MODULE Delivery -------------------------------
(***************************************************************************)
(* What sending files promises: they are stored on the server, then that   *)
(* is recorded, then the recipient is told, and only then is the request   *)
(* closed; none of this is taken back, and only telling the recipient may  *)
(* happen twice.  The answer of the server may be lost, and a restart      *)
(* forgets one that is not recorded: only then are files the server has    *)
(* stored once more.                                                       *)
(***************************************************************************)
VARIABLES
    request,    \* none, open, closed as delivered, or failed
    prepared,   \* the keys are derived and recorded
    held,       \* the server has the files
    known,      \* it has acknowledged them
    recorded,   \* and this is recorded
    announced,  \* the recipient was told where they are
    withdrawn   \* the user has deleted the message

vars == <<request, prepared, held, known, recorded, announced, withdrawn>>

Init ==
    /\ request = "none"
    /\ ~prepared /\ ~held /\ ~known /\ ~recorded /\ ~announced /\ ~withdrawn

Open ==
    /\ request = "none" /\ request' = "open"
    /\ UNCHANGED <<prepared, held, known, recorded, announced, withdrawn>>

Prepare ==
    /\ request # "none"
    /\ ~prepared /\ prepared'
    /\ UNCHANGED <<request, held, known, recorded, announced, withdrawn>>

\* The files arrive, the answer does not.
Arrive ==
    /\ prepared /\ ~known
    /\ held'
    /\ UNCHANGED <<request, prepared, known, recorded, announced, withdrawn>>

Acknowledge ==
    /\ prepared /\ ~known
    /\ held' /\ known'
    /\ UNCHANGED <<request, prepared, recorded, announced, withdrawn>>

Record ==
    /\ known /\ ~recorded
    /\ recorded'
    /\ UNCHANGED <<request, prepared, held, known, announced, withdrawn>>

Announce ==
    /\ held /\ recorded /\ ~withdrawn
    /\ announced'
    /\ UNCHANGED <<request, prepared, held, known, recorded, withdrawn>>

Close ==
    /\ request = "open"
    /\ held /\ recorded /\ (announced \/ withdrawn)
    /\ request' = "closed"
    /\ UNCHANGED <<prepared, held, known, recorded, announced, withdrawn>>

Fail ==
    /\ request = "open"
    /\ request' = "failed"
    /\ UNCHANGED <<prepared, held, known, recorded, announced, withdrawn>>

Withdraw ==
    /\ withdrawn'
    /\ UNCHANGED <<request, prepared, held, known, recorded, announced>>

\* A restart.
Forget ==
    /\ known' = recorded
    /\ UNCHANGED <<request, prepared, held, recorded, announced, withdrawn>>

Next ==
    \/ Open \/ Prepare \/ Arrive \/ Acknowledge \/ Record \/ Announce
    \/ Close \/ Fail \/ Withdraw \/ Forget

Spec == Init /\ [][Next]_vars
===============================================================================
