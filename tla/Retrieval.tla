------------------------------ MODULE Retrieval ------------------------------
(***************************************************************************)
(* What fetching a file promises: it can be decrypted until it is here or  *)
(* was refused; it comes from the server, is then recorded as done and is  *)
(* only then shown so.  The server drops it once it is recorded or         *)
(* refused, or in a step that shows the user an attempt that failed.       *)
(***************************************************************************)
VARIABLES
    refused,   \* the user has asked to reject it
    stored,    \* the server has it
    readable,  \* what decrypts it is kept
    unpacked,  \* it is here
    recorded,  \* and this is recorded
    shown      \* open, loading, failed, refused or done

vars == <<refused, stored, readable, unpacked, recorded, shown>>

Init ==
    /\ refused = FALSE /\ unpacked = FALSE /\ recorded = FALSE
    /\ stored = TRUE /\ readable = TRUE
    /\ shown = "open"

Refuse ==
    /\ refused'
    /\ UNCHANGED <<stored, readable, unpacked, recorded, shown>>

Unpack ==
    /\ stored /\ readable
    /\ unpacked'
    /\ UNCHANGED <<refused, stored, readable, recorded, shown>>

\* What was kept to decrypt it may go with this.
Record ==
    /\ unpacked
    /\ recorded'
    /\ readable' => readable
    /\ UNCHANGED <<refused, stored, unpacked, shown>>

Forget ==
    /\ refused \/ unpacked
    /\ ~readable'
    /\ UNCHANGED <<refused, stored, unpacked, recorded, shown>>

Show ==
    /\ shown' \in {"open", "loading", "failed", "refused", "done"}
    /\ shown' = "done" => recorded
    /\ shown' = "refused" => refused
    /\ UNCHANGED <<refused, stored, readable, unpacked, recorded>>

Discard ==
    /\ ~stored'
    /\ \/ recorded /\ shown' \in {shown, "done"}
       \/ refused /\ shown' \in {shown, "refused"}
       \/ shown' \in {"open", "failed"}
    /\ UNCHANGED <<refused, readable, unpacked, recorded>>

Next == Show \/ Refuse \/ Unpack \/ Record \/ Forget \/ Discard

Spec == Init /\ [][Next]_vars
===============================================================================
