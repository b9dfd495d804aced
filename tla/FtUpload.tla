------------------------------ MODULE FtUpload ------------------------------
(***************************************************************************)
(* The upload of one message with files (PEXFtUploadOperation.m,           *)
(* PEXFtTransferManager.m, and what PEXMessageManager.m and                *)
(* PEXAmpDispatcher.m do for the row of a transfer).                       *)
(*                                                                         *)
(* As for a download the row is kept until onTransferFinished, and the     *)
(* record of the transfer says how far it came.  Unlike that of a download *)
(* the row is outgoing: the check of the message queue makes it due again  *)
(* when it is processed and older than 5 minutes, so that one row may have *)
(* several entries in the pipeline.                                        *)
(***************************************************************************)
EXTENDS Naturals, Sequences

CONSTANTS
  Threshold,    \* RESEND_BACKOFF_THRESHOLD
  MaxResend,    \* getMaxResendAttempts
  MaxChecks,    \* bound: checks of the queue that find the row too old
  MaxCancels,   \* bound: cancellations by the user
  MaxRestarts   \* bound: restarts of the application

ASSUME UploadAssumption ==
  /\ Threshold \in Nat /\ MaxResend \in Nat
  /\ MaxChecks \in Nat /\ MaxCancels \in Nat /\ MaxRestarts \in Nat

VARIABLES
  type,       \* type of the message; "gone": it was deleted
  sender,     \* the thread that sends the files
  row, tries, \* the row of the message queue and its sendCounter
  rec,        \* the record of the transfer: keys derived, or all done
  temp,       \* the encrypted files are in the cache
  server,     \* the files are stored on the server
  notified,   \* the notification that names the stored files was dispatched
  queue,      \* uploadQueue: for each entry whether it was cancelled
  ops,        \* operations that wait in uploadOpqueue
  acks,       \* calls of onTransferFinished that wait for the message manager
  op,         \* the operation that runs
  ui, found,  \* the thread that cancels
  abandoned,  \* history: the row was left processed with nobody to report
  gaveup,     \* history: the row was released for a failure
  stored,     \* history: uploads the server acknowledged
  checks, cancels, restarts

shown == <<type, sender>>
disk  == <<rec, temp, server, notified>>
pool  == <<queue, ops>>
user  == <<ui, found, cancels>>
past  == <<abandoned, gaveup, stored, checks, restarts>>
vars  == <<shown, row, tries, disk, pool, acks, op, user, past>>

NewOp == [pc |-> "idle", cancelled |-> FALSE, verdict |-> "drop"]

Init ==
  /\ type = "none" /\ sender = "idle"
  /\ row = "absent" /\ tries = 0
  /\ rec = "none" /\ temp = FALSE /\ server = FALSE /\ notified = FALSE
  /\ queue = <<>> /\ ops = 0 /\ acks = <<>> /\ op = NewOp
  /\ ui = "idle" /\ found = FALSE /\ cancels = 0
  /\ abandoned = FALSE /\ gaveup = FALSE /\ stored = 0 /\ checks = 0 /\ restarts = 0

\* A message that was deleted cannot be changed.
Show(t) == type' = IF type = "gone" THEN "gone" ELSE t

(***************************************************************************)
(* sendFile: the message, then its row.                                    *)
(***************************************************************************)

Save ==
  /\ sender = "idle"
  /\ sender' = "saved" /\ type' = "uploading"
  /\ UNCHANGED <<row, tries, disk, pool, acks, op, user, past>>

Dispatch ==
  /\ sender = "saved"
  /\ sender' = "done" /\ row' = "waiting"
  /\ UNCHANGED <<type, tries, disk, pool, acks, op, user, past>>

(***************************************************************************)
(* The message manager: one task at a time.                                *)
(***************************************************************************)

\* processOutgoingMessage down to enqueueFile2Upload.
Take ==
  /\ row = "waiting" /\ type # "gone"
  /\ row' = "processed"
  /\ queue' = Append(queue, FALSE) /\ ops' = ops + 1
  /\ UNCHANGED <<shown, tries, disk, acks, op, user, past>>

\* The message is gone: this is reported, which does nothing for a transfer.
TakeOrphan ==
  /\ row = "waiting" /\ type = "gone"
  /\ row' = "processed" /\ abandoned' = TRUE
  /\ UNCHANGED <<shown, tries, disk, pool, acks, op, user, gaveup, stored, checks, restarts>>

\* No certificate of the recipient: the row is deleted, the message stays.
NoCertificate ==
  /\ row = "waiting"
  /\ row' = "absent" /\ gaveup' = TRUE
  /\ UNCHANGED <<shown, tries, disk, pool, acks, op, user, abandoned, stored,
                 checks, restarts>>

\* dbCheckOldProcessed: nothing tells whether the row is still worked on.
CheckOld ==
  /\ row = "processed" /\ checks < MaxChecks
  /\ checks' = checks + 1
  /\ row' = "waiting" /\ abandoned' = FALSE
  /\ UNCHANGED <<shown, tries, disk, pool, acks, op, user, gaveup, stored,
                 restarts>>

\* Mutant: the attempts are not limited.
TransferFinishedUnlimited ==
  /\ acks # <<>>
  /\ acks' = Tail(acks)
  /\ IF row = "absent" \/ Head(acks) # "retry"
     THEN row' = "absent" /\ tries' = 0
     ELSE row' = "backoff" /\ tries' = tries + 1
  /\ UNCHANGED <<shown, disk, pool, op, user, past>>

\* Mutant: an upload that failed for now is not made due again.
TransferFinishedForgotten ==
  /\ acks # <<>>
  /\ acks' = Tail(acks)
  /\ row' = IF Head(acks) # "retry" THEN "absent" ELSE row
  /\ UNCHANGED <<shown, tries, disk, pool, op, user, past>>

\* onTransferFinished; the encrypted files are removed with a row that is
\* given up, and by a report that comes after the row was released.
TransferFinished ==
  /\ acks # <<>>
  /\ acks' = Tail(acks)
  /\ IF row = "absent" \/ Head(acks) # "retry" \/ tries >= MaxResend
     THEN /\ row' = "absent" /\ tries' = 0
          /\ gaveup' = (gaveup \/ (row # "absent" /\ Head(acks) # "ok"))
     ELSE /\ row' = IF tries < Threshold THEN "waiting" ELSE "backoff"
          /\ tries' = tries + 1
          /\ UNCHANGED gaveup
  /\ temp' = (temp /\ Head(acks) # "drop" /\ row # "absent")
  /\ UNCHANGED <<shown, rec, server, notified, pool, op, user, abandoned, stored,
                 checks, restarts>>

\* The resend time of the row passes.
Due ==
  /\ row = "backoff"
  /\ row' = "waiting"
  /\ UNCHANGED <<shown, tries, disk, pool, acks, op, user, past>>

(***************************************************************************)
(* The operation.                                                          *)
(***************************************************************************)

At(pc) == op.pc = pc
Go(pc) == op' = [op EXCEPT !.pc = pc]
Report(verdict) == op' = [op EXCEPT !.pc = "finish", !.verdict = verdict]

\* Most steps change the operation and the message only.
Quiet == UNCHANGED <<sender, row, tries, pool, acks, user>>

StartOp ==
  /\ At("idle") /\ ops > 0
  /\ ops' = ops - 1 /\ op' = [NewOp EXCEPT !.pc = "loop"]
  /\ UNCHANGED <<shown, row, tries, disk, queue, acks, user, past>>

\* The queue is looked at and polled; _curEntry is assigned after that.
Poll ==
  /\ At("loop")
  /\ IF queue = <<>>
     THEN Go("idle") /\ UNCHANGED queue
     ELSE /\ op' = [NewOp EXCEPT !.pc = "popped", !.cancelled = Head(queue)]
          /\ queue' = Tail(queue)
  /\ UNCHANGED <<shown, row, tries, disk, ops, acks, user, past>>

\* An entry cancelled in the queue: the message is deleted, nobody calls
\* onTransferFinished.
Skip ==
  /\ At("popped") /\ op.cancelled
  /\ type' = "gone" /\ op' = [NewOp EXCEPT !.pc = "loop"]
  /\ abandoned' = (row = "processed")
  /\ UNCHANGED <<disk, gaveup, stored, checks, restarts>> /\ Quiet

Process ==
  /\ At("popped") /\ ~op.cancelled
  /\ Go(IF rec = "none" THEN "keys" ELSE "recover")
  /\ UNCHANGED <<type, disk, past>> /\ Quiet

\* A cancellation or an exception outside the upload: the row is dropped,
\* what the user sees stays as it is.
Abort ==
  /\ op.pc \in {"recover", "keys"} \/ (At("send") /\ op.cancelled)
  /\ Report("drop")
  /\ UNCHANGED <<type, disk, past>> /\ Quiet

\* recoverFromTransferRecord
Recover ==
  /\ At("recover") /\ ~op.cancelled
  /\ \/ Go("send") /\ UNCHANGED type
     \/ Report("drop") /\ Show("ready")            \* no certificate
  /\ UNCHANGED <<disk, past>> /\ Quiet

\* The two parts of the DH key, the signature, the encryption of the files,
\* and the record: a checkpoint.
DeriveKeys ==
  /\ At("keys")
  /\ \/ /\ ~op.cancelled
        /\ rec' = "keys" /\ temp' = TRUE
        /\ Go("send") /\ UNCHANGED type
     \/ /\ \/ Report("retry") /\ Show("ready")     \* no answer
           \/ Report("drop") /\ Show("ready")      \* no keys, no certificate
           \/ Report("drop") /\ Show("fail")       \* wrong signature
        /\ UNCHANGED <<rec, temp>>
  /\ UNCHANGED <<server, notified, past>> /\ Quiet

\* Mutant: that the files were stored already is not looked at.
SendAgain ==
  /\ At("send") /\ ~op.cancelled
  /\ Go("upload") /\ Show("uploadingFiles")
  /\ rec' = "keys" /\ temp' = TRUE
  /\ UNCHANGED <<server, notified, past>> /\ Quiet

\* Mutant: files that are stored already are not announced again.
SendNothing ==
  /\ At("send") /\ ~op.cancelled
  /\ IF rec = "done"
     THEN Report("ok") /\ UNCHANGED type
     ELSE Go("upload") /\ Show("uploadingFiles")
  /\ UNCHANGED <<disk, past>> /\ Quiet

\* Files that were stored before a crash are only announced.
Send ==
  /\ At("send") /\ ~op.cancelled
  /\ IF rec = "done"
     THEN Go("notify") /\ UNCHANGED type
     ELSE Go("upload") /\ Show("uploadingFiles")
  /\ UNCHANGED <<disk, past>> /\ Quiet

\* An upload that does not succeed may have reached the server.
MayArrive == server' \in {server, server \/ temp}

Upload ==
  /\ At("upload") /\ ~op.cancelled /\ temp
  /\ server' = TRUE /\ stored' = stored + 1
  /\ Go("clean")
  /\ UNCHANGED <<type, rec, temp, notified, abandoned, gaveup, checks,
                 restarts>> /\ Quiet

\* Mutant: the encrypted files are removed after a failure, too.
UploadFailsCleaning ==
  /\ At("upload")
  /\ MayArrive /\ temp' = FALSE
  /\ Report("retry") /\ Show("ready")
  /\ UNCHANGED <<rec, notified, past>> /\ Quiet

UploadFails ==
  /\ At("upload")
  /\ MayArrive
  /\ \/ Report("retry") /\ Show("ready")           \* timeout, most error codes
     \/ Report("drop") /\ Show("ready")            \* quota exceeded
     \/ Report("drop") /\ Show("fail")             \* file too big
  /\ UNCHANGED <<rec, temp, notified, past>> /\ Quiet

\* Exceptions of the upload are caught here, a cancellation among them: its
\* class is not the one that the handler lets through.
UploadThrows ==
  /\ At("upload")
  /\ MayArrive
  /\ Go("notify") /\ Show("ready")
  /\ UNCHANGED <<rec, temp, notified, past>> /\ Quiet

Clean ==
  /\ At("clean")
  /\ temp' = FALSE /\ Go("done")
  /\ UNCHANGED <<type, rec, server, notified, past>> /\ Quiet

\* storeTransferSuccessful
StoreDone ==
  /\ At("done")
  /\ rec' = "done"
  /\ op' = [op EXCEPT !.pc = "notify", !.verdict = "ok"]
  /\ UNCHANGED <<type, temp, server, notified, past>> /\ Quiet

\* postUpload
Notify ==
  /\ At("notify")
  /\ notified' = (notified \/ (type # "gone" /\ rec = "done"))
  /\ Go("final")
  /\ UNCHANGED <<type, rec, temp, server, past>> /\ Quiet

\* The type is set whatever became of the upload.
Final ==
  /\ At("final")
  /\ Show("uploaded") /\ Go("finish")
  /\ UNCHANGED <<disk, past>> /\ Quiet

\* Mutant: a cancelled upload is not reported.
FinishUnlessCancelled ==
  /\ At("finish")
  /\ acks' = IF op.cancelled THEN acks ELSE Append(acks, op.verdict)
  /\ op' = [NewOp EXCEPT !.pc = "loop"]
  /\ UNCHANGED <<shown, row, tries, disk, pool, user, past>>

\* The message manager is told.
Finish ==
  /\ At("finish")
  /\ acks' = Append(acks, op.verdict)
  /\ op' = [NewOp EXCEPT !.pc = "loop"]
  /\ UNCHANGED <<shown, row, tries, disk, pool, user, past>>

(***************************************************************************)
(* The user cancels what is not uploaded yet (cancelUpload).               *)
(***************************************************************************)

\* The first entry that is in the queue is marked.
CancelInQueue ==
  /\ ui = "idle" /\ type \in {"uploading", "uploadingFiles", "ready"}
  /\ cancels < MaxCancels
  /\ cancels' = cancels + 1 /\ ui' = "notify"
  /\ found' = (queue # <<>>)
  /\ queue' = IF queue = <<>> THEN queue ELSE [queue EXCEPT ![1] = TRUE]
  /\ UNCHANGED <<shown, row, tries, disk, ops, acks, op, past>>

\* The notification marks the entry the operation works on.
CancelNotify ==
  /\ ui = "notify"
  /\ op' = IF op.pc \in {"idle", "loop", "popped"} THEN op ELSE [op EXCEPT !.cancelled = TRUE]
  /\ ui' = IF found THEN "idle" ELSE "delete"
  /\ UNCHANGED <<shown, row, tries, disk, pool, acks, found, cancels, past>>

CancelDelete ==
  /\ ui = "delete"
  /\ type' = "gone" /\ ui' = "idle"
  /\ UNCHANGED <<sender, row, tries, disk, pool, acks, op, found, cancels, past>>

\* The application is killed and logs in again, which makes the row due.
Restart ==
  /\ restarts < MaxRestarts
  /\ restarts' = restarts + 1
  /\ sender' = IF sender = "saved" THEN "lost" ELSE sender
  /\ row' = IF row = "processed" THEN "waiting" ELSE row
  /\ queue' = <<>> /\ ops' = 0 /\ acks' = <<>> /\ op' = NewOp
  /\ ui' = "idle" /\ found' = FALSE /\ abandoned' = FALSE
  /\ UNCHANGED <<type, tries, disk, cancels, gaveup, stored, checks>>

OpStep ==
  \/ StartOp \/ Poll \/ Skip \/ Process \/ Abort \/ Recover \/ DeriveKeys
  \/ Send \/ Upload \/ UploadFails \/ UploadThrows \/ Clean \/ StoreDone
  \/ Notify \/ Final \/ Finish

Next ==
  \/ Save \/ Dispatch
  \/ Take \/ TakeOrphan \/ NoCertificate \/ CheckOld \/ TransferFinished \/ Due
  \/ OpStep
  \/ CancelInQueue \/ CancelNotify \/ CancelDelete
  \/ Restart

\* Threads go on, queues run what they hold, a resend time passes.
Fairness ==
  /\ WF_vars(Dispatch) /\ WF_vars(Take \/ TakeOrphan) /\ WF_vars(Due)
  /\ WF_vars(TransferFinished) /\ WF_vars(OpStep)

Spec == Init /\ [][Next]_vars /\ Fairness

(***************************************************************************)
(* Properties                                                              *)
(***************************************************************************)

PCs == {"idle", "loop", "popped", "recover", "keys", "send", "upload",
        "clean", "done", "notify", "final", "finish"}
Verdicts == {"ok", "retry", "drop"}
Operations == [pc : PCs, cancelled : BOOLEAN, verdict : Verdicts]
Types == {"none", "uploading", "uploadingFiles", "ready", "fail", "uploaded", "gone"}

\* Every variable has its type; the attempts stay within their limit.
TypeOK ==
  /\ type \in Types
  /\ sender \in {"idle", "saved", "done", "lost"}
  /\ row \in {"absent", "waiting", "backoff", "processed"} /\ tries \in 0 .. MaxResend
  /\ rec \in {"none", "keys", "done"}
  /\ temp \in BOOLEAN /\ server \in BOOLEAN /\ notified \in BOOLEAN
  /\ queue \in Seq(BOOLEAN) /\ ops \in Nat /\ acks \in Seq(Verdicts)
  /\ op \in Operations
  /\ ui \in {"idle", "notify", "delete"} /\ found \in BOOLEAN
  /\ abandoned \in BOOLEAN /\ gaveup \in BOOLEAN /\ stored \in Nat
  /\ checks \in 0 .. MaxChecks /\ cancels \in 0 .. MaxCancels
  /\ restarts \in 0 .. MaxRestarts

\* A row that is processed is somewhere in the pipeline, whatever duplicates
\* come and go there, and each entry has an operation that will poll it:
\* onTransferFinished will be called.  Not so if the entry was cancelled in
\* the queue or the message was deleted before the row was taken.
RowHandled ==
  /\ row = "processed" /\ ~abandoned =>
       queue # <<>> \/ op.pc \notin {"idle", "loop"} \/ acks # <<>>
  /\ queue # <<>> => ops > 0 \/ op.pc # "idle"

\* The server acknowledges the files once, and once more per restart of the
\* application, though the row is queued again while they are uploaded. (One
\* that arrives without its acknowledgement is not counted.)
StoredOnce == stored <= 1 + restarts

\* A record without which no keys are derived again comes with the encrypted
\* files until the server has them: an attempt after a failure, a late
\* report or a restart can resume.
Resumable == rec = "keys" /\ row # "absent" => temp \/ server

\* The row is released, unless for a failure, once the files are stored and
\* their recipient is told, also if a crash comes between the two.
ReleasedMeansAnnounced ==
  sender = "done" /\ row = "absent" /\ ~gaveup =>
    rec = "done" /\ server /\ (notified \/ type = "gone")

\* The program knows that the server has the files.
Taken == rec = "done" \/ op.pc \in {"clean", "done"}

\* How the request stands: it is open while there is a row.
Request == IF sender # "done" THEN "none" ELSE IF row # "absent" THEN "open"
           ELSE IF gaveup THEN "failed" ELSE "closed"

\* The upload is a delivery: stored, recorded, announced and closed in this
\* order, whatever entries, reports and runs of the application overlap.
Transfer == INSTANCE Delivery WITH
  request <- Request, prepared <- rec # "none", held <- server, known <- Taken,
  recorded <- rec = "done", announced <- notified, withdrawn <- type = "gone"
ImplementsDelivery == Transfer!Spec

\* Every upload ends: the row is released, or nobody will report on it.
EveryUploadEnds == row # "absent" ~> row = "absent" \/ abandoned

\* "Change state if no error." (PEXFtUploadOperation.m:622): what is shown as
\* uploaded is stored on the server.
UploadedMeansStored == type = "uploaded" => server
=============================================================================
