----------------------------- MODULE FtDownload -----------------------------
(***************************************************************************)
(* The download of one received file (PEXFtDownloadOperation.m,            *)
(* PEXFtTransferManager.m, and what PEXMessageManager.m does for a row of  *)
(* a transfer).                                                            *)
(*                                                                         *)
(* A notification of a new file asks for its meta data, the user accepts   *)
(* or rejects it: each of these is a request, a row of the message queue.  *)
(* The message manager hands a row to the transfer manager, whose          *)
(* operation works on one entry at a time, and learns the result by        *)
(* onTransferFinished.  The row is kept until then, so that a transfer     *)
(* survives a crash; the record of the transfer says how far it came.      *)
(***************************************************************************)
EXTENDS Naturals, Sequences

CONSTANTS
  Requests,    \* rows of the message queue that ask for something
  none,        \* no request
  Threshold,   \* RESEND_BACKOFF_THRESHOLD
  MaxResend,   \* getMaxResendAttempts
  MaxCancels,  \* bound: cancellations by the user
  MaxCrashes   \* bound: restarts of the application

ASSUME DownloadAssumption ==
  /\ none \notin Requests
  /\ Threshold \in Nat /\ MaxResend \in Nat
  /\ MaxCancels \in Nat /\ MaxCrashes \in Nat

VARIABLES
  type,      \* type of the message, what the user sees
  row,       \* rows of the message queue
  tries,     \* sendCounter of the rows
  recs,      \* records of the transfer, the oldest first
  key,       \* the DH key the sender used is in the database
  server,    \* the file is stored on the server
  file,      \* the unpacked file is there
  service,   \* blocks on the queue of PEXService
  queue,     \* downloadQueue
  ops,       \* operations that wait in downloadOpqueue
  acks,      \* calls of onTransferFinished that wait for the message manager
  op,        \* the operation that runs
  ui, found, \* the thread that cancels
  asked,     \* what the parameters in the row of a request ask for
  skipped,   \* history: requests dropped because they were cancelled in the queue
  orphaned,  \* history: the type was set late or the row dropped silently
  cancels, crashes

db   == <<type, row, tries, recs, key, server, file>>
pool == <<queue, ops>>
user == <<ui, found, cancels>>
past == <<asked, skipped, orphaned, crashes>>
vars == <<db, service, acks, pool, op, user, past>>

Entry(r) == [req |-> r, cancelled |-> FALSE]

\* An operation: cur is its entry, _curEntry unless pc is "popped"; rec the
\* record it holds (0: none); verdict what it will report.
NewOp == [pc |-> "idle", cur |-> Entry(none), rec |-> 0, now |-> FALSE,
          deleted |-> FALSE, verdict |-> "drop"]

NewRecord == [c |-> FALSE, meta |-> FALSE, pack |-> FALSE, deleted |-> FALSE]

Init ==
  /\ type = "none"
  /\ row = [r \in Requests |-> "absent"] /\ tries = [r \in Requests |-> 0]
  /\ recs = <<>> /\ key = TRUE /\ server = TRUE /\ file = FALSE
  /\ service = <<>> /\ acks = <<>>
  /\ queue = <<>> /\ ops = 0 /\ op = NewOp
  /\ ui = "idle" /\ found = FALSE /\ cancels = 0
  /\ asked = [r \in Requests |-> "none"] /\ skipped = {} /\ orphaned = FALSE /\ crashes = 0

Downloading == {"downloading", "downloadingMeta"}

(***************************************************************************)
(* Requests.  Blocks of the service run one after the other.               *)
(***************************************************************************)

\* dispatchDownloadTransfer: the type is set by a block of its own, the row
\* is inserted here.
Dispatch(r, blocks) ==
  /\ service' = Append(blocks, [do |-> "init", req |-> r])
  /\ row' = [row EXCEPT ![r] = "waiting"]

\* processNewFileNotification
Notify(r) ==
  /\ type = "none" /\ asked[r] = "none"
  /\ type' = "ready" /\ asked' = [asked EXCEPT ![r] = "meta"]
  /\ Dispatch(r, service)
  /\ UNCHANGED <<tries, recs, key, server, file, acks, pool, op, user,
                 skipped, orphaned, crashes>>

\* The user accepts or rejects a file shown as ready (onTransferConfirmation).
Press(r, answer) ==
  /\ asked[r] = "none" /\ type \in {"ready", "gotMeta"}
  /\ asked' = [asked EXCEPT ![r] = answer]
  /\ service' = Append(service, [do |-> "confirm", req |-> r])
  /\ UNCHANGED <<db, acks, pool, op, user, skipped, orphaned, crashes>>

\* onFileAcceptReject
Confirm ==
  /\ service # <<>> /\ Head(service).do = "confirm"
  /\ LET r == Head(service).req
     IN /\ type' = IF asked[r] = "reject" THEN "rejected" ELSE type
        /\ Dispatch(r, Tail(service))
  /\ UNCHANGED <<tries, recs, key, server, file, acks, pool, op, user, past>>

\* The block of initDownloadProcessProgress, which may come after the
\* request was taken from the database.
InitProgress ==
  /\ service # <<>> /\ Head(service).do = "init"
  /\ LET r == Head(service).req
     IN /\ type' = CASE asked[r] = "reject" -> "rejected"
                     [] asked[r] = "accept" -> "downloading"
                     [] OTHER -> "downloadingMeta"
        /\ orphaned' = (orphaned \/ row[r] # "waiting" \/ tries[r] > 0)
  /\ service' = Tail(service)
  /\ UNCHANGED <<row, tries, recs, key, server, file, acks, pool, op, user,
                 asked, skipped, crashes>>

(***************************************************************************)
(* The message manager: one task at a time.                                *)
(***************************************************************************)

\* processIncomingMessage of a row that is due, up to enqueueFile2Download:
\* the entry is pushed, and one operation is added for each entry.
Take(r) ==
  /\ row[r] = "waiting"
  /\ row' = [row EXCEPT ![r] = "processed"]
  /\ queue' = Append(queue, Entry(r)) /\ ops' = ops + 1
  /\ UNCHANGED <<type, tries, recs, key, server, file, service, acks, op,
                 user, past>>

\* The certificate of the sender is not there and cannot be loaded.
NoCertificate(r) ==
  /\ row[r] = "waiting"
  /\ row' = [row EXCEPT ![r] = "absent"]
  /\ orphaned' = TRUE
  /\ UNCHANGED <<type, tries, recs, key, server, file, service, acks, pool,
                 op, user, asked, skipped, crashes>>

\* What becomes of the row: "ok" is an answer without error, "retry" an error
\* that is recoverable, "drop" one that is not.
Finished(r, verdict) ==
  IF row[r] = "absent" \/ verdict # "retry" \/ tries[r] >= MaxResend
  THEN /\ row' = [row EXCEPT ![r] = "absent"]
       /\ tries' = [tries EXCEPT ![r] = 0]
  ELSE /\ tries' = [tries EXCEPT ![r] = @ + 1]
       /\ row' = [row EXCEPT ![r] = IF tries[r] < Threshold THEN "waiting" ELSE "backoff"]

\* onTransferFinished
TransferFinished ==
  /\ acks # <<>>
  /\ LET a == Head(acks) IN Finished(a.req, a.verdict)
  /\ acks' = Tail(acks)
  /\ UNCHANGED <<type, recs, key, server, file, service, pool, op,
                 user, past>>

\* The resend time of a row passes.
Due(r) ==
  /\ row[r] = "backoff"
  /\ row' = [row EXCEPT ![r] = "waiting"]
  /\ UNCHANGED <<type, tries, recs, key, server, file, service, acks, pool, op,
                 user, past>>

(***************************************************************************)
(* The operation, up to the protocol.                                      *)
(***************************************************************************)

At(pc) == op.pc = pc
Cancelled == op.cur.cancelled
KeyComputingDone(rec) == rec.c \/ rec.meta \/ rec.pack

\* Most steps change the operation, the type and the record it holds only.
Quiet == UNCHANGED <<row, tries, service, acks, pool, user, past>>

StartOp ==
  /\ At("idle") /\ ops > 0
  /\ ops' = ops - 1
  /\ op' = [NewOp EXCEPT !.pc = "loop"]
  /\ UNCHANGED <<db, service, acks, queue, user, past>>

\* The queue is looked at and polled; _curEntry is assigned after that.
Poll ==
  /\ At("loop")
  /\ IF queue = <<>>
     THEN /\ op' = [op EXCEPT !.pc = "idle"]
          /\ UNCHANGED queue
     ELSE /\ op' = [op EXCEPT !.pc = "popped", !.cur = Head(queue)]
          /\ queue' = Tail(queue)
  /\ UNCHANGED <<db, service, acks, ops, user, past>>

\* An entry cancelled in the queue: nobody calls onTransferFinished.
Skip ==
  /\ At("popped") /\ Cancelled
  /\ type' = "ready"
  /\ op' = [NewOp EXCEPT !.pc = "loop"]
  /\ skipped' = skipped \cup {op.cur.req}
  /\ UNCHANGED <<row, tries, recs, key, server, file, service, acks, pool, user,
                 asked, orphaned, crashes>>

\* setFinalMessageOKType
FinalOKType == IF op.rec # 0 /\ recs[op.rec].meta THEN "gotMeta" ELSE "ready"

\* throwIfCancel and the cancel block of the transfers: PEXCancelledException.
Abort ==
  /\ Cancelled
  /\ \/ op.pc \in {"begin", "stored", "getMeta", "getPack"}
     \/ At("decide") /\ ~recs[op.rec].pack /\ op.now
  /\ type' = FinalOKType
  /\ op' = [op EXCEPT !.pc = "finish"]
  /\ UNCHANGED <<recs, key, server, file>> /\ Quiet

(***************************************************************************)
(* The server.  deleteFileFromServer tries three times; a call that fails  *)
(* may have reached the server all the same.                               *)
(***************************************************************************)

Answers == {"ok", "error", "offline"}

DeleteFromServer(answer) ==
  IF answer = "ok" THEN server' = FALSE ELSE server' \in {server, FALSE}

\* A failure for now, with the error handling block that follows.
FailForNow(o) ==
  /\ type' = FinalOKType
  /\ op' = [o EXCEPT !.pc = "finish", !.verdict = "retry"]
  /\ UNCHANGED server

\* Mutant: what the user sees is not changed.
FailForGoodSilent(o, t) ==
  /\ UNCHANGED <<type, server>>
  /\ op' = [o EXCEPT !.pc = "finish"]

\* A failure for good, the user sees t: the space on the server is freed.
FailForGood(o, t) ==
  /\ type' = t
  /\ IF o.deleted
     THEN op' = [o EXCEPT !.pc = "finish"] /\ UNCHANGED server
     ELSE \E answer \in Answers :
            /\ DeleteFromServer(answer)
            /\ op' = [o EXCEPT !.pc = "finish",
                               !.verdict = IF answer = "offline" THEN "retry" ELSE "drop"]

(***************************************************************************)
(* processMessage.  Every step leaves the record such that a run after a   *)
(* crash goes on from there.                                               *)
(***************************************************************************)

\* Mutant: that there is no record is not looked at.
ProcessNoTest ==
  /\ At("popped") /\ ~Cancelled
  /\ op' = [op EXCEPT !.pc = "begin", !.now = (asked[op.cur.req] = "accept"),
                      !.rec = 1]
  /\ UNCHANGED <<type, server, recs, key, file>> /\ Quiet

\* The state is made anew; a record from an earlier run is taken up, which
\* needs the certificate of the sender.
Process ==
  /\ At("popped") /\ ~Cancelled
  /\ LET o == [op EXCEPT !.pc = "begin", !.now = (asked[op.cur.req] = "accept"),
                         !.rec = IF recs = <<>> THEN 0 ELSE 1]
     IN \/ /\ op' = [o EXCEPT !.deleted = recs # <<>> /\ recs[1].deleted]
           /\ UNCHANGED <<type, server>>
        \/ recs # <<>> /\ FailForGood(o, "ready")
  /\ UNCHANGED <<recs, key, file>> /\ Quiet

\* storeTransferRecord
StoreRecord(rec) ==
  /\ recs' = Append(recs, rec)
  /\ op' = [op EXCEPT !.rec = Len(recs) + 1,
                      !.pc = IF At("begin") THEN "delete" ELSE "dropKey"]

\* A rejected file is only deleted; else the key is computed if it was not.
Begin ==
  /\ At("begin") /\ ~Cancelled
  /\ IF asked[op.cur.req] = "reject" /\ (op.rec = 0 \/ ~op.deleted)
     THEN /\ StoreRecord([NewRecord EXCEPT !.c = op.rec # 0 /\ recs[op.rec].c])
          /\ UNCHANGED type
     ELSE /\ IF op.rec # 0 /\ KeyComputingDone(recs[op.rec])
             THEN /\ op' = [op EXCEPT !.pc = IF recs[op.rec].meta THEN "decide" ELSE "getMeta"]
                  /\ UNCHANGED type
             ELSE op' = [op EXCEPT !.pc = "stored"] /\ type' = "downloadingMeta"
          /\ UNCHANGED recs
  /\ UNCHANGED <<key, server, file>> /\ Quiet

\* deleteOnly up to the DH keys.
DeleteOnly ==
  /\ At("delete")
  /\ \E answer \in Answers :
       /\ DeleteFromServer(answer)
       /\ IF answer = "ok"
          THEN /\ type' = "rejected"
               /\ recs' = [recs EXCEPT ![op.rec].deleted = TRUE]
          ELSE UNCHANGED <<type, recs>>
       /\ op' = [op EXCEPT !.pc = "deleteKey",
                           !.verdict = IF answer = "offline" THEN "retry" ELSE "drop"]
  /\ UNCHANGED <<key, file>> /\ Quiet

DeleteKey ==
  /\ At("deleteKey")
  /\ key' = FALSE
  /\ op' = [op EXCEPT !.pc = "finish"]
  /\ UNCHANGED <<type, recs, server, file>> /\ Quiet

\* getStoredFiles, the certificate, the DH key and the computation.
LoadStored ==
  /\ At("stored")
  /\ \/ /\ server /\ key /\ ~Cancelled
        /\ op' = [op EXCEPT !.pc = "store"] /\ UNCHANGED <<type, server>>
     \/ FailForNow(op)                                \* no answer
     \/ (~server \/ ~key) /\ FailForGood(op, "fail")  \* no such file, no such key
     \/ server /\ key /\ FailForGood(op, "ready")     \* no certificate, bad signature
  /\ UNCHANGED <<recs, key, file>> /\ Quiet

\* Mutant: the key is removed before the record is there.
StoreKeyFirst ==
  /\ At("store")
  /\ key' = FALSE
  /\ op' = [op EXCEPT !.pc = IF key THEN "store" ELSE "dropKey",
                      !.rec = IF key THEN @ ELSE Len(recs) + 1]
  /\ recs' = IF key THEN recs ELSE Append(recs, [NewRecord EXCEPT !.c = TRUE])
  /\ UNCHANGED <<type, server, file>> /\ Quiet

\* What is needed to decrypt the file is in the record from here on.
Store ==
  /\ At("store")
  /\ StoreRecord([NewRecord EXCEPT !.c = TRUE])
  /\ UNCHANGED <<type, key, server, file>> /\ Quiet

DropKey ==
  /\ At("dropKey")
  /\ key' = FALSE
  /\ op' = [op EXCEPT !.pc = "getMeta"]
  /\ UNCHANGED <<type, recs, server, file>> /\ Quiet

\* downloadFile or decryptFile fails, or an exception is thrown.
TransferFails == FailForNow(op) \/ \E t \in {"fail", "ready"} : FailForGood(op, t)

\* fetchAndProcessMeta; a small file is fetched at once on WiFi.
GetMeta ==
  /\ At("getMeta")
  /\ \/ /\ server /\ ~Cancelled
        /\ \E wifi \in BOOLEAN :
             op' = [op EXCEPT !.pc = "metaType", !.now = @ \/ wifi]
        /\ recs' = [recs EXCEPT ![op.rec].meta = TRUE]
        /\ UNCHANGED <<type, server>>
     \/ TransferFails /\ UNCHANGED recs
  /\ UNCHANGED <<key, file>> /\ Quiet

MetaType ==
  /\ At("metaType")
  /\ type' = "gotMeta"
  /\ op' = [op EXCEPT !.pc = "decide"]
  /\ UNCHANGED <<recs, key, server, file>> /\ Quiet

\* Is the pack wanted, or here already?
Decide ==
  /\ At("decide")
  /\ \/ recs[op.rec].pack
        /\ op' = [op EXCEPT !.pc = "clean"] /\ UNCHANGED type
     \/ ~recs[op.rec].pack /\ ~op.now /\ type' = FinalOKType
        /\ op' = [op EXCEPT !.pc = "finish", !.verdict = "ok"]
     \/ ~recs[op.rec].pack /\ op.now /\ ~Cancelled /\ type' = "downloading"
        /\ op' = [op EXCEPT !.pc = "getPack"]
  /\ UNCHANGED <<recs, key, server, file>> /\ Quiet

\* Mutant: the record says that the pack is done when it was loaded.
GetPackDone ==
  /\ At("getPack") /\ server /\ ~Cancelled
  /\ op' = [op EXCEPT !.pc = "unpack"]
  /\ recs' = [recs EXCEPT ![op.rec].pack = TRUE]
  /\ UNCHANGED <<type, server, key, file>> /\ Quiet

\* fetchAndProcessPack up to the archive.
GetPack ==
  /\ At("getPack")
  /\ \/ /\ server /\ ~Cancelled
        /\ op' = [op EXCEPT !.pc = "unpack"] /\ UNCHANGED <<type, server>>
     \/ TransferFails
  /\ UNCHANGED <<recs, key, file>> /\ Quiet

Unpack ==
  /\ At("unpack")
  /\ \/ /\ file' = TRUE
        /\ op' = [op EXCEPT !.pc = "packRecord"] /\ UNCHANGED <<type, server>>
     \/ FailForGood(op, "ready") /\ UNCHANGED file
  /\ UNCHANGED <<recs, key>> /\ Quiet

\* The record says done and loses what it held to decrypt (clearCryptoMaterial).
PackRecord ==
  /\ At("packRecord")
  /\ recs' = [recs EXCEPT ![op.rec].pack = TRUE, ![op.rec].c = FALSE]
  /\ op' = [op EXCEPT !.pc = "packType"]
  /\ UNCHANGED <<type, key, server, file>> /\ Quiet

PackType ==
  /\ At("packType")
  /\ type' = "downloaded"
  /\ op' = [op EXCEPT !.pc = "clean"]
  /\ UNCHANGED <<recs, key, server, file>> /\ Quiet

\* The file is deleted from the server: tried once, the result is not needed.
Clean ==
  /\ At("clean")
  /\ \E answer \in Answers :
       /\ DeleteFromServer(answer)
       /\ IF answer = "ok"
          THEN /\ recs' = [recs EXCEPT ![op.rec].deleted = TRUE]
               /\ type' = "downloaded"
          ELSE UNCHANGED <<type, recs>>
       /\ op' = [op EXCEPT !.pc = "finish", !.verdict = "ok"]
  /\ UNCHANGED <<key, file>> /\ Quiet

\* The message manager is told.
Finish ==
  /\ At("finish")
  /\ acks' = Append(acks, [req |-> op.cur.req, verdict |-> op.verdict])
  /\ op' = [NewOp EXCEPT !.pc = "loop"]
  /\ UNCHANGED <<db, service, pool, user, past>>

(***************************************************************************)
(* The user cancels what is shown as being downloaded (cancelDownload).    *)
(***************************************************************************)

CancelInQueue ==
  /\ ui = "idle" /\ type \in Downloading /\ cancels < MaxCancels
  /\ cancels' = cancels + 1
  /\ found' = (queue # <<>>)
  /\ queue' = IF queue = <<>> THEN queue ELSE [queue EXCEPT ![1].cancelled = TRUE]
  /\ ui' = "notify"
  /\ UNCHANGED <<db, service, acks, ops, op, past>>

\* The notification is delivered before the post returns.
CancelNotify ==
  /\ ui = "notify"
  /\ op' = IF op.pc # "popped" /\ op.cur.req # none
           THEN [op EXCEPT !.cur.cancelled = TRUE] ELSE op
  /\ ui' = IF found THEN "idle" ELSE "read"
  /\ found' = FALSE
  /\ UNCHANGED <<db, service, acks, pool, cancels, past>>

\* "Download probably crashed at some point": the type is read, then set.
CancelRead ==
  /\ ui = "read"
  /\ ui' = IF type \in Downloading THEN "ready" ELSE "idle"
  /\ UNCHANGED <<db, service, acks, pool, op, found, cancels, past>>

CancelReady ==
  /\ ui = "ready"
  /\ type' = "ready" /\ ui' = "idle"
  /\ UNCHANGED <<row, tries, recs, key, server, file, service, acks, pool, op,
                 found, cancels, past>>

\* Mutant: a login leaves the rows as they are.
RestartKeepsRows ==
  /\ crashes < MaxCrashes
  /\ crashes' = crashes + 1
  /\ service' = <<>> /\ acks' = <<>> /\ queue' = <<>> /\ ops' = 0 /\ op' = NewOp
  /\ ui' = "idle" /\ found' = FALSE /\ skipped' = {}
  /\ orphaned' = (orphaned \/ service # <<>>)
  /\ UNCHANGED <<db, cancels, asked>>

\* The application is killed and logs in again, which makes every row due.
Restart ==
  /\ crashes < MaxCrashes
  /\ crashes' = crashes + 1
  /\ row' = [r \in Requests |-> IF row[r] = "processed" THEN "waiting" ELSE row[r]]
  /\ service' = <<>> /\ acks' = <<>>
  /\ queue' = <<>> /\ ops' = 0 /\ op' = NewOp
  /\ ui' = "idle" /\ found' = FALSE
  /\ skipped' = {}
  /\ orphaned' = (orphaned \/ service # <<>>)
  /\ UNCHANGED <<type, tries, recs, key, server, file, cancels, asked>>

OpStep ==
  \/ StartOp \/ Poll \/ Skip \/ Process \/ Abort \/ Begin
  \/ DeleteOnly \/ DeleteKey \/ LoadStored \/ Store \/ DropKey
  \/ GetMeta \/ MetaType \/ Decide \/ GetPack \/ Unpack
  \/ PackRecord \/ PackType \/ Clean \/ Finish

Next ==
  \/ \E r \in Requests, answer \in {"accept", "reject"} : Press(r, answer)
  \/ \E r \in Requests : Notify(r) \/ Take(r) \/ NoCertificate(r) \/ Due(r)
  \/ Confirm \/ InitProgress \/ TransferFinished
  \/ OpStep
  \/ CancelInQueue \/ CancelNotify \/ CancelRead \/ CancelReady
  \/ Restart

Spec == Init /\ [][Next]_vars

(***************************************************************************)
(* Properties                                                              *)
(***************************************************************************)

Types == {"none", "ready", "gotMeta", "downloaded", "rejected", "fail"} \cup Downloading

PCs == {"idle", "loop", "popped", "begin", "delete", "deleteKey", "stored",
        "store", "dropKey", "getMeta", "metaType", "decide", "getPack", "unpack",
        "packRecord", "packType", "clean", "finish"}

Entries == [req : Requests, cancelled : BOOLEAN]
Verdicts == {"ok", "retry", "drop"}
Operations == [pc : PCs, cur : [req : Requests \cup {none}, cancelled : BOOLEAN],
               rec : Nat, now : BOOLEAN, deleted : BOOLEAN, verdict : Verdicts]
Records == [c : BOOLEAN, meta : BOOLEAN, pack : BOOLEAN, deleted : BOOLEAN]
Blocks == [do : {"init", "confirm"}, req : Requests]
Reports == [req : Requests, verdict : Verdicts]

\* Every variable has its type, and the record an operation holds exists.
TypeOK ==
  /\ type \in Types
  /\ row \in [Requests -> {"absent", "waiting", "backoff", "processed"}]
  /\ tries \in [Requests -> 0 .. MaxResend]
  /\ recs \in Seq(Records)
  /\ key \in BOOLEAN /\ server \in BOOLEAN /\ file \in BOOLEAN
  /\ service \in Seq(Blocks)
  /\ queue \in Seq(Entries) /\ ops \in Nat
  /\ acks \in Seq(Reports)
  /\ op \in Operations /\ op.rec <= Len(recs)
  /\ ui \in {"idle", "notify", "read", "ready"} /\ found \in BOOLEAN
  /\ asked \in [Requests -> {"none", "meta", "accept", "reject"}]
  /\ skipped \subseteq Requests
  /\ orphaned \in BOOLEAN
  /\ cancels \in 0 .. MaxCancels /\ crashes \in 0 .. MaxCrashes

\* The places an entry goes through: the queue, the operation that polled it,
\* the call of onTransferFinished.
InQueue(r) == \E i \in DOMAIN queue : queue[i].req = r
InOperation(r) == op.pc \notin {"idle", "loop"} /\ op.cur.req = r
InAcks(r) == \E i \in DOMAIN acks : acks[i].req = r

\* A row that is processed is in one place of the pipeline, which will end
\* in onTransferFinished, unless its entry was cancelled in the queue; no
\* other row is in any place: the row is neither stuck nor worked on twice.
RowHandled ==
  /\ \A r \in Requests :
       /\ row[r] = "processed" /\ r \notin skipped
            <=> InQueue(r) \/ InOperation(r) \/ InAcks(r)
       /\ ~(InQueue(r) /\ InOperation(r))
       /\ ~(InQueue(r) /\ InAcks(r))
       /\ ~(InOperation(r) /\ InAcks(r))
  /\ \A i, j \in DOMAIN queue : queue[i].req = queue[j].req => i = j
  /\ \A i, j \in DOMAIN acks : acks[i].req = acks[j].req => i = j

Rejected == \E r \in Requests : asked[r] = "reject"

\* As long as no request to reject was made and the file was not unpacked,
\* what is needed to decrypt it is in the database: the DH key or, in the
\* record a new run takes up, what was computed from it.
Decryptable ==
  \/ key
  \/ recs # <<>> /\ recs[1].c
  \/ file
  \/ Rejected

\* The record says that the pack is done, and the user sees the file as
\* downloaded, only once it is there.
DoneMeansFile ==
  /\ type = "downloaded" => file
  /\ \A i \in DOMAIN recs : recs[i].pack => file

\* What is shown as being downloaded is being downloaded or will be: there
\* is a row, unless the file was fetched, the type was set late or the row
\* dropped silently.
ShownMeansPending ==
  type \in Downloading /\ ~file /\ ~orphaned =>
    \E r \in Requests : row[r] # "absent"

Readable == key \/ \E i \in DOMAIN recs : recs[i].c
Recorded == \E i \in DOMAIN recs : recs[i].pack
SeenAs == CASE type \in Downloading -> "loading" [] type = "downloaded" -> "done"
            [] type = "rejected" -> "refused" [] type = "fail" -> "failed"
            [] OTHER -> "open"

\* The download is a retrieval, whatever requests, cancellations and runs of
\* the application overlap: nothing needed for the file is given up before it
\* is there or refused, and what the user sees and the record says is true.
Retrieve == INSTANCE Retrieval WITH
  refused <- Rejected, stored <- server, readable <- Readable, unpacked <- file,
  recorded <- Recorded, shown <- SeenAs
ImplementsRetrieval == Retrieve!Spec

=============================================================================
