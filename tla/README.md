# PhoneX for iOS: a verification project

TLA+ models of the parts of PhoneX whose correctness depends on the order of
things: threads, queues, answers of a server, crashes. Every definition is
translated from the Objective-C source under `src/Phonex/Source` (`S/` below);
`PROJECT.json` names the lines each one stands for. TLC checks small instances,
TLAPS proves the main results for all of them.

## 1. The system

PhoneX is a messenger: calls, text messages and files between contacts, all of
it encrypted end to end, over SIP (PJSIP), XMPP for presence and push events,
SOAP for account, certificates and contact list, REST for file storage. The app
is killed, suspended and disconnected at any time, so nearly every subsystem is
a queue in SQLite or in memory, a worker that drains it, and a way to retry.

| Component (S/...) | State | Operations | What is hard | What makes it correct |
|---|---|---|---|---|
| Outgoing messages: `Core/Messages` | tables `PEXDbMessage` and `MessageQueue`, alarms | send, scan, encrypt, hand over, verdict, acknowledgement, backoff, database check, delete | four kinds of threads on one table, lost and late answers, crashes | order per contact, one flight at a time, no message lost or stuck, a verdict is final |
| Incoming messages: `Core/Messages` | incoming rows, nonces seen | decrypt, deduplicate, notify read | certificate not yet known, duplicates | each message shown once |
| Task framework: `Core/Task` | subtasks, a semaphore, a cancel flag | perform, cancel, subtask ended | cancel at any moment | the container ends, with the right result, after its subtasks |
| Contact list: `Core/SoapOps/ContactList` | what was stored where, rollback subtasks | add, remove, rename, fetch | failure or cancellation between server and database | all or nothing, and the result says which |
| Containers: `Core/Utils` | ring queue, priority queue, list, map | push, pop, resize, resort | asynchronous use, index arithmetic | they are queues, lists and maps |
| PJSIP executor: `Specific/Pjsip` | job queue, condition, thread | add job (waiting or not), stop | stop while callers wait, creation without a lock | every caller returns, jobs run once, one at a time and in order |
| PJSIP manager: `Specific/Pjsip` | registration, calls | register, call, send message | callbacks of the stack | owned by the PJSIP library |
| ZRTP transport: `Specific/Pjsip/ZRTP` | flags of the start, SRTP contexts, zrtp-hash of the SDP, retries | start the engine, its callbacks, packets, SDP | network and audio threads start one engine; flags cleared outside the lock; SDP before or after the Hello | secure means keyed both ways, the last hash is judged, a call gets secure or the user knows |
| File download: `Core/Filetransfer`, `Core/Messages` | message type, queue row, records, DH key, download queue | notify, accept, reject, fetch meta data and pack, cancel | many statements between start and end, a crash between any two, cancel against start | the row is never lost, the file stays decryptable, done means it is there |
| File upload: `Core/Filetransfer`, `Core/Messages` | message type, queue row, record, encrypted files, upload queue | send, derive keys, upload, notify, cancel | as above; the row is taken back after 5 minutes while it is worked on | stored once, resumable, announced before the row is released, every upload ends |
| DH keys: `Core/Filetransfer/KeyManagement` | key database, refresh queue | generate, check, expire | the server uses keys meanwhile | enough fresh keys, none used twice |
| Streams: `Core/Stream` | bounded buffer, two conditions | read, write, close | producer and consumer | bytes in order, no waiting for ever |
| Certificates: `Specific/Certificates` | check list, workers | add, check, store | newer event during a check | the newest certificate wins |
| Push: `Specific/Push` | deferred events, time of last fetch | event, completion, connectivity | overlapping fetches, failed uploads | the local list follows the server |
| XMPP and presence | connection, outgoing stanzas | connect, reconnect, send | reconnect races | owned mostly by XMPPFramework |
| Login, service, watchdogs | session, timers, counters | login, logout, background | life cycle of iOS | one session, no file lock held when suspended |
| Licence and payment | receipts, upload queue | buy, verify, upload | App Store queue | a purchase is credited once |
| Database layer | SQLite | query, update, delete | observers | one statement is atomic |
| GUI, cryptography, SOAP stubs, vendored code | | | | not modelled |

How they interact: the GUI stores a message and its queue row; a content
observer wakes the message manager, whose serial worker reads the table; the
transport encrypts and gives the message to the message dispatcher, which calls
the PJSIP manager on its own serial queue and reports the verdict to the message
manager on that queue; the final answer of the SIP transaction comes back through
the PJSIP executor and the dispatcher as a task of the worker. A file is a row of
the same table: the worker hands it to the transfer manager's queue, an operation
works on it, and `onTransferFinished` brings the result back to the worker, which
alone changes the row. The service tells all of them of connectivity, login and
keep-alives.

## 2. Modules

| Module | Models |
|---|---|
| `Outbox` | abstract: what the queue promises about order; its theorem |
| `MessageQueue` | the outgoing text messages of the message manager |
| `MCMessageQueue` | instance for TLC |
| `MessageQueueProofs` | theorems about `MessageQueue`: types, refinement, order, positive answers, then one message's flight, row, backoff and verdict |
| `TaskContainer` | the task framework: container, subtasks, operation queue, cancellation |
| `ContactAdd` | adding a contact, composed with `TaskContainer` (INSTANCE) |
| `MCTaskContainer`, `MCContactAdd` | instances for TLC |
| `TaskContainerProofs`, `ContactAddProofs` | theorems about `TaskContainer` and `ContactAdd` |
| `SerialJobs` | abstract: what those who give jobs to the SIP stack rely on |
| `PjExecutor` | the executor of the SIP stack and the manager that creates and destroys it |
| `MCPjExecutor` | instance for TLC |
| `PjExecutorProofs` | theorems about `PjExecutor` |
| `ZrtpTransport` | the ZRTP transport of a call |
| `MCZrtpTransport`, `ZrtpTransportProofs` | instance for TLC, theorems |
| `Retrieval` | abstract: what fetching a file promises |
| `FtDownload` | the download of a file, from the notification to the unpacked file |
| `MCFtDownload`, `FtDownloadProofs` | instance for TLC, theorems |
| `Delivery` | abstract: what sending files promises |
| `FtUpload` | the upload of a message with files |
| `MCFtUpload`, `FtUploadProofs` | instance for TLC, theorems |

### MessageQueue

State and code:

- `sipMsg` is the type column of `PEXDbMessage` (what the user sees), `queue`,
  `row`, `stamp` are the `MessageQueue` table. A ciphertext is a number, fresh for
  each encryption, and stands for its hash. Times are abstracted to what the code
  compares: `stamp` is a position in the order of times, `resend` tells whether
  `resendTime` is past, is that of the recipient's alarm, or lies in a future no
  timer of this process stands for (after a crash), `stale` whether a row is more
  than 5 minutes untouched, `aged` whether a record is more than 2 minutes old.
- `sub` is the block of each sender thread (stored, stamped, inserted), `wk` what
  the serial worker is in the middle of, `svc` the same for the serial queue of
  the dispatcher, `sends` and `acks` the blocks that wait in the two queues,
  `alarm` the map `futureResendAlarms`.
- `net` holds the SIP transactions without a final answer, `k` telling apart
  several with one ciphertext.
- `accepted`, `contended`, `late` are history, read by no action.

An action is one database statement, or several no other thread can tell apart.
The scan is a loop over a live cursor: `CheckRead(m)` may return any row that is
a head now, if it was one when the scan began or was freed since. A check of the
table may start whenever the worker is idle, because observers, timers,
keep-alives, connectivity and answers all request one.

Environment: the stack may refuse a message (`SendFailed`), answer it late, with
success or failure, or never (`Answer`, `AnswerLost`); the process may be killed
between any two statements (`Crash`), which keeps the database only.

`contended` collects the messages two threads may have had in hand at once: rows
a database check took back from processing, and rows the worker picked while the
service queue had still to report the failure before. Without that exclusion
`SingleFlight`, `NothingLost` and `VerdictIsFinal` do not hold, and the code does not
promise them: a row taken back after 5 minutes is sent twice.

Bounds: `NMsg`, `Recipient` are parameters; the limits of the code (3 resends, and
so on) are small numbers that keep the order of thresholds; `Aging` and
`Removable` say which messages may grow old or be deleted, `MaxCopies`,
`MaxSends`, `MaxCrashes` bound the environment. One message is enough for what
concerns one row, with a resend below and one above the threshold (`one`:
`ResendThreshold` 1, `MaxResends` 2); two messages to one contact for order, since
each conflict is between a pair; contacts share only the worker. `live` has one
resend (`MaxResends` 1): the loop it must leave is the same. The send counter
saturates at `MaxResends`, beyond which the code does not distinguish its values.

Fairness: both serial queues execute what they are given (GCD), sender threads
run, keep-alives bring both checks again and again, alarms and rows age, an
acknowledgement queued is handled in the end; the stack answers a transaction a
row waits for if that happens again and again; and from some time on a
database check no longer finds a row 5 minutes old that is being worked on.
Without the last, a stack that always answers just after 5 minutes keeps a message
going for ever.

### Outbox

A message is dated, stored, leaves and is settled. It may leave only as the
oldest of its recipient, and a message stored after a younger one left is
recorded in `late`. `InOrder`: no message is out while an older one waits, unless
that one is late. `MessageQueue!Box` maps `queue`, `stamp` and the messages on
their way (picked by the worker, waiting for the service queue, or in the stack)
to it.

### TaskContainer

`pc` is the container's thread (`perform`, `waitForSubTasks`), `sem` the semaphore
it waits on, `cancelled` and `noticed` the flag and what the thread knows of it,
`told` the `NSProgress` of the prepared subtasks. `op` is the life of a subtask in
the operation queue and in `main`, `outcome` how it ended, `failed` and `stopped`
the state that the subtasks of a client share. A subtask takes three steps: it
decides whether to run, works, and reports to the container (`taskEnded`); between
the last two it is `reporting`, its result visible to others and not yet counted.

External: NSOperationQueue starts an operation whose dependencies are finished; a
cancelled operation ignores them and finishes without `main`.
`cancelAllOperations` and the propagation of a cancelled progress are one step
each. The container runs on a thread without input sources
(`startOnBackgroundThread`), so its run loop returns when the limit of one poll is
reached.

Which subtasks exist, what they wait for (`Deps`), which is the last and which run
although cancelled are parameters; the clients with branches (certificate
generation) and those with a row of subtasks (pairing) are instances.
Fairness: threads run, and a subtask's work ends, since network calls have
timeouts.

### ContactAdd

Instantiates `TaskContainer` with the six subtasks of `PEXCListAddTask` and its
rollback, adds what the server and the database hold, and replaces the generic end
of a subtask by what each does. The check that runs last or the container's hook
schedules the rollback; each is one step though the array of subtasks has no lock.

The addition may begin with the contact in the database or on the server
(`AddInit`); `Prepare` fails exactly when the database has it. An insertion that
raises or fails goes unnoticed: the exception is caught, the result not tested, and
the subtask succeeds (`StoreLocally`). The deletion of a rollback is as little
tested (`DeleteContact`).

History: `before` is whether the database had the contact, `lost` an insertion and
`kept` a deletion that failed, `overtook` a rollback that ended beside a subtask
that was still storing: its dependency is ignored when the queue was cancelled.
There are no parameters and no bounds. Left out: a query of `Prepare` that fails,
which the code takes for "not there", and a list refresh that inserts the same
contact meanwhile.

### PjExecutor

`executor` is the manager's `_executor`; executors and their threads bear the name
of the call that created them, as each call creates and starts at most one.
`running` is `_pjThreadRunning`, `ready` the executors that have a queue and a
condition. `pc` and `target` are the thread that makes a call: `pjExecName` reads
`_executor` anew in each of its statements, without a lock, so each is an action.
`thread`, `home` and `job` are the executors' threads. Jobs that start, fail to
start, or destroy the stack change `created` and `up`; the last also stops and
forgets the executor it runs on, in two steps.

The wait on the condition ends by a signal or after 3 seconds; the two are not
distinguished, as the code does not. The replacement of a condition while
somebody holds its lock has no defined outcome and is left out; it needs two calls
that start one executor. `raced` (history) tells that two calls created or
started executors at once, or that a job was pushed before the queue existed.
`After` orders the calls of one thread, `Nested` says which start of the stack may fail and
the call of `errorDestroy` its job then makes.

Bounds: each call is made once; `calls` has a start that may fail, a teardown and
a second start in a row, and a second thread with an asynchronous and a waiting
job. Each property relates at most two jobs, or one job and one teardown.
Fairness: threads run, the wait times out, the functions of the stack return.

### ZrtpTransport

`started`, `starting`, `negotFailed`, `iceBusy`, `zrtpCn`, `notSupportedCounter`,
`postponed` (`zrtpHashCheckPostponed`) and `peerSDPZrtpHash` are fields of
`struct tp_zrtp`, `srtp` its two contexts (of RTP; the code tests those, and not
the two of the control protocol beside them), `startLock` and `engineLock` its two
mutexes. `pc` and `back` place each thread in `startZrtp`, in a packet, or in a
callback; reads and writes of flags are actions of their own, as most are made
without a lock. `secure`, `hashMatch` and `notSupp` are what the call and the user
are told.

External: the engine. It is started in its first state, sees the peer's Hello,
agrees, fails at any point, or hears nothing, and calls back under its mutex. What
it calls is the code of `PEXPjZrtpTransport.c`. When it agrees it asks for the two
contexts one by one, in either order; a context that cannot be made
(`SecretsRefused`, the callback returns 0) ends the agreement, and the context of
the other direction may stay until a later agreement replaces it. ICE negotiates for a while and ends.

`raced` (history) tells that `started` was set after the engine had given up and
cleared it: between the test of `negotFailed` and the assignment nothing stops a
callback. Then nobody starts the engine again, and the user is not told.

Bounds: `MaxOffers` 2, as a second SDP overwrites the first and a third would do
the same; one audio thread beside the worker, so that two threads contend for the
start; hashes that are absent, wrong, or right among others. The proofs hold for
any threads, offers and number of offers. Fairness: threads run, audio is sent,
ICE ends, the worker polls its timers again and again. That the peer ever answers
is not assumed.

### FtDownload

`type` is what the chat shows, `row` and `tries` the rows of the message queue that
ask for something (`Requests`: meta data after the notification, the file after an
acceptance, or a rejection), `recs` the records of the transfer in the order
`storeTransferRecord` made them, `key` the DH key in the database, `server` and
`file` the two copies. `service` is the queue of blocks of `PEXService`, `queue` and
`ops` are `downloadQueue` and `downloadOpqueue`, `op` is the operation that runs,
`acks` the results on their way to the message manager, `ui` the thread that
cancels.

The operation's steps are those between which the code leaves a trace: polling
and assigning `_curEntry` (two statements, between which a cancellation misses the
entry), loading or storing the record, removing the key from database and server,
each transfer, each update of the record and of the message. Failures come from
the server for now or for good, or as an exception; `throwIfCancel` ends an
operation at the places the code calls it. `Restart` keeps the database and the
files.

History: `skipped` are requests whose entry was cancelled in the queue: the
operation drops them without a report, and their rows stay processed until the
next login. `orphaned` tells that the block that sets the type ran after its
request was taken, or that a missing certificate removed the row silently; the
message is shown as loading with nothing behind it.

Bounds: two requests, interchangeable until made (symmetry), so that meta data
and acceptance, or acceptance and rejection, overlap; one cancellation, one
restart, one resend beyond the threshold (`Threshold` 0, `MaxResend` 1). A longer
chain repeats a phase from the same database. One request at a time is in its
second attempt (`OneRetry`); the theorems know no such bound. There is no liveness run: rows in
`skipped` never end in a session.

### FtUpload

As `FtDownload`, for one message: `sender` is the thread that stores the message
and its row, `rec` tells how far the record came (keys derived, all done), `temp`
the encrypted files in the cache, `notified` the message that tells the recipient.
The row is outgoing, so `CheckOld` may make it due again while an operation works
on it; `queue` may then hold it twice. `stored` counts what the server
acknowledged. An upload that does not succeed may have arrived all the same
(`MayArrive`). Removing the files, updating the record, notifying and setting the
type are separate steps (`Clean`, `StoreDone`, `Notify`, `Final`).

History: `abandoned` is a row left processed with nobody to report on it (cancelled
in the queue, or its message deleted before it was taken), `gaveup` a row released
for a failure.

Bounds: `Threshold` 1 and `MaxResend` 2, so that a resend at once, one after
backoff, and the last all happen; two checks that find the row old (three entries
in the pipeline), one cancellation, one restart. Fairness: sender, worker, timer
and operations go on; network calls have timeouts. The check is bounded by
`MaxChecks`: a check every 5 minutes of an upload that is slower each time would
queue it for ever.

## 3. Runs

| Run | Question | Result |
|---|---|---|
| `one` | one message, every interleaving of its threads, answers, deletion, ageing, a crash | `TypeOK`, `SingleFlight`, `NothingLost`, `BackoffHolds`, `VerdictIsFinal` hold |
| `order` | two racing messages to a contact | `HeadOfLine`, `SentMeansAccepted` hold; the queue implements the outbox (`ImplementsOutbox`) |
| `live` | does every message settle | `EveryMessageSettles` holds |
| `tasks` | two branches that join, failures, cancellation at any time | `TypeOK`, `OkMeansAllDone`, `NoWorkAfterFailure`, `CancelIsFinal`, `EndsUncancelled`, `EndsIfSomeoneRuns` hold |
| `add` | a contact added, that may be there already, with refusals, lost answers, writes that fail, cancellation | `AddedOrUntouched`, `LocalRolledBack`, `AddEnds` hold |
| `falseok` | `OkMeansAdded`, comment at PEXContactAddTask.m:167 | violated |
| `calls` | start, failure, teardown and restart of the stack while another thread gives jobs | `TypeOK`, `WaitsForItsJob`, `NobodyForgotten`, `InOrder` hold; the executors implement one queue of jobs (`ImplementsSerialJobs`) |
| `stuck` | `NoDeadlock`, comment at PEXPjExecutor.m:94 | violated |
| `zrtp` | two threads start the engine of a call, which fails, retries or hears nothing; two SDPs | `TypeOK`, `StartingHeld`, `NoSilentEnd`, `HashVerdict`, `SecureMeansKeyed`, `Settles` hold |
| `download` | announce, accept, reject, cancel, crash anywhere | `TypeOK`, `RowHandled`, `Decryptable`, `ShownMeansPending` hold; the download implements a retrieval (`ImplementsRetrieval`) |
| `upload` | failures, retries, a row queued again while worked on, cancel, crash anywhere | `TypeOK`, `RowHandled`, `StoredOnce`, `Resumable`, `EveryUploadEnds` hold; the upload implements a delivery (`ImplementsDelivery`) |
| `uploaded` | `UploadedMeansStored`, comment at PEXFtUploadOperation.m:622 | violated |

Deadlock is not checked: when every message is settled, the container has ended,
every call was made or every transfer is over, and in small instances when the
bounds are used up, the system stops.

Each property of a run that passes has a variant of a definition, marked `Mutant:`
in the module, that changes the code the way a plausible bug would; with it TLC
finds the property violated. The variants show that a property says something
about the code.

### What the violations show

- `falseok`: `subTasksFinished` looks at errors and not at cancellations; an
  addition whose subtasks were skipped is reported as a success. (So is one whose
  insertion into the database failed, PEXCListAddTask.m:390-395.)
- `stuck`: `startStack` runs on the executor and calls `errorDestroy`, which waits
  for a job of the same executor: one failed start blocks every later call.

- `uploaded`: the upload is wrapped in a handler of its own that lets only
  `PEXOperationCancelledException` pass; a cancellation raises
  `PEXCancelledException`. The operation goes on: it notifies the recipient and
  shows the files as uploaded, with nothing on the server.

### What the properties exclude

Each exclusion is a history variable or a named part of the state, and each was
needed: without it TLC finds a behaviour of the code.

- `late`: a message is stamped (PEXAmpDispatcher.m:67) before it is inserted, each
  on its own thread; the younger may be inserted and picked first. Two rows of a
  contact are then processed at once, where the comment at PEXMessageManager.m:703
  says one by one.
- `contended`: rows taken back after 5 minutes are sent twice.
- `overtook`: a rollback beside the subtask it undoes leaves the contact stored.
- `lost`: a contact that could not be inserted is reported as added; `kept`: a
  contact whose deletion failed stays after a rollback.
- A container that is cancelled may end while its subtasks run on, since any last
  subtask signals (`OkMeansAllDone` is about the others). One that is cancelled when
  none of its subtasks runs waits for ever: the rest of them end without `main`,
  and nobody signals. `EndsIfSomeoneRuns` and `AddEnds` tell when it does end.
- `PjExecutor!raced`: when two calls create or start executors at once, two threads
  execute jobs of the stack at once, and a job may be pushed to no queue; its caller
  waits for ever. The same holds of jobs behind `cleanDestroy` in the queue of
  the executor it stops (`NobodyForgotten` asks for a running one).
- `ZrtpTransport!raced`: `started` stays set although the engine gave up.
- `skipped`: a download cancelled in the queue keeps its row processed; the next
  login makes it due.
- `orphaned`: a download shown as loading with no row behind it.
- `abandoned`: an upload whose message was deleted before its row was taken is
  made due every 5 minutes in vain, as its report is ignored for a transfer.
- `StoredOnce` counts uploads the server acknowledged: one that arrived and whose
  answer was lost is sent again.
- `NothingLost` begins when the sender has stored the row; a crash before leaves a
  record without one, which the check of the database marks as failed
  (`EveryMessageSettles`).
- `gaveup`: an upload released for a failure; a missing certificate drops the row
  without a change of the message.
- `Resumable` allows a record with neither files nor a record of success once the
  server has the files: after a crash between `Clean` and `StoreDone` the new run
  has nothing to upload and fails, and the recipient is not told.

Met while modelling and kept in the model without a run:

- If the connectivity thread runs at login (PEXMessageManager.m:365), rows
  processed before the restart are not reset until they are 5 minutes old.
- The rollback's soap subtask is created in `prepareProgress` only, for prepared subtasks: the request that
  would remove a half-added contact from the server goes to nil
  (PEXCListAddTask.m:458), and the server keeps the contact.
- A message backed off between the expiration of its recipient's alarm and the
  alarm's timer, half a second later, gets a resend time in the past
  (PEXMessageManager.m:1616).
- Records without a queue row are marked as failed, where the comment at line 360
  says re-enqueue.
- A rejection interrupted by a crash is run again as a request like any other;
  if the record of the rejection was lost the operation starts loading the file.
- An upload that is slower than 5 minutes is queued again by each check.

### Hazards beyond the list

`PROJECT.json` lists the hazards worth a property. Smaller ones met on the way
(files in `S/Core` and `S/Specific`):

- `PEXMessageManager.m`: 1111, a crash between the report of a verdict and the
  removal of the row sends once more; 1241 and 2024, counters and hashes read
  again after another statement; 1615, the comparison of alarm times; 872, the
  live cursor and the limit of one scan.
- `PEXTaskContainer.m:233`, a run loop with a limit in the distant future;
  `PEXCListAddTask.m:343`, a request that timed out may have reached the server.
- `PEXPjExecutor.m:56`, a synchronous job given to an executor that does not run
  returns at once.
- `PEXConcurrentRingQueue.m:81`, the new array is not padded;
  `PEXPriorityQueue.m:162`, `resort` moves an element up only.
- `PEXPushManager.m:551`, an acknowledgement that was not uploaded is replaced;
  `PEXSingleLoginWatcher.m:134`, an event whose check failed is not looked at again.
- `PEXPjZrtpTransport.c:1530`, destroying the transport beside a callback.
- `PEXFtDownloadOperation.m`: 775, 854 and 622, failures between the record and
  the message; `PEXFtTransferManager.m`: 552 and 346, a poll beside a
  cancellation and a logout during a transfer; `PEXFtUploadOperation.m:238`,
  each kind of failure has a report and a type of its own.
- `PEXDbWatchdog.m:175`, counters compared and reset by two timers and a callback.

## 4. Proofs

`MessageQueueProofs` (and `Outbox`), for every number of messages, contacts,
crashes and every limit, from the assumptions `NMsgAssumption`,
`DestAssumption`, `ThresholdAssumption`:

- `TypeCorrect`: `Spec => []TypeOK`. The type of the attempts counter is not
  inductive: `TypeInv` adds that attempts stay at the limit plus the number of
  crashes, plus one only while the service queue is giving the message up.
- `Implements`: `Spec => ImplementsOutbox`. Needs `Placed`: what is stored or on
  its way was inserted, so stamping and inserting concern neither. Then each
  action is a step of the outbox: `Stamp` dates, `Enqueue` submits, `CheckRead` leaves
  or stutters, all others settle.
- `Outbox!LeaveInOrder`: `InOrder` is inductive with the types.
- `Ordered`: `Spec => []HeadOfLine`, from the two.
- `SentIsAccepted`: `Spec => []SentMeansAccepted`. `Honest` adds `AnswersCounted`: a
  positive answer, queued or in the hands of the service, is about a message the
  stack has accepted.

In the second half of the module, from the same assumptions: `OutOnce`, `WaitingHasRow`,
`BackedOffHolds`, `VerdictStays` for `SingleFlight`, `NothingLost`, `BackoffHolds` and
`VerdictIsFinal`. They share one inductive invariant. `Basic`, about all messages:
the types, `Placed`, that an idle worker or service queue holds nothing (`Resting`),
that only stored messages are out (`OutDone`), and what a deleted or new record
says (`Records`). `AllGood`, about each message that is not contended:

- `Alone`: it is in one place, once (worker, a block for the service queue, the
  service queue's hands, the stack, an answer),
- `Marked`: while it is out its row is processed, not yet marked, or being given
  back,
- `Timely`: what is picked or handed over was due,
- `Reported`: a stored message with no row does not wait; who deletes a row has
  reported a verdict, and who holds a message without a row found it deleted by
  the user.

None is inductive without the others: that a verdict is final rests on nobody
holding the message any more, which rests on its row being marked while somebody
does.

`TaskContainerProofs`, for any subtasks, from `TasksAssumption` (well-formedness)
and `LastAssumption`: a set of subtasks that contains the last and, with each, its
dependencies, is all of them. Every client's graph has this form.

- `TypeCorrect`: `Spec => []TypeOK`, inductive as it stands.
- `OkIsOk`, `FailureStops`: `OkMeansAllDone` and `NoWorkAfterFailure`. The invariant
  `IInv` adds `Ordering` (whatever was started has its dependencies behind it),
  `Cancelling` (operations are dropped only when the container was cancelled),
  `Reasons` (whoever did not do its work left the reason in the shared state, or
  was cancelled) and `Signals` (only the last subtask signals). When the last one
  is done and nothing failed, the subtasks that are done and succeeded are closed
  under dependencies, hence all of them.
- `CancelHolds`: `CancelIsFinal`, from `Cancelling`: once the container has noticed
  the flag, all that is queued is cancelled.

`ContactAddProofs`: `ContactAdd` has no parameters, so these are theorems about the
one task, without the enumeration.

- `TypeCorrect`: the types, those of the container included.
- `AllOrNothing`, `NoneLeft`: `AddedOrUntouched` and `LocalRolledBack`, that is, with
  their exceptions `lost`, `kept` and `overtook`. The invariant has what the container needs in general (`Ordering`, `Cancelling`, `Reasons`), and
  who schedules a rollback (`Scheduling`): the check of a failed addition, or the
  hook, and after the hook one that was not cancelled is always left. Until the
  queue is cancelled the wait ends only when the subtask that is last did
  (`Ending`), so a rollback that was scheduled is done. `Effects` says what each
  subtask that is done has stored, and `RollbackHolds` that nothing is stored after
  a rollback, unless it overtook the subtask that stores it; none follows without
  the order of the queue. `Chained`: a subtask of the row starts only when those
  before it ran to their end, as a cancellation never drops one and keeps the next.
  So an addition that stored anything had asked the database first and found it
  without the contact.

`PjExecutorProofs`, for any calls, jobs and order between them, from
`CallsAssumption`:

- `TypeCorrect`: `TypeInv` adds to the types that a thread has a home and holds a
  job exactly while it works on one, and that a call past `start` has a target.
- `Serialized`: `Spec => []Serial`, at most one thread is in a block. Until a race, the only running executor is the
  manager's (`SingleExecutor`), and an executor has one thread, started by the call
  that set it running (`SingleThread`); a thread inside a block belongs to a running
  executor, so there is one.
- `NoneForgotten`: `NobodyForgotten`, inductive together with those: a thread
  leaves a running executor's queue only with a job in its hands.
- `JobDone`: `WaitsForItsJob`, races included. `OnePlace`: a job is in one queue,
  once, or in the hands of one thread, and only while its caller waits or has not to.
  `Attended`: while the caller of a job that was begun still waits, a thread is in
  the block of that job, so the signal at its end cannot be missing.
- `Ordered`: `InOrder`, an action property. For a call `c` made before `d` on the same
  thread, `Sequenced` says of a running executor that the job of `c` is before that of
  `d` in the queue, and that it is nowhere to be executed any more (`Gone`) once the
  job of `d` was popped or executed. It rests on `Calling` (who called before has
  returned, so pushes nothing more) and on the single executor and thread. Restarting
  a stopped executor is a race: its queue still has the jobs it dropped.

- `Implements`: `Spec => ImplementsSerialJobs`. In `SerialJobs` a job is `given`, may be
  `pending`, is `active` alone, and was `executed`. Pending are the jobs in the queue
  of a running executor or popped by its thread, so a pop is a stutter; pushes are
  `Hand`, the start of a block `Begin`, its end `Finish`, and stopping the executor
  `TearDown`, which also ends what is pending. `Begin` needs the four invariants
  above and `Fresh` (what is queued or popped was not executed); a step after a race
  needs only `OnePlace`.

`ZrtpTransportProofs`, for any threads, offers and number of SDPs, from
`ZrtpAssumption`:

- `TypeCorrect`: the retries stay within their limit.
- `FlagHeld`: `StartingHeld`. The mutex's owner is the thread inside `startZrtp`, and
  who sets `starting` owns it; a late `ClearStarting` may clear another's flag but
  never sets one.
- `KeyedWhenSecure`: `SecureMeansKeyed`. The owner of the engine's mutex is the
  thread in a callback. `Keyed`: while it is asked for the second context the first is
  there, both are when it reports success, and nothing shown as secure survives an
  engine that gives up; what a failed agreement left behind is at most replaced.
- `NoneEndsSilently`: `NoSilentEnd`, from `Told`: while the engine is in its initial
  state and `started` is set, the user was told, the engine gave up between the test
  of `negotFailed` and the assignment of `started`, or a thread has still to clear
  `started` or to tell him (`WillTell`).
- `HashJudged`: `HashVerdict`. While a check is postponed the kept hashes are those
  of the last SDP; otherwise the verdict is.

`FtDownloadProofs`, for any requests, limits, cancellations and crashes, from
`DownloadAssumption`:

- `TypeCorrect`: with the types, an operation in a step that changes a record holds
  one that exists (`Typed`).
- `RowsHandled`: `RowHandled`. `RowInv` adds `SkippedKept` (who was skipped is
  processed and in no place) and `BlocksInOrder` (a request has one block in the
  queue of the service, and no row before it is confirmed).
- `StaysDecryptable`, `DoneIsThere`: `Decryptable` and `DoneMeansFile`. `FileInv` adds
  what holds at each step of the operation: it works on the first record
  (`FirstRecord`), the key goes only after the record has what was computed from it
  (`KeyOrRecord`), `pack` is set after the file was unpacked (`PackMeansFile`,
  `FileThere`), and so is the type (`ShownMeansFile`).
- `LoadingHasRow`: `ShownMeansPending`. `Loading` says more than that a row exists: it
  is one of a request that will load the file or change what is shown (`Pending`),
  neither on its way to be deleted nor that of a rejection, unless an earlier run
  deleted the file from the server, as such a rejection goes on like an acceptance
  (`RejectionLoads`, from what the operation reads of the record, `Begun`).
- `Implements`: `Spec => ImplementsRetrieval`. In `Retrieval` a file is `stored`,
  `readable`, `unpacked`, `recorded` and `shown`. It is readable while the key is in the
  database or a record holds what was computed from it, recorded when a record
  says so, and `SeenAs` groups the types of the message. `RetrievalInv` adds what
  the operation knows at each step (`Stage`: between `GetPack` and `Unpack` the
  server still has the file, as only the operation deletes it; a step of `deleteOnly`
  works for a rejection; ...) and `MetaKept`: a record with meta data also holds what
  decrypts the file, so a run that takes it up there can go on.

`FtUploadProofs`, for any limits, checks, cancellations and restarts, from
`UploadAssumption`: `TypeCorrect`, `RowsHandled`, `UploadedOnce`, `Resumes` and
`AnnouncedWhenReleased` for `TypeOK`, `RowHandled`, `StoredOnce`, `Resumable` and
`ReleasedMeansAnnounced`. The invariant of the last four has a part for the time
before the row exists (`Early`), one for each phase of the operation (`Phases`:
after `Clean` the server has the files, after `StoreDone` the record says so), the
verdict the operation holds (`Verdict`) and those queued as acknowledgements
(`Acknowledged`): "ok" is only reported once the record is done; and `Counted`: files
the server acknowledged are on it, and while they are not recorded as such only
a restart makes them be uploaded again.
`Implements`: `Spec => ImplementsDelivery`. In `Delivery` a request is open until it is
closed or fails; files are stored, acknowledged, recorded and announced. `Request` is
the row, with `gaveup` telling a failure; `Taken`, the server's acknowledgement, is
known to an operation between `Upload` and `StoreDone` and to the record after it,
so a restart maps to `Forget`. `Phases` gives the guards of `Arrive`, `Record` and
`Announce`, `Acknowledged` that of `Close`, as the report that releases the row was
queued by an operation long over; `Unsent` (nothing is cancelled before the message
exists) says that the thread that cancels only deletes a message that is there.

Only model-checked: `EveryMessageSettles`, `EndsUncancelled`, `EndsIfSomeoneRuns`,
`AddEnds`, `Settles`, `EveryUploadEnds`, as liveness under fairness is out of the
prover's reach. There is no induction over data: what `Append` and `Tail` do to a
queue is taken from the prover's own theory of sequences.

## 5. Plan

What is left, in this order; each with its own MC module, runs and, where named,
theorems.

1. `PushSync`: contact list, pairing, acknowledgement, token; the hazard at
   PEXPushManager.m:139 has no property yet.
2. `RingQueue` against `Fifo`: refinement and a theorem that no index lies beyond
   the array; `PjExecutor` and the transfer manager then rest on `Fifo`.
3. `PriorityQueue` with `UserKeyRefreshQueue` and the event serializer: heap order.
4. `DbWatchdog`, `SingleLoginWatcher`.
5. `DhKeyGen`, `CertificateUpdate`, `ChunkStream`, incoming messages, login and
   service life cycle.

Theorems to add: the refinement of `Fifo`.

## 6. Not modelled

Cryptography, the SIP, XMPP and SOAP libraries, the GUI, SQLite itself (one
statement is taken as atomic and durable), generated and vendored code.

- Message queue: incoming rows, notification rows, which are selected in parallel
  and not per recipient, and the thread that waits for connectivity beyond its
  effect on the login check. Rows of files are in `FtDownload` and `FtUpload`, without
  the text messages beside them.
- Task framework: progress figures and the event serializer.
- Contact list: removing, renaming and fetching contacts; the certificate and the
  pairing requests stored beside the contact.
- SIP manager: registration, calls, and the watchdog that decides when to restart
  the stack.
- ZRTP transport: it is always enabled; attaching, detaching and destroying the
  transport, encryption of packets, the engine itself; ICE negotiates once.
- Download: a write to the database that fails, in particular the insertion of the
  record, after which the DH key is deleted all the same
  (PEXFtDownloadOperation.m:425), a logout during a transfer, deletion of the message by the user
  during a download, the capacity of the ring queue, progress, and the removal of
  temporary files.
- Upload: a logout (the database is unloaded right after), the notification's own
  way through the queue and what its verdict makes of the type, the derivation of
  keys beyond its outcomes, progress.

The application is Objective-C: the C and C++ files of the repository are
vendored libraries, except the ZRTP transport.
