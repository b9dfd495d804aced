---------------------------- MODULE MessageQueue ----------------------------
(***************************************************************************)
(* The outgoing text messages of PEXMessageManager: the MessageQueue table *)
(* and the four kinds of threads that work on it.                          *)
(*                                                                         *)
(*   - sender threads (one block on a global concurrent queue per message) *)
(*     store the SipMessage record, stamp it and insert its queue row;     *)
(*   - the serial worker queue "msgQueue" scans the table, encrypts and    *)
(*     hands rows over, handles acknowledgements and checks the database;  *)
(*   - the serial service queue "svcDispatchSQ" calls the SIP stack and    *)
(*     records its verdict in the row;                                     *)
(*   - the user interface deletes messages.                                *)
(*                                                                         *)
(* The database survives a crash, everything else does not.  One action is *)
(* one database statement, or several that no other thread can tell apart. *)
(*                                                                         *)
(* Checks of the queue are triggered by every change of the table, by      *)
(* timers, keep-alives, connectivity and application events, so one may be *)
(* the next task of the worker at any time; connectivity is an input of    *)
(* the check that reads it.                                                *)
(***************************************************************************)
EXTENDS Naturals, Sequences, FiniteSets

CONSTANTS
    NMsg,               \* messages the user sends, numbered as he sends them
    Recipient,          \* SIP contacts
    Dest,               \* the recipient of every message
    ResendThreshold,    \* RESEND_BACKOFF_THRESHOLD
    MaxResends,         \* getMaxResendAttempts
    StackThreshold,     \* RESEND_STACK_BACKOFF_THRESHOLD
    MaxStackResends,    \* getMaxResendStackAttempts
    Aging,              \* bound: messages that may get minutes old in the queue
    Removable,          \* bound: messages the user may delete
    MaxCopies,          \* bound: SIP transactions at once with one ciphertext
    MaxSends,           \* bound: sendMessage blocks waiting in the service queue
    MaxCrashes          \* bound: terminations of the process

Msg == 1..NMsg

ASSUME NMsgAssumption == NMsg \in Nat
ASSUME DestAssumption == Dest \in [Msg -> Recipient]
ASSUME ThresholdAssumption ==
    /\ ResendThreshold \in Nat \ {0}
    /\ MaxResends \in Nat /\ MaxResends >= ResendThreshold
    /\ StackThreshold \in Nat \ {0}
    /\ MaxStackResends \in Nat /\ MaxStackResends >= StackThreshold
    /\ MaxCopies \in Nat \ {0}
    /\ MaxSends \in Nat \ {0}
    /\ MaxCrashes \in Nat

VARIABLES
    \* the database
    sipMsg,     \* type of the PEXDbMessage record, "none" if there is none
    queue,      \* messages that have a row in the MessageQueue table
    row,        \* the columns of the row
    stamp,      \* the time column, as a position in the order of stamping
    \* the process
    sub,        \* where the sender thread of a message is
    wk,         \* what the worker queue is doing
    svc,        \* what the service queue is doing
    sends,      \* sendMessage blocks waiting in the service queue
    acks,       \* ack tasks waiting in the worker queue
    alarm,      \* futureResendAlarms
    removing,   \* messages deleted by the user whose row is still to delete
    session,    \* how far the login of this process has come
    \* the SIP stack and the passing of time
    net,        \* SIP transactions without a final answer
    aged,       \* messages created more than 2 minutes ago
    crashes,
    \* history
    accepted,   \* messages some positive answer was received for
    contended,  \* messages two threads may have worked on at once
    late        \* rows inserted after a row with a later time

db == <<sipMsg, queue, row, stamp>>
proc == <<sub, wk, svc, sends, acks, alarm, removing, session>>
world == <<net, aged, crashes>>
history == <<accepted, contended, late>>
vars == <<sipMsg, queue, row, stamp, sub, wk, svc, sends, acks, alarm,
          removing, session, net, aged, crashes, accepted, contended, late>>

Waiting == {"queued", "pending", "backoff"}
SipTypes == Waiting \union {"none", "sent", "failed"}

\* resend says where resendTime lies: past, at the expiration of the alarm of
\* the recipient, or in a future no alarm of this process stands for.  stale:
\* resendTime, lastSendCall and time are all more than 5 minutes ago.
Row == [processed: BOOLEAN, ct: Nat, sends: 0..MaxResends,
        attempts: 0..(MaxStackResends + 1 + MaxCrashes),
        resend: {"past", "alarm", "future"}, stale: BOOLEAN]

NewRow == [processed |-> FALSE, ct |-> 0, sends |-> 0, attempts |-> 0,
           resend |-> "past", stale |-> FALSE]

WkIdle == [pc |-> "idle", m |-> 0, ct |-> 0, ids |-> {}, back |-> "idle"]
WkScan(ids) == [WkIdle EXCEPT !.pc = "scan", !.ids = ids, !.back = "scan"]
WkBack == IF wk.back = "scan" THEN WkScan(wk.ids) ELSE WkIdle
SvcIdle == [pc |-> "idle", m |-> 0]

AtMost(n, max) == IF n > max THEN max ELSE n

\* UPDATE ... WHERE id=?: nothing happens to a row that is gone.
Put(m, r) == row' = IF m \in queue THEN [row EXCEPT ![m] = r] ELSE row

\* UPDATE of the type of a SipMessage record, if it still exists.
ReportTo(m, type) ==
    sipMsg' = IF sipMsg[m] = "none" THEN sipMsg ELSE [sipMsg EXCEPT ![m] = type]

Delete(m) ==
    /\ queue' = queue \ {m}
    /\ row' = [row EXCEPT ![m] = NewRow]

SameDest(m, o) == Dest[m] = Dest[o]

\* Mutant: the oldest of the rows that are not processed.
HeadsUnprocessed ==
    {m \in queue : /\ ~row[m].processed
                   /\ \A o \in queue : SameDest(m, o) /\ ~row[o].processed =>
                                          ~(stamp[m] > stamp[o])}

\* The rows getOldestPerRecipientURI selects.
Heads == {m \in queue : \A o \in queue : SameDest(m, o) => ~(stamp[m] > stamp[o])}

Init ==
    /\ sipMsg = [m \in Msg |-> "none"]
    /\ queue = {}
    /\ row = [m \in Msg |-> NewRow]
    /\ stamp = [m \in Msg |-> 0]
    /\ sub = [m \in Msg |-> "new"]
    /\ wk = WkIdle
    /\ svc = SvcIdle
    /\ sends = <<>>
    /\ acks = {}
    /\ alarm = [r \in Recipient |-> "none"]
    /\ removing = {}
    /\ session = "registered"
    /\ net = {}
    /\ aged = {}
    /\ crashes = 0
    /\ accepted = {}
    /\ contended = {}
    /\ late = {}

-----------------------------------------------------------------------------
(* The sender thread of a message: sendMessage, dispatchTextMessageObj and  *)
(* enqueue.                                                                 *)

Save(m) ==
    /\ sub[m] = "new"
    /\ \A o \in Msg : o < m => sub[o] # "new"
    /\ sub' = [sub EXCEPT ![m] = "saved"]
    /\ sipMsg' = [sipMsg EXCEPT ![m] = "queued"]
    /\ UNCHANGED <<queue, row, stamp, wk, svc, sends, acks, alarm, removing,
                   session, world, history>>

Stamp(m) ==
    /\ sub[m] = "saved"
    /\ sub' = [sub EXCEPT ![m] = "stamped"]
    /\ stamp' = [stamp EXCEPT ![m] = Cardinality({o \in Msg : stamp[o] > 0}) + 1]
    /\ UNCHANGED <<sipMsg, queue, row, wk, svc, sends, acks, alarm, removing,
                   session, world, history>>

Enqueue(m) ==
    /\ sub[m] = "stamped"
    /\ sub' = [sub EXCEPT ![m] = "done"]
    /\ queue' = queue \union {m}
    /\ late' = IF \E o \in Msg : /\ sub[o] = "done"
                                 /\ SameDest(m, o)
                                 /\ stamp[o] > stamp[m]
               THEN late \union {m} ELSE late
    /\ UNCHANGED <<sipMsg, row, stamp, wk, svc, sends, acks, alarm, removing,
                   session, world, accepted, contended>>

-----------------------------------------------------------------------------
(* The worker scans the table: databaseChanged.                             *)

\* Nothing outgoing is selected while there is no connectivity.
CheckBegin ==
    /\ wk.pc = "idle"
    /\ \E connectivityValid \in BOOLEAN : connectivityValid
    /\ wk' = WkScan(Heads)
    /\ UNCHANGED <<db, sub, svc, sends, acks, alarm, removing, session, world,
                   history>>

\* The service queue has still to settle the message.
SvcHolds(m) == svc.m = m /\ svc.pc # "sent"

\* Mutant: the resend time is not looked at.
CheckReadEarly(m) ==
    /\ wk.pc = "scan"
    /\ m \in Heads
    /\ m \in wk.ids \/ ~row[m].processed
    /\ wk' = IF row[m].processed THEN WkScan(wk.ids \ {m})
             ELSE [WkScan(wk.ids \ {m}) EXCEPT !.pc = "mark", !.m = m, !.ct = row[m].ct]
    /\ contended' = IF ~row[m].processed /\ SvcHolds(m) THEN contended \union {m}
                    ELSE contended
    /\ UNCHANGED <<db, sub, svc, sends, acks, alarm, removing, session, world,
                   accepted, late>>

\* Mutant: the rows of the scan are read once, when it begins.
CheckReadSnapshot(m) ==
    /\ wk.pc = "scan"
    /\ m \in queue \intersect wk.ids
    /\ LET rest == wk.ids \ {m}
           skip == row[m].processed \/ row[m].resend # "past"
       IN  /\ wk' = IF skip THEN WkScan(rest)
                    ELSE [WkScan(rest) EXCEPT !.pc = "mark", !.m = m, !.ct = row[m].ct]
           /\ contended' = IF ~skip /\ SvcHolds(m) THEN contended \union {m} ELSE contended
    /\ UNCHANGED <<db, sub, svc, sends, acks, alarm, removing, session, world,
                   accepted, late>>

\* The cursor steps through a live statement: a row that became the head of its
\* recipient after the scan began may be returned or not.
CheckRead(m) ==
    /\ wk.pc = "scan"
    /\ m \in Heads
    /\ m \in wk.ids \/ ~row[m].processed
    /\ LET rest == wk.ids \ {m}
           skip == row[m].processed \/ row[m].resend # "past"
       IN  /\ wk' = IF skip THEN WkScan(rest)
                    ELSE [WkScan(rest) EXCEPT !.pc = "mark", !.m = m, !.ct = row[m].ct]
           /\ contended' = IF ~skip /\ SvcHolds(m) THEN contended \union {m} ELSE contended
    /\ UNCHANGED <<db, sub, svc, sends, acks, alarm, removing, session, world,
                   accepted, late>>

CheckEnd ==
    /\ wk.pc = "scan"
    /\ wk.ids \intersect Heads = {}
    /\ wk' = WkIdle
    /\ UNCHANGED <<db, sub, svc, sends, acks, alarm, removing, session, world,
                   history>>

\* Mutant: the row is reported but not marked.
MarkNothing ==
    /\ wk.pc = "mark"
    /\ ReportTo(wk.m, "pending")
    /\ wk' = [wk EXCEPT !.pc = "transmit"]
    /\ UNCHANGED <<queue, row, stamp, sub, svc, sends, acks, alarm, removing,
                   session, world, history>>

\* processOutgoingMessage: the row is marked and reported before it is built.
Mark ==
    /\ wk.pc = "mark"
    /\ Put(wk.m, [row[wk.m] EXCEPT !.processed = TRUE])
    /\ ReportTo(wk.m, "pending")
    /\ wk' = [wk EXCEPT !.pc = "transmit"]
    /\ UNCHANGED <<queue, stamp, sub, svc, sends, acks, alarm, removing,
                   session, world, history>>

\* No profile, no certificate, or the message cannot be built (from the mark or
\* the transmit step): deleteAndReportToAppLayer.
Reject ==
    /\ wk.pc = "mark" \/ (wk.pc = "transmit" /\ wk.ct = 0)
    /\ Put(wk.m, [row[wk.m] EXCEPT !.processed = TRUE])
    /\ ReportTo(wk.m, "failed")
    /\ wk' = [wk EXCEPT !.pc = "delete", !.ct = 0]
    /\ UNCHANGED <<queue, stamp, sub, svc, sends, acks, alarm, removing,
                   session, world, history>>

\* transmit, transmitStpSimple, sendMessageToPjSip: an existing ciphertext is
\* sent again, otherwise a new one is built and stored with its hash.
NewCt(m) == row[m].attempts + 1

\* Mutant: the worker reports a state once the message is handed over.
TransmitAndReport ==
    /\ wk.pc = "transmit"
    /\ Len(sends) < MaxSends
    /\ LET ct == IF wk.ct # 0 THEN wk.ct ELSE NewCt(wk.m) IN
       /\ IF wk.ct # 0 THEN UNCHANGED row
          ELSE Put(wk.m, [row[wk.m] EXCEPT !.ct = ct])
       /\ sends' = Append(sends, [m |-> wk.m, ct |-> ct])
    /\ wk' = [wk EXCEPT !.pc = "report"]
    /\ UNCHANGED <<sipMsg, queue, stamp, sub, svc, acks, alarm, removing,
                   session, world, history>>

Transmit ==
    /\ wk.pc = "transmit"
    /\ Len(sends) < MaxSends
    /\ LET ct == IF wk.ct # 0 THEN wk.ct ELSE NewCt(wk.m) IN
       /\ IF wk.ct # 0 THEN UNCHANGED row
          ELSE Put(wk.m, [row[wk.m] EXCEPT !.ct = ct])
       /\ sends' = Append(sends, [m |-> wk.m, ct |-> ct])
    /\ wk' = WkScan(wk.ids)
    /\ UNCHANGED <<sipMsg, queue, stamp, sub, svc, acks, alarm, removing,
                   session, world, history>>

\* The last statement of deleteAndReportToAppLayer.
WkDelete ==
    /\ wk.pc = "delete"
    /\ Delete(wk.m)
    /\ wk' = WkBack
    /\ UNCHANGED <<sipMsg, stamp, sub, svc, sends, acks, alarm, removing,
                   session, world, history>>

-----------------------------------------------------------------------------
(* The worker checks the database: dbCheckInt.                              *)

\* dbCheckWithoutQueuedMsg selects the old waiting messages without a row ...
DbCheckBegin(task) ==
    /\ wk.pc = "idle"
    /\ task = "start" => session = "start"
    /\ wk' = [WkIdle EXCEPT !.pc = task,
                 !.ids = {m \in aged \ queue : sipMsg[m] \in Waiting}]
    /\ UNCHANGED <<db, sub, svc, sends, acks, alarm, removing, session, world,
                   history>>

\* Mutant: rows are taken back only after a restart.
DbCheckEndNoStale ==
    /\ wk.pc \in {"dbCheck", "start"}
    /\ sipMsg' = [m \in Msg |->
                     IF m \in wk.ids /\ sipMsg[m] \in Waiting THEN "failed" ELSE sipMsg[m]]
    /\ row' = [m \in Msg |-> IF m \in queue /\ wk.pc = "start"
                             THEN [row[m] EXCEPT !.processed = FALSE] ELSE row[m]]
    /\ contended' = IF wk.pc = "start" THEN contended \union queue ELSE contended
    /\ session' = IF wk.pc = "start" THEN "in" ELSE session
    /\ wk' = WkIdle
    /\ UNCHANGED <<queue, stamp, sub, svc, sends, acks, alarm, removing,
                   world, accepted, late>>

\* ... and fails those that still wait.  Then all rows (just started) or only
\* the stale ones are taken back from processing.
DbCheckEnd ==
    /\ wk.pc \in {"dbCheck", "start"}
    /\ sipMsg' = [m \in Msg |->
                     IF m \in wk.ids /\ sipMsg[m] \in Waiting THEN "failed" ELSE sipMsg[m]]
    /\ LET back == {m \in queue : /\ row[m].processed
                                  /\ wk.pc = "start" \/ row[m].stale} IN
       /\ row' = [m \in Msg |->
                     IF m \in back THEN [row[m] EXCEPT !.processed = FALSE] ELSE row[m]]
       /\ contended' = contended \union back
    /\ session' = IF wk.pc = "start" THEN "in" ELSE session
    /\ wk' = WkIdle
    /\ UNCHANGED <<queue, stamp, sub, svc, sends, acks, alarm, removing,
                   world, accepted, late>>

-----------------------------------------------------------------------------
(* setupBackoffResend, on the worker or on the service queue: the row       *)
(* shares the expiration of the alarm of its recipient, if there is one.    *)

BackedOff(m) ==
    [row[m] EXCEPT !.processed = FALSE, !.stale = FALSE,
                   !.resend = IF alarm[Dest[m]] = "expired" THEN "past" ELSE "alarm"]

\* What remains to do: the report, and the alarm if none was found.
AfterBackoff(m) == IF alarm[Dest[m]] = "none" THEN "arm" ELSE "report"

BackoffReport(m, todo) ==
    /\ ReportTo(m, "backoff")
    /\ alarm' = IF todo = "arm" THEN [alarm EXCEPT ![Dest[m]] = "armed"] ELSE alarm

-----------------------------------------------------------------------------
(* The worker handles an answer of the stack: acknowledgmentFromPjSip.      *)

\* Mutant: the row is searched by recipient only.
AckRowOfRecipient(a, m) ==
    m \in queue /\ SameDest(m, a.tx.m) /\ row[m].processed

\* The row with the hash of the message the answer is for: a ciphertext is unique.
AckRow(a, m) ==
    /\ m \in queue /\ SameDest(m, a.tx.m)
    /\ <<m, row[m].ct>> = <<a.tx.m, a.tx.ct>>
    /\ row[m].processed

AckRead(a) == wk.pc = "idle" /\ a \in acks /\ acks' = acks \ {a}

AckUnknown(a) ==
    /\ AckRead(a)
    /\ \A m \in Msg : ~AckRow(a, m)
    /\ UNCHANGED <<db, sub, wk, svc, sends, alarm, removing, session, world,
                   history>>

AckPositive(a, m) ==
    /\ AckRead(a)
    /\ AckRow(a, m) /\ a.ok
    /\ ReportTo(m, "sent")
    /\ wk' = [WkIdle EXCEPT !.pc = "delete", !.m = m]
    /\ UNCHANGED <<queue, row, stamp, sub, svc, sends, alarm, removing,
                   session, world, history>>

\* Mutant: the row is deleted and the application layer told nothing.
AckLimitSilent(a, m) ==
    /\ AckRead(a)
    /\ AckRow(a, m) /\ ~a.ok
    /\ row[m].sends >= MaxResends
    /\ wk' = [WkIdle EXCEPT !.pc = "delete", !.m = m]
    /\ UNCHANGED <<sipMsg, queue, row, stamp, sub, svc, sends, alarm, removing,
                   session, world, history>>

\* The three outcomes of a negative answer.
AckLimit(a, m) ==
    /\ AckRead(a)
    /\ AckRow(a, m) /\ ~a.ok
    /\ row[m].sends >= MaxResends
    /\ ReportTo(m, "failed")
    /\ wk' = [WkIdle EXCEPT !.pc = "delete", !.m = m]
    /\ UNCHANGED <<queue, row, stamp, sub, svc, sends, alarm, removing,
                   session, world, history>>

AckResend(a, m) ==
    /\ AckRead(a)
    /\ AckRow(a, m) /\ ~a.ok
    /\ row[m].sends < MaxResends
    /\ row[m].sends < ResendThreshold
    /\ Put(m, [row[m] EXCEPT !.processed = FALSE])
    /\ UNCHANGED <<sipMsg, queue, stamp, sub, wk, svc, sends, alarm, removing,
                   session, world, history>>

AckBackoff(a, m) ==
    /\ AckRead(a)
    /\ AckRow(a, m) /\ ~a.ok
    /\ row[m].sends < MaxResends
    /\ row[m].sends >= ResendThreshold
    /\ Put(m, BackedOff(m))
    /\ wk' = [WkIdle EXCEPT !.pc = AfterBackoff(m), !.m = m]
    /\ UNCHANGED <<sipMsg, queue, stamp, sub, svc, sends, alarm, removing,
                   session, world, history>>

WkBackoff ==
    /\ wk.pc \in {"report", "arm"}
    /\ BackoffReport(wk.m, wk.pc)
    /\ wk' = WkIdle
    /\ UNCHANGED <<queue, row, stamp, sub, svc, sends, acks, removing, session,
                   world, history>>

-----------------------------------------------------------------------------
(* The service queue: sendMessageImpl, onMessageSent, handleSendFailed.     *)

SvcReady == svc.pc = "idle" /\ sends # <<>>

FreeCopies(s) ==
    {k \in 1..MaxCopies :
        LET tx == [m |-> s.m, ct |-> s.ct, k |-> k]
        IN  tx \notin net /\ \A a \in acks : a.tx # tx}

\* The stack takes the message: it may be answered before the counter is updated.
SendOk ==
    /\ SvcReady
    /\ LET s == Head(sends) IN
       /\ \E k \in FreeCopies(s) : net' = net \union {[m |-> s.m, ct |-> s.ct, k |-> k]}
       /\ svc' = [m |-> s.m, pc |-> "sent"]
    /\ sends' = Tail(sends)
    /\ UNCHANGED <<db, sub, wk, acks, alarm, removing, session, aged, crashes, history>>

SvcSent ==
    /\ svc.pc = "sent"
    /\ Put(svc.m, [row[svc.m] EXCEPT !.sends = AtMost(row[svc.m].sends + 1, MaxResends),
                                     !.stale = FALSE])
    /\ svc' = SvcIdle
    /\ UNCHANGED <<sipMsg, queue, stamp, sub, wk, sends, acks, alarm, removing,
                   session, world, history>>

\* Mutant: a message is backed off for ever.
SendFailedForEver ==
    /\ SvcReady
    /\ LET m == Head(sends).m
           n == row[m].attempts + 1
       IN  IF m \notin queue THEN UNCHANGED <<row, svc>>
           ELSE /\ Put(m, [row[m] EXCEPT !.attempts = n])
                /\ svc' = [m |-> m, pc |-> IF n < StackThreshold THEN "requeue" ELSE "backoff"]
    /\ sends' = Tail(sends)
    /\ UNCHANGED <<sipMsg, queue, stamp, sub, wk, acks, alarm, removing,
                   session, world, history>>

\* The stack refuses the message; its row is loaded and one more attempt counted.
SendFailed ==
    /\ SvcReady
    /\ LET m == Head(sends).m
           n == row[m].attempts + 1
       IN  IF m \notin queue THEN UNCHANGED <<row, svc>>
           ELSE /\ Put(m, [row[m] EXCEPT !.attempts = n])
                /\ svc' = [m |-> m, pc |-> IF n < StackThreshold THEN "requeue"
                                         ELSE IF n <= MaxStackResends THEN "backoff"
                                         ELSE IF row[m].processed THEN "giveUp"
                                         ELSE "mark"]
    /\ sends' = Tail(sends)
    /\ UNCHANGED <<sipMsg, queue, stamp, sub, wk, acks, alarm, removing,
                   session, world, history>>

\* Back to the queue at once, the ciphertext dropped.
SvcRequeue ==
    /\ svc.pc = "requeue"
    /\ Put(svc.m, [row[svc.m] EXCEPT !.processed = FALSE, !.ct = 0, !.stale = FALSE])
    /\ svc' = SvcIdle
    /\ UNCHANGED <<sipMsg, queue, stamp, sub, wk, sends, acks, alarm, removing,
                   session, world, history>>

\* deleteAndReportToAppLayer, for a row that was loaded as not processed.
SvcMark ==
    /\ svc.pc = "mark"
    /\ Put(svc.m, [row[svc.m] EXCEPT !.processed = TRUE])
    /\ svc' = [svc EXCEPT !.pc = "giveUp"]
    /\ UNCHANGED <<sipMsg, queue, stamp, sub, wk, sends, acks, alarm, removing,
                   session, world, history>>

SvcGiveUp ==
    /\ svc.pc = "giveUp"
    /\ ReportTo(svc.m, "failed")
    /\ svc' = [svc EXCEPT !.pc = "delete"]
    /\ UNCHANGED <<queue, row, stamp, sub, wk, sends, acks, alarm, removing,
                   session, world, history>>

SvcDelete ==
    /\ svc.pc = "delete"
    /\ Delete(svc.m)
    /\ svc' = SvcIdle
    /\ UNCHANGED <<sipMsg, stamp, sub, wk, sends, acks, alarm, removing,
                   session, world, history>>

SvcBackoff ==
    /\ svc.pc = "backoff"
    /\ Put(svc.m, BackedOff(svc.m))
    /\ svc' = IF svc.m \in queue THEN [svc EXCEPT !.pc = AfterBackoff(svc.m)] ELSE SvcIdle
    /\ UNCHANGED <<sipMsg, queue, stamp, sub, wk, sends, acks, alarm, removing,
                   session, world, history>>

SvcReport ==
    /\ svc.pc \in {"report", "arm"}
    /\ BackoffReport(svc.m, svc.pc)
    /\ svc' = SvcIdle
    /\ UNCHANGED <<queue, row, stamp, sub, wk, sends, acks, removing, session,
                   world, history>>

-----------------------------------------------------------------------------
(* The SIP stack answers a transaction, or its answer is lost.              *)

Answer(tx, ok) ==
    /\ tx \in net
    /\ net' = net \ {tx}
    /\ acks' = acks \union {[tx |-> tx, ok |-> ok]}
    /\ accepted' = IF ok THEN accepted \union {tx.m} ELSE accepted
    /\ UNCHANGED <<db, sub, wk, svc, sends, alarm, removing, session, aged,
                   crashes, contended, late>>

AnswerLost(tx) ==
    /\ tx \in net
    /\ net' = net \ {tx}
    /\ UNCHANGED <<db, proc, aged, crashes, history>>

-----------------------------------------------------------------------------
(* The login of the process and the passing of time.                        *)

\* onAccountLoggedIn leaves the check to the PEXWaitForConnectivityTask, if one
\* is running: onConnectivityChange starts it whenever it finds none.
Login ==
    /\ session = "registered"
    /\ \E waiting \in BOOLEAN : session' = IF waiting THEN "in" ELSE "start"
    /\ UNCHANGED <<db, sub, wk, svc, sends, acks, alarm, removing, world, history>>

\* The expiration of an alarm is half a second before its timer.
AlarmExpires(r) ==
    /\ alarm[r] = "armed"
    /\ alarm' = [alarm EXCEPT ![r] = "expired"]
    /\ row' = [m \in Msg |-> IF Dest[m] = r /\ row[m].resend = "alarm"
                             THEN [row[m] EXCEPT !.resend = "past"] ELSE row[m]]
    /\ UNCHANGED <<sipMsg, queue, stamp, sub, wk, svc, sends, acks, removing,
                   session, world, history>>

TimerFires(r) ==
    /\ alarm[r] = "expired"
    /\ alarm' = [alarm EXCEPT ![r] = "none"]
    /\ UNCHANGED <<db, sub, wk, svc, sends, acks, removing, session, world,
                   history>>

RowDue(m) ==
    /\ m \in queue /\ row[m].resend = "future"
    /\ row' = [row EXCEPT ![m].resend = "past"]
    /\ UNCHANGED <<sipMsg, queue, stamp, proc, world, history>>

MsgAges(m) ==
    /\ m \in Aging /\ sub[m] # "new" /\ m \notin aged
    /\ aged' = aged \union {m}
    /\ UNCHANGED <<db, proc, net, crashes, history>>

RowStale(m) ==
    /\ m \in queue \intersect aged
    /\ row[m].resend = "past" /\ ~row[m].stale
    /\ row' = [row EXCEPT ![m].stale = TRUE]
    /\ UNCHANGED <<sipMsg, queue, stamp, proc, world, history>>

-----------------------------------------------------------------------------
(* The user deletes a message: removeMessageForId, the record first.        *)

RemoveMsg(m) ==
    /\ m \in Removable /\ sub[m] = "done" /\ sipMsg[m] # "none"
    /\ sipMsg' = [sipMsg EXCEPT ![m] = "none"]
    /\ removing' = removing \union {m}
    /\ UNCHANGED <<queue, row, stamp, sub, wk, svc, sends, acks, alarm,
                   session, world, history>>

RemoveRow(m) ==
    /\ m \in removing
    /\ removing' = removing \ {m}
    /\ Delete(m)
    /\ UNCHANGED <<sipMsg, stamp, sub, wk, svc, sends, acks, alarm, session,
                   world, history>>

-----------------------------------------------------------------------------
(* The process is terminated and started again: doRegister, then Login.     *)

Crash ==
    /\ crashes < MaxCrashes
    /\ crashes' = crashes + 1
    /\ row' = [m \in Msg |-> IF row[m].resend = "alarm"
                             THEN [row[m] EXCEPT !.resend = "future"] ELSE row[m]]
    /\ sub' = [m \in Msg |-> IF sub[m] \in {"saved", "stamped"} THEN "lost" ELSE sub[m]]
    /\ wk' = WkIdle
    /\ svc' = SvcIdle
    /\ sends' = <<>>
    /\ acks' = {}
    /\ alarm' = [r \in Recipient |-> "none"]
    /\ removing' = {}
    /\ session' = "registered"
    /\ net' = {}
    /\ UNCHANGED <<sipMsg, queue, stamp, aged, accepted, contended, late>>

-----------------------------------------------------------------------------
Sender == \E m \in Msg : Save(m) \/ Stamp(m) \/ Enqueue(m)

Worker ==
    \/ CheckBegin \/ CheckEnd \/ Mark \/ Reject \/ Transmit \/ WkDelete \/ WkBackoff
    \/ \E m \in Msg : CheckRead(m)
    \/ \E task \in {"dbCheck", "start"} : DbCheckBegin(task)
    \/ DbCheckEnd
    \/ \E a \in acks : AckUnknown(a)
    \/ \E a \in acks, m \in Msg :
          AckPositive(a, m) \/ AckLimit(a, m) \/ AckResend(a, m) \/ AckBackoff(a, m)

Service ==
    \/ SendOk \/ SvcSent \/ SendFailed \/ SvcRequeue \/ SvcMark \/ SvcGiveUp
    \/ SvcDelete \/ SvcBackoff \/ SvcReport

Stack == \E tx \in net : AnswerLost(tx) \/ \E ok \in BOOLEAN : Answer(tx, ok)

Time == \/ \E r \in Recipient : AlarmExpires(r) \/ TimerFires(r)
        \/ \E m \in Msg : RowDue(m) \/ MsgAges(m) \/ RowStale(m)

User == \E m \in Msg : RemoveMsg(m) \/ RemoveRow(m)

Next == Sender \/ Worker \/ Service \/ Stack \/ Login \/ Time \/ User \/ Crash

Spec == Init /\ [][Next]_vars

\* The worker finishes the task it is in.
WorkerStep ==
    \/ CheckEnd \/ Mark \/ Transmit \/ WkDelete \/ WkBackoff \/ DbCheckEnd
    \/ \E m \in Msg : CheckRead(m)

\* The stack answers the transaction the row waits for.
Answered(m) ==
    \E tx \in net, ok \in BOOLEAN :
        /\ tx.m = m /\ row[m].processed /\ row[m].ct = tx.ct
        /\ Answer(tx, ok)

\* How many times a message is out of the queue at once.
Flights(m) ==
      (IF wk.m = m /\ wk.pc \notin {"report", "arm"} THEN 1 ELSE 0)
    + (IF svc.m = m /\ svc.pc \notin {"sent", "report", "arm"} THEN 1 ELSE 0)
    + Cardinality({i \in DOMAIN sends : sends[i].m = m})
    + Cardinality({tx \in net : tx.m = m})
    + Cardinality({ack \in acks : ack.tx.m = m})

Fairness ==
    \* Keep-alives and connectivity come back for ever, and bring both checks.
    /\ []<><<CheckBegin>>_vars
    /\ []<><<DbCheckBegin("dbCheck")>>_vars
    \* Every task of a serial queue is executed.
    /\ WF_vars(WorkerStep)
    /\ []<>(acks = {})
    /\ WF_vars(Service)
    \* Threads run, the stack answers some transactions, time passes.
    /\ \A m \in Msg :
        /\ WF_vars(Stamp(m) \/ Enqueue(m))
        /\ SF_vars(Answered(m))
        /\ WF_vars(RowDue(m)) /\ WF_vars(MsgAges(m)) /\ WF_vars(RowStale(m))
    /\ \A r \in Recipient : WF_vars(AlarmExpires(r))
    \* From some time on, what is under way is done before a database check
    \* finds it 5 minutes old.
    /\ <>[][DbCheckEnd => \A m \in Msg :
                Flights(m) > 0 => row'[m].processed = row[m].processed]_vars

FairSpec == Spec /\ Fairness

-----------------------------------------------------------------------------
(* Properties.                                                              *)

Tx == [m: Msg, ct: Nat, k: 1..MaxCopies]

\* Every variable stays in its type.
TypeOK ==
    /\ sipMsg \in [Msg -> SipTypes]
    /\ queue \subseteq Msg
    /\ row \in [Msg -> Row]
    /\ stamp \in [Msg -> Nat]
    /\ sub \in [Msg -> {"new", "saved", "stamped", "done", "lost"}]
    /\ wk \in [pc: {"idle", "scan", "mark", "transmit", "delete", "report",
                    "arm", "dbCheck", "start"},
               m: Msg \union {0}, ct: Nat, ids: SUBSET Msg, back: {"idle", "scan"}]
    /\ wk.pc \in {"mark", "transmit", "delete", "report", "arm"} => wk.m \in Msg
    /\ svc \in [pc: {"idle", "sent", "requeue", "mark", "giveUp", "delete", "backoff",
                     "report", "arm"},
                m: Msg \union {0}]
    /\ svc.pc # "idle" => svc.m \in Msg
    /\ sends \in Seq([m: Msg, ct: Nat])
    /\ acks \subseteq [tx: Tx, ok: BOOLEAN]
    /\ alarm \in [Recipient -> {"none", "armed", "expired"}]
    /\ removing \subseteq Msg
    /\ session \in {"registered", "start", "in"}
    /\ net \subseteq Tx
    /\ aged \subseteq Msg
    /\ crashes \in 0..MaxCrashes
    /\ accepted \subseteq Msg
    /\ contended \subseteq Msg
    /\ late \subseteq Msg

\* Messages on their way out: picked by the worker, waiting for the service
\* queue, or given to the stack and not yet answered.
OnTheWay ==
    {m \in Msg : \/ wk.pc \in {"mark", "transmit"} /\ wk.m = m
                 \/ \E i \in DOMAIN sends : sends[i].m = m
                 \/ \E tx \in net : tx.m = m}

\* "Text messages are processed one by one, to preserve ordering": no message is
\* on its way while an older one to the same recipient is in the queue, unless
\* the older row was inserted after the younger one.
HeadOfLine ==
    \A m \in OnTheWay, o \in queue :
        SameDest(m, o) /\ stamp[o] < stamp[m] => o \in late

\* The table and its four kinds of threads implement the outbox: a row leaves
\* only as the oldest of its recipient, whatever the live cursor of the scan, the
\* other threads, late answers and crashes do in between.
Box == INSTANCE Outbox WITH Item <- Msg, box <- queue, rank <- stamp, out <- OnTheWay
ImplementsOutbox == Box!Spec

\* A message is shown as sent only if the stack reported a positive answer for
\* that very message, whatever answers come late, twice or to an old ciphertext.
SentMeansAccepted == \A m \in Msg : sipMsg[m] = "sent" => m \in accepted

\* A message that no database check took back and that was not picked while the
\* service queue had still to report it is out at most once, and its row
\* is marked as processed until the one who has it gives it back.
SingleFlight ==
    \A m \in Msg \ contended :
        /\ Flights(m) <= 1
        /\ Flights(m) = 1 /\ m \in queue =>
              row[m].processed \/ (wk.m = m /\ wk.pc = "mark")

\* A stored message that still waits has its row, so something will send it,
\* unless two threads worked on it at once.
NothingLost ==
    \A m \in Msg \ contended :
        sub[m] = "done" /\ sipMsg[m] \in Waiting => m \in queue

\* The verdict on a message whose row is gone is final: no late report of
\* another thread turns a sent or failed message into a waiting one.
VerdictIsFinal ==
    [][\A m \in Msg \ contended :
          sub[m] = "done" /\ m \notin queue /\ sipMsg[m] \in {"sent", "failed"}
          => sipMsg'[m] \in {sipMsg[m], "none"}]_vars

\* Both threads that back off a message leave it for the future: nothing
\* reaches the service queue for a message that waits for its resend time.
BackoffHolds ==
    \A m \in queue \ contended :
        row[m].resend # "past" => ~\E i \in DOMAIN sends : sends[i].m = m

\* Whatever is lost, refused, deleted or killed, a message the user sent is
\* reported sent or failed in the end, or is deleted, and no row of it is left to
\* block its recipient.
EveryMessageSettles ==
    \A m \in Msg :
        sub[m] # "new" ~> sipMsg[m] \in {"sent", "failed", "none"} /\ m \notin queue
=============================================================================
