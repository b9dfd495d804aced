------------------------- MODULE MessageQueueProofs -------------------------
(* Theorems about MessageQueue for every number of messages, recipients and *)
(* crashes and every limit.                                                 *)
EXTENDS MessageQueue, FiniteSetTheorems, SequenceTheorems, TLAPS

-----------------------------------------------------------------------------
(* What is known of the tries of a message: one more than the limit only    *)
(* while the service queue is giving it up, or after a crash interrupted it. *)

GivingUp(m) == svc.m = m /\ svc.pc \in {"mark", "giveUp", "delete"}

AttemptsBounded ==
    \A m \in Msg :
        /\ row[m].attempts <= MaxStackResends + crashes + 1
        /\ ~GivingUp(m) => row[m].attempts <= MaxStackResends + crashes

TypeInv == TypeOK /\ AttemptsBounded

\* Writing a well-typed row, or deleting one, keeps the table well-typed.
LEMMA PutType ==
    ASSUME row \in [Msg -> Row], NEW m, NEW r \in Row, Put(m, r)
    PROVE  row' \in [Msg -> Row]
BY DEF Put

LEMMA DeleteType ==
    ASSUME row \in [Msg -> Row], queue \subseteq Msg, NEW m, Delete(m)
    PROVE  row' \in [Msg -> Row] /\ queue' \subseteq Msg
<1>1. NewRow \in Row
    BY ThresholdAssumption DEF Row, NewRow
<1> QED BY <1>1 DEF Delete

LEMMA ReportType ==
    ASSUME sipMsg \in [Msg -> SipTypes], NEW m, NEW type \in SipTypes, ReportTo(m, type)
    PROVE  sipMsg' \in [Msg -> SipTypes]
BY DEF ReportTo

\* A row written with the attempts it had keeps the bound.
LEMMA PutBounded ==
    ASSUME TypeInv, NEW m \in Msg, NEW r \in Row, Put(m, r),
           r.attempts = row[m].attempts, UNCHANGED <<svc, crashes>>
    PROVE  AttemptsBounded'
<1>1. crashes \in Nat /\ MaxStackResends \in Nat
    BY ThresholdAssumption DEF TypeInv, TypeOK
<1>2. \A o \in Msg : row[o].attempts \in Nat
    BY ThresholdAssumption DEF TypeInv, TypeOK, Row
<1>3. \A o \in Msg : row'[o].attempts = row[o].attempts
    BY DEF Put, TypeInv, TypeOK
<1> QED BY <1>1, <1>2, <1>3 DEF TypeInv, AttemptsBounded, GivingUp

\* Setting the processed column keeps the table typed and the attempts bounded.
LEMMA ProcessedTyped ==
    ASSUME TypeInv, NEW m \in Msg, NEW b \in BOOLEAN,
           Put(m, [row[m] EXCEPT !.processed = b]), UNCHANGED <<svc, crashes>>
    PROVE  row' \in [Msg -> Row] /\ AttemptsBounded'
<1> DEFINE r == [row[m] EXCEPT !.processed = b]
<1>1. row[m] \in Row
    BY DEF TypeInv, TypeOK
<1>2. r \in Row /\ r.attempts = row[m].attempts
    BY <1>1 DEF Row
<1> QED BY <1>2, PutType, PutBounded DEF TypeInv, TypeOK

LEMMA InitTyped == Init => TypeInv
<1> SUFFICES ASSUME Init PROVE TypeInv
    OBVIOUS
<1>1. NewRow \in Row /\ NewRow.attempts = 0
    BY ThresholdAssumption DEF NewRow, Row
<1>2. TypeOK
    BY <1>1, ThresholdAssumption DEF Init, TypeOK, SipTypes, WkIdle, SvcIdle
<1>3. AttemptsBounded
    BY <1>1, ThresholdAssumption DEF Init, AttemptsBounded
<1> QED BY <1>2, <1>3 DEF TypeInv

\* The sender threads.
LEMMA SenderTyped == ASSUME TypeInv, Sender PROVE TypeInv'
<1>1. ASSUME NEW m \in Msg, Save(m) PROVE TypeInv'
    BY <1>1 DEF Save, TypeInv, TypeOK, AttemptsBounded, GivingUp, SipTypes, Waiting, world, history
<1>2. ASSUME NEW m \in Msg, Stamp(m) PROVE TypeInv'
    <2>1. Cardinality({o \in Msg : stamp[o] > 0}) \in Nat
        <3>1. IsFiniteSet(Msg)
            BY NMsgAssumption, FS_Interval, SMT DEF Msg
        <3> QED BY <3>1, FS_Subset, FS_CardinalityType
    <2> QED BY <1>2, <2>1 DEF Stamp, TypeInv, TypeOK, AttemptsBounded, GivingUp, world, history
<1>3. ASSUME NEW m \in Msg, Enqueue(m) PROVE TypeInv'
    BY <1>3 DEF Enqueue, TypeInv, TypeOK, AttemptsBounded, GivingUp, world
<1> QED BY <1>1, <1>2, <1>3 DEF Sender

\* The scan of the worker.
LEMMA ScanTyped ==
    ASSUME TypeInv,
           CheckBegin \/ CheckEnd \/ Mark \/ Reject \/ Transmit \/ WkDelete \/ WkBackoff
               \/ \E m \in Msg : CheckRead(m)
    PROVE  TypeInv'
<1>1. CASE CheckBegin
    BY <1>1 DEF CheckBegin, Heads, WkScan, WkIdle, TypeInv, TypeOK, AttemptsBounded, GivingUp, db, world, history
<1>2. CASE CheckEnd
    BY <1>2 DEF CheckEnd, WkIdle, TypeInv, TypeOK, AttemptsBounded, GivingUp, db, world, history
<1>3. CASE Mark
    <2>1. wk.m \in Msg
        BY <1>3 DEF Mark, TypeInv, TypeOK
    <2>2. row' \in [Msg -> Row] /\ AttemptsBounded'
        BY <1>3, <2>1, ProcessedTyped DEF Mark, world
    <2>3. sipMsg' \in [Msg -> SipTypes]
        BY <1>3, <2>1, ReportType DEF Mark, TypeInv, TypeOK, SipTypes, Waiting
    <2> QED BY <1>3, <2>1, <2>2, <2>3 DEF Mark, TypeInv, TypeOK, world, history
<1>4. CASE Reject
    <2>1. wk.m \in Msg
        BY <1>4 DEF Reject, TypeInv, TypeOK
    <2>2. row' \in [Msg -> Row] /\ AttemptsBounded'
        BY <1>4, <2>1, ProcessedTyped DEF Reject, world
    <2>3. sipMsg' \in [Msg -> SipTypes]
        BY <1>4, <2>1, ReportType DEF Reject, TypeInv, TypeOK, SipTypes, Waiting
    <2> QED BY <1>4, <2>1, <2>2, <2>3 DEF Reject, TypeInv, TypeOK, world, history
<1>5. CASE Transmit
    <2> DEFINE ct == IF wk.ct # 0 THEN wk.ct ELSE NewCt(wk.m)
    <2>1. wk.m \in Msg /\ row[wk.m] \in Row
        BY <1>5 DEF Transmit, TypeInv, TypeOK
    <2>2. ct \in Nat
        BY <2>1 DEF TypeInv, TypeOK, NewCt, Row
    <2>3. [row[wk.m] EXCEPT !.ct = ct] \in Row
        BY <2>1, <2>2 DEF Row
    <2>4. row' \in [Msg -> Row]
        BY <1>5, <2>3, PutType DEF Transmit, TypeInv, TypeOK
    <2>5. AttemptsBounded'
        <3>1. CASE wk.ct # 0
            BY <1>5, <3>1 DEF Transmit, TypeInv, AttemptsBounded, GivingUp, world
        <3>2. CASE wk.ct = 0
            <4>1. Put(wk.m, [row[wk.m] EXCEPT !.ct = ct])
                BY <1>5, <3>2 DEF Transmit
            <4>2. [row[wk.m] EXCEPT !.ct = ct].attempts = row[wk.m].attempts
                BY <2>1, <2>2 DEF Row
            <4> QED BY <1>5, <2>1, <2>3, <4>1, <4>2, PutBounded DEF Transmit, world
        <3> QED BY <3>1, <3>2
    <2>6. sends' \in Seq([m: Msg, ct: Nat])
        BY <1>5, <2>1, <2>2 DEF Transmit, TypeInv, TypeOK
    <2> QED BY <1>5, <2>4, <2>5, <2>6 DEF Transmit, WkScan, WkIdle, TypeInv, TypeOK, world, history
<1>6. CASE WkDelete
    <2>1. row' \in [Msg -> Row] /\ queue' \subseteq Msg
        BY <1>6, DeleteType DEF WkDelete, TypeInv, TypeOK
    <2>2. AttemptsBounded'
        <3>1. row \in [Msg -> Row] /\ crashes \in Nat /\ UNCHANGED <<svc, crashes>>
            BY <1>6 DEF WkDelete, TypeInv, TypeOK, world
        <3>2. row' = [row EXCEPT ![wk.m] = NewRow]
            BY <1>6 DEF WkDelete, Delete
        <3>3. \A m \in Msg : row'[m].attempts = row[m].attempts \/ row'[m].attempts = 0
            BY <3>1, <3>2 DEF NewRow
        <3> QED BY <3>1, <3>3, ThresholdAssumption DEF TypeInv, AttemptsBounded, GivingUp
    <2> QED BY <1>6, <2>1, <2>2 DEF WkDelete, WkBack, WkScan, WkIdle, TypeInv, TypeOK, world, history
<1>7. CASE WkBackoff
    <2>1. wk.m \in Msg /\ Dest[wk.m] \in Recipient
        BY <1>7, DestAssumption DEF WkBackoff, TypeInv, TypeOK
    <2>2. sipMsg' \in [Msg -> SipTypes]
        BY <1>7, ReportType DEF WkBackoff, BackoffReport, TypeInv, TypeOK, SipTypes, Waiting
    <2> QED BY <1>7, <2>1, <2>2 DEF WkBackoff, BackoffReport, WkIdle, TypeInv, TypeOK, AttemptsBounded, GivingUp, world, history
<1>8. ASSUME NEW m \in Msg, CheckRead(m) PROVE TypeInv'
    <2>1. UNCHANGED <<row, svc, crashes>>
        BY <1>8 DEF CheckRead, db, world
    <2>2. AttemptsBounded'
        BY <2>1 DEF TypeInv, AttemptsBounded, GivingUp
    <2>3. row[m].ct \in Nat
        BY DEF TypeInv, TypeOK, Row
    <2>4. wk' \in [pc: {"scan", "mark"}, m: {0, m}, ct: Nat, ids: SUBSET Msg, back: {"scan"}]
          /\ (wk'.pc = "mark" => wk'.m = m)
        BY <1>8, <2>3 DEF CheckRead, WkScan, WkIdle, TypeInv, TypeOK
    <2>5. contended' \subseteq Msg
        BY <1>8 DEF CheckRead, TypeInv, TypeOK
    <2>6. UNCHANGED <<sipMsg, queue, row, stamp, sub, svc, sends, acks, alarm, removing,
                      session, net, aged, crashes, accepted, late>>
        BY <1>8 DEF CheckRead, db, world
    <2> QED BY <2>2, <2>4, <2>5, <2>6 DEF TypeInv, TypeOK
<1> QED BY <1>1, <1>2, <1>3, <1>4, <1>5, <1>6, <1>7, <1>8

\* The database checks of the worker.
LEMMA DbCheckTyped ==
    ASSUME TypeInv,
           DbCheckEnd \/ \E task \in {"dbCheck", "start"} : DbCheckBegin(task)
    PROVE  TypeInv'
<1>1. ASSUME NEW task \in {"dbCheck", "start"}, DbCheckBegin(task) PROVE TypeInv'
    <2>1. UNCHANGED <<row, svc, crashes>>
        BY <1>1 DEF DbCheckBegin, db, world
    <2>2. AttemptsBounded'
        BY <2>1 DEF TypeInv, AttemptsBounded, GivingUp
    <2> QED BY <1>1, <2>2 DEF DbCheckBegin, WkIdle, TypeInv, TypeOK, db, world, history
<1>2. CASE DbCheckEnd
    <2>1. sipMsg' \in [Msg -> SipTypes]
        BY <1>2 DEF DbCheckEnd, TypeInv, TypeOK, SipTypes
    <2>2. \A m \in Msg : /\ row'[m] \in Row
                         /\ row'[m].attempts = row[m].attempts
        <3> SUFFICES ASSUME NEW m \in Msg
                     PROVE  row'[m] \in Row /\ row'[m].attempts = row[m].attempts
            OBVIOUS
        <3>1. row[m] \in Row
            BY DEF TypeInv, TypeOK
        <3>2. row'[m] = row[m] \/ row'[m] = [row[m] EXCEPT !.processed = FALSE]
            BY <1>2 DEF DbCheckEnd
        <3> QED BY <3>1, <3>2 DEF Row
    <2>3. row' \in [Msg -> Row]
        BY <1>2, <2>2 DEF DbCheckEnd
    <2>4. AttemptsBounded'
        BY <1>2, <2>2 DEF DbCheckEnd, TypeInv, AttemptsBounded, GivingUp, world
    <2> QED BY <1>2, <2>1, <2>3, <2>4 DEF DbCheckEnd, WkIdle, TypeInv, TypeOK, world
<1> QED BY <1>1, <1>2

\* Backing off keeps the table typed and the attempts bounded.
LEMMA BackedOffTyped ==
    ASSUME TypeInv, NEW m \in Msg, Put(m, BackedOff(m)), UNCHANGED <<svc, crashes>>
    PROVE  row' \in [Msg -> Row] /\ AttemptsBounded'
<1>1. row[m] \in Row
    BY DEF TypeInv, TypeOK
<1>2. PICK resend \in {"past", "alarm"} :
        BackedOff(m) = [row[m] EXCEPT !.processed = FALSE, !.stale = FALSE,
                                      !.resend = resend]
    BY DEF BackedOff
<1>3. BackedOff(m) \in Row /\ BackedOff(m).attempts = row[m].attempts
    BY <1>1, <1>2 DEF Row
<1> QED BY <1>3, PutType, PutBounded DEF TypeInv, TypeOK

\* The answers the worker handles.
LEMMA AckTyped ==
    ASSUME TypeInv, NEW a \in acks, NEW m \in Msg,
           \/ AckPositive(a, m) \/ AckLimit(a, m)
           \/ AckResend(a, m) \/ AckBackoff(a, m)
    PROVE  TypeInv'
<1>1. CASE AckPositive(a, m)
    <2>1. sipMsg' \in [Msg -> SipTypes]
        BY <1>1, ReportType DEF AckPositive, TypeInv, TypeOK, SipTypes
    <2> QED BY <1>1, <2>1 DEF AckPositive, AckRead, WkIdle, TypeInv, TypeOK, AttemptsBounded, GivingUp, world, history
<1>2. CASE AckLimit(a, m)
    <2>1. sipMsg' \in [Msg -> SipTypes]
        BY <1>2, ReportType DEF AckLimit, TypeInv, TypeOK, SipTypes
    <2> QED BY <1>2, <2>1 DEF AckLimit, AckRead, WkIdle, TypeInv, TypeOK, AttemptsBounded, GivingUp, world, history
<1>3. CASE AckResend(a, m)
    <2>1. row' \in [Msg -> Row] /\ AttemptsBounded'
        BY <1>3, ProcessedTyped DEF AckResend, world
    <2> QED BY <1>3, <2>1 DEF AckResend, AckRead, TypeInv, TypeOK, world, history
<1>4. CASE AckBackoff(a, m)
    <2>1. row' \in [Msg -> Row] /\ AttemptsBounded'
        BY <1>4, BackedOffTyped DEF AckBackoff, world
    <2> QED BY <1>4, <2>1 DEF AckBackoff, AfterBackoff, AckRead, WkIdle, TypeInv, TypeOK, world, history
<1> QED BY <1>1, <1>2, <1>3, <1>4

LEMMA WorkerTyped == ASSUME TypeInv, Worker PROVE TypeInv'
<1>1. ASSUME NEW a \in acks, AckUnknown(a) PROVE TypeInv'
    BY <1>1 DEF AckUnknown, AckRead, TypeInv, TypeOK, AttemptsBounded, GivingUp, db, world, history
<1> QED BY <1>1, ScanTyped, DbCheckTyped, AckTyped DEF Worker

\* The service queue.
LEMMA ServiceTyped == ASSUME TypeInv, Service PROVE TypeInv'
<1> USE ThresholdAssumption
<1>1. CASE SendOk
    <2> DEFINE s == Head(sends)
    <2>1. s \in [m: Msg, ct: Nat] /\ sends' \in Seq([m: Msg, ct: Nat])
        BY <1>1, HeadTailProperties DEF SendOk, SvcReady, TypeInv, TypeOK
    <2>2. net' \subseteq Tx
        <3>1. PICK k \in 1..MaxCopies : net' = net \union {[m |-> s.m, ct |-> s.ct, k |-> k]}
            BY <1>1 DEF SendOk, FreeCopies
        <3>2. [m |-> s.m, ct |-> s.ct, k |-> k] \in Tx
            BY <2>1 DEF Tx
        <3> QED BY <3>1, <3>2 DEF TypeInv, TypeOK
    <2>3. svc' = [m |-> s.m, pc |-> "sent"] /\ svc.pc = "idle"
        BY <1>1 DEF SendOk, SvcReady
    <2>4. UNCHANGED <<sipMsg, queue, row, stamp, sub, wk, acks, alarm, removing, session,
                      aged, crashes, accepted, contended, late>>
        BY <1>1 DEF SendOk, db, history
    <2>5. AttemptsBounded'
        BY <2>3, <2>4 DEF TypeInv, AttemptsBounded, GivingUp
    <2> QED BY <2>1, <2>2, <2>3, <2>4, <2>5 DEF TypeInv, TypeOK
<1>2. CASE SvcSent
    <2> DEFINE n == AtMost(row[svc.m].sends + 1, MaxResends)
               r == [row[svc.m] EXCEPT !.sends = n, !.stale = FALSE]
    <2>1. svc.m \in Msg /\ row[svc.m] \in Row
        BY <1>2 DEF SvcSent, TypeInv, TypeOK
    <2>2. n \in 0..MaxResends
        BY <2>1 DEF Row, AtMost
    <2>3. r \in Row /\ r.attempts = row[svc.m].attempts
        BY <2>1, <2>2 DEF Row
    <2>4. Put(svc.m, r) /\ svc' = SvcIdle /\ svc.pc = "sent"
        BY <1>2 DEF SvcSent
    <2>5. UNCHANGED <<sipMsg, queue, stamp, sub, wk, sends, acks, alarm, removing, session,
                      net, aged, crashes, accepted, contended, late>>
        BY <1>2 DEF SvcSent, world, history
    <2>6. row' \in [Msg -> Row]
        BY <2>1, <2>3, <2>4, PutType DEF TypeInv, TypeOK
    <2>7. \A o \in Msg : row'[o].attempts = row[o].attempts
        BY <2>1, <2>3, <2>4 DEF Put, TypeInv, TypeOK
    <2>8. AttemptsBounded'
        BY <2>4, <2>5, <2>7 DEF TypeInv, AttemptsBounded, GivingUp, SvcIdle
    <2> QED BY <2>4, <2>5, <2>6, <2>8 DEF SvcIdle, TypeInv, TypeOK
<1>3. CASE SendFailed
    <2> DEFINE m == Head(sends).m
               n == row[m].attempts + 1
    <2>1. m \in Msg /\ svc.pc = "idle" /\ sends' \in Seq([m: Msg, ct: Nat])
        <3>1. Head(sends) \in [m: Msg, ct: Nat] /\ Tail(sends) \in Seq([m: Msg, ct: Nat])
            BY <1>3, HeadTailProperties DEF SendFailed, SvcReady, TypeInv, TypeOK
        <3> QED BY <1>3, <3>1 DEF SendFailed, SvcReady
    <2>2. CASE m \notin queue
        <3>1. UNCHANGED <<row, svc, crashes>>
            BY <1>3, <2>2 DEF SendFailed, world
        <3>2. AttemptsBounded'
            BY <3>1 DEF TypeInv, AttemptsBounded, GivingUp
        <3> QED BY <1>3, <2>1, <3>1, <3>2 DEF SendFailed, TypeInv, TypeOK, world, history
    <2>3. CASE m \in queue
        <3>1. /\ row' = [row EXCEPT ![m] = [row[m] EXCEPT !.attempts = n]]
              /\ svc' = [m |-> m, pc |-> IF n < StackThreshold THEN "requeue"
                                         ELSE IF n <= MaxStackResends THEN "backoff"
                                         ELSE IF row[m].processed THEN "giveUp"
                                         ELSE "mark"]
            BY <1>3, <2>3 DEF SendFailed, Put
        <3>2. /\ row[m] \in Row /\ crashes \in Nat /\ crashes <= MaxCrashes
            BY <2>1 DEF TypeInv, TypeOK
        <3>3. n \in Nat /\ n <= MaxStackResends + crashes + 1
            BY <2>1, <3>2 DEF TypeInv, AttemptsBounded, GivingUp, Row
        <3>4. svc' \in [pc: {"requeue", "mark", "giveUp", "backoff"}, m: {m}]
            BY <3>1
        <3>5. svc'.pc \in {"requeue", "backoff"} => n <= MaxStackResends
            BY <3>1, <3>3
        <3>6. /\ [row[m] EXCEPT !.attempts = n] \in Row
              /\ [row[m] EXCEPT !.attempts = n].attempts = n
            BY <3>2, <3>3 DEF Row
        <3>7. row' \in [Msg -> Row]
            BY <2>1, <3>1, <3>6 DEF TypeInv, TypeOK
        <3>8. UNCHANGED crashes
            BY <1>3 DEF SendFailed, world
        <3>9. \A o \in Msg : row'[o].attempts = IF o = m THEN n ELSE row[o].attempts
            BY <2>1, <3>1, <3>6 DEF TypeInv, TypeOK
        <3>10. AttemptsBounded'
            BY <2>1, <3>2, <3>8, <3>9, <3>3, <3>4, <3>5 DEF TypeInv, AttemptsBounded, GivingUp
        <3>11. UNCHANGED <<sipMsg, queue, stamp, sub, wk, acks, alarm, removing, session,
                           net, aged, crashes, accepted, contended, late>>
            BY <1>3 DEF SendFailed, world, history
        <3> QED BY <2>1, <3>7, <3>10, <3>4, <3>11 DEF TypeInv, TypeOK
    <2> QED BY <2>2, <2>3
<1>4. CASE SvcRequeue
    <2> DEFINE r == [row[svc.m] EXCEPT !.processed = FALSE, !.ct = 0, !.stale = FALSE]
    <2>1. svc.m \in Msg /\ row[svc.m] \in Row
        BY <1>4 DEF SvcRequeue, TypeInv, TypeOK
    <2>2. r \in Row /\ r.attempts = row[svc.m].attempts
        BY <2>1 DEF Row
    <2>3. row' \in [Msg -> Row]
        BY <1>4, <2>1, <2>2, PutType DEF SvcRequeue, TypeInv, TypeOK
    <2>4. AttemptsBounded'
        <3>1. \A o \in Msg : row'[o].attempts = row[o].attempts
            BY <1>4, <2>1, <2>2 DEF SvcRequeue, Put, TypeInv, TypeOK
        <3> QED BY <1>4, <3>1 DEF SvcRequeue, SvcIdle, TypeInv, TypeOK, AttemptsBounded, GivingUp, world
    <2> QED BY <1>4, <2>3, <2>4 DEF SvcRequeue, SvcIdle, TypeInv, TypeOK, world, history
<1>5. CASE SvcMark
    <2>1. svc.m \in Msg /\ row[svc.m] \in Row
        BY <1>5 DEF SvcMark, TypeInv, TypeOK
    <2>2. [row[svc.m] EXCEPT !.processed = TRUE] \in Row
        BY <2>1 DEF Row
    <2>3. row' \in [Msg -> Row]
        BY <1>5, <2>2, PutType DEF SvcMark, TypeInv, TypeOK
    <2>4. \A o \in Msg : row'[o].attempts = row[o].attempts
        BY <1>5, <2>1 DEF SvcMark, Put, TypeInv, TypeOK, Row
    <2> QED BY <1>5, <2>3, <2>4 DEF SvcMark, TypeInv, TypeOK, AttemptsBounded, GivingUp, world, history
<1>6. CASE SvcGiveUp
    <2>1. sipMsg' \in [Msg -> SipTypes]
        BY <1>6, ReportType DEF SvcGiveUp, TypeInv, TypeOK, SipTypes
    <2> QED BY <1>6, <2>1 DEF SvcGiveUp, TypeInv, TypeOK, AttemptsBounded, GivingUp, world, history
<1>7. CASE SvcDelete
    <2>1. svc.m \in Msg /\ row' \in [Msg -> Row] /\ queue' \subseteq Msg
        BY <1>7, DeleteType DEF SvcDelete, TypeInv, TypeOK
    <2>2. \A o \in Msg : row'[o].attempts = IF o = svc.m THEN 0 ELSE row[o].attempts
        BY <1>7, <2>1 DEF SvcDelete, Delete, NewRow, TypeInv, TypeOK
    <2>3. crashes \in Nat
        BY DEF TypeInv, TypeOK
    <2>4. AttemptsBounded'
        BY <1>7, <2>1, <2>2, <2>3 DEF SvcDelete, SvcIdle, TypeInv, AttemptsBounded, GivingUp, world
    <2> QED BY <1>7, <2>1, <2>4 DEF SvcDelete, SvcIdle, TypeInv, TypeOK, world, history
<1>8. CASE SvcBackoff
    <2>1. svc.m \in Msg /\ row[svc.m] \in Row
        BY <1>8 DEF SvcBackoff, TypeInv, TypeOK
    <2>2. PICK resend \in {"past", "alarm"} :
            BackedOff(svc.m) = [row[svc.m] EXCEPT !.processed = FALSE, !.stale = FALSE,
                                                  !.resend = resend]
        BY DEF BackedOff
    <2>3. BackedOff(svc.m) \in Row /\ BackedOff(svc.m).attempts = row[svc.m].attempts
        BY <2>1, <2>2 DEF Row
    <2>4. row' \in [Msg -> Row]
        BY <1>8, <2>3, PutType DEF SvcBackoff, TypeInv, TypeOK
    <2>5. \A o \in Msg : row'[o].attempts = row[o].attempts
        BY <1>8, <2>1, <2>3 DEF SvcBackoff, Put, TypeInv, TypeOK
    <2> QED BY <1>8, <2>1, <2>4, <2>5 DEF SvcBackoff, AfterBackoff, SvcIdle, TypeInv, TypeOK, AttemptsBounded, GivingUp, world, history
<1>9. CASE SvcReport
    <2>1. svc.m \in Msg /\ Dest[svc.m] \in Recipient
        BY <1>9, DestAssumption DEF SvcReport, TypeInv, TypeOK
    <2>2. sipMsg' \in [Msg -> SipTypes]
        BY <1>9, ReportType DEF SvcReport, BackoffReport, TypeInv, TypeOK, SipTypes, Waiting
    <2> QED BY <1>9, <2>1, <2>2 DEF SvcReport, BackoffReport, SvcIdle, TypeInv, TypeOK, AttemptsBounded, GivingUp, world, history
<1> QED BY <1>1, <1>2, <1>3, <1>4, <1>5, <1>6, <1>7, <1>8, <1>9 DEF Service

\* The stack, the login, time, the user and the termination of the process.
LEMMA RestTyped ==
    ASSUME TypeInv, Stack \/ Login \/ Time \/ User \/ Crash
    PROVE  TypeInv'
<1>1. CASE Stack
    <2>1. ASSUME NEW tx \in net, AnswerLost(tx) PROVE TypeInv'
        BY <2>1 DEF AnswerLost, TypeInv, TypeOK, AttemptsBounded, GivingUp, db, proc, history
    <2>2. ASSUME NEW tx \in net, NEW ok \in BOOLEAN, Answer(tx, ok) PROVE TypeInv'
        <3>1. tx \in Tx /\ tx.m \in Msg
            BY DEF TypeInv, TypeOK, Tx
        <3>2. acks' \subseteq [tx: Tx, ok: BOOLEAN] /\ accepted' \subseteq Msg
            BY <2>2, <3>1 DEF Answer, TypeInv, TypeOK
        <3> QED BY <2>2, <3>2 DEF Answer, TypeInv, TypeOK, AttemptsBounded, GivingUp, db
    <2> QED BY <1>1, <2>1, <2>2 DEF Stack
<1>2. CASE Login
    BY <1>2 DEF Login, TypeInv, TypeOK, AttemptsBounded, GivingUp, db, world, history
<1>3. CASE Time
    <2>1. ASSUME NEW r \in Recipient, AlarmExpires(r) PROVE TypeInv'
        <3>1. \A m \in Msg : /\ row'[m] \in Row
                             /\ row'[m].attempts = row[m].attempts
            <4> SUFFICES ASSUME NEW m \in Msg
                         PROVE  row'[m] \in Row /\ row'[m].attempts = row[m].attempts
                OBVIOUS
            <4>1. row[m] \in Row
                BY DEF TypeInv, TypeOK
            <4>2. row'[m] = row[m] \/ row'[m] = [row[m] EXCEPT !.resend = "past"]
                BY <2>1 DEF AlarmExpires
            <4> QED BY <4>1, <4>2 DEF Row
        <3>2. row' \in [Msg -> Row]
            BY <2>1, <3>1 DEF AlarmExpires
        <3> QED BY <2>1, <3>1, <3>2 DEF AlarmExpires, TypeInv, TypeOK, AttemptsBounded, GivingUp, world, history
    <2>2. ASSUME NEW r \in Recipient, TimerFires(r) PROVE TypeInv'
        BY <2>2 DEF TimerFires, TypeInv, TypeOK, AttemptsBounded, GivingUp, db, world, history
    <2>3. ASSUME NEW m \in Msg, RowDue(m) \/ RowStale(m) PROVE TypeInv'
        <3>1. \A o \in Msg : /\ row'[o] \in Row
                             /\ row'[o].attempts = row[o].attempts
            <4> SUFFICES ASSUME NEW o \in Msg
                         PROVE  row'[o] \in Row /\ row'[o].attempts = row[o].attempts
                OBVIOUS
            <4>1. row[o] \in Row
                BY DEF TypeInv, TypeOK
            <4>2. \/ row'[o] = row[o]
                  \/ row'[o] = [row[o] EXCEPT !.resend = "past"]
                  \/ row'[o] = [row[o] EXCEPT !.stale = TRUE]
                <5>1. CASE RowDue(m)
                    BY <5>1 DEF RowDue, TypeInv, TypeOK
                <5>2. CASE RowStale(m)
                    BY <5>2 DEF RowStale, TypeInv, TypeOK
                <5> QED BY <2>3, <5>1, <5>2
            <4> QED BY <4>1, <4>2 DEF Row
        <3>2. row' \in [Msg -> Row]
            BY <2>3, <3>1 DEF RowDue, RowStale, TypeInv, TypeOK
        <3> QED BY <2>3, <3>1, <3>2 DEF RowDue, RowStale, TypeInv, TypeOK, AttemptsBounded, GivingUp, proc, world, history
    <2>4. ASSUME NEW m \in Msg, MsgAges(m) PROVE TypeInv'
        BY <2>4 DEF MsgAges, TypeInv, TypeOK, AttemptsBounded, GivingUp, db, proc, history
    <2> QED BY <1>3, <2>1, <2>2, <2>3, <2>4 DEF Time
<1>4. CASE User
    <2>1. ASSUME NEW m \in Msg, RemoveMsg(m) PROVE TypeInv'
        BY <2>1 DEF RemoveMsg, SipTypes, TypeInv, TypeOK, AttemptsBounded, GivingUp, world, history
    <2>2. ASSUME NEW m \in Msg, RemoveRow(m) PROVE TypeInv'
        <3>1. row' \in [Msg -> Row] /\ queue' \subseteq Msg
            BY <2>2, DeleteType DEF RemoveRow, TypeInv, TypeOK
        <3>2. \A o \in Msg : row'[o].attempts = IF o = m THEN 0 ELSE row[o].attempts
            BY <2>2 DEF RemoveRow, Delete, NewRow, TypeInv, TypeOK
        <3>3. crashes \in Nat /\ MaxStackResends \in Nat
            BY ThresholdAssumption DEF TypeInv, TypeOK
        <3>4. UNCHANGED <<svc, crashes>>
            BY <2>2 DEF RemoveRow, world
        <3>5. AttemptsBounded'
            BY <3>2, <3>3, <3>4 DEF TypeInv, AttemptsBounded, GivingUp
        <3> QED BY <2>2, <3>1, <3>5 DEF RemoveRow, TypeInv, TypeOK, world, history
    <2> QED BY <1>4, <2>1, <2>2 DEF User
<1>5. CASE Crash
    <2>1. \A m \in Msg : row'[m] \in Row /\ row'[m].attempts = row[m].attempts
        <3> SUFFICES ASSUME NEW m \in Msg
                     PROVE  row'[m] \in Row /\ row'[m].attempts = row[m].attempts
            OBVIOUS
        <3>1. row[m] \in Row
            BY DEF TypeInv, TypeOK
        <3>2. row'[m] = row[m] \/ row'[m] = [row[m] EXCEPT !.resend = "future"]
            BY <1>5 DEF Crash
        <3> QED BY <3>1, <3>2 DEF Row
    <2>2. row' \in [Msg -> Row]
        BY <1>5, <2>1 DEF Crash
    <2>3. crashes' \in 0..MaxCrashes
        BY <1>5, ThresholdAssumption DEF Crash, TypeInv, TypeOK
    <2>4. AttemptsBounded'
        <3>1. crashes' = crashes + 1 /\ crashes \in Nat /\ MaxStackResends \in Nat
            BY <1>5, ThresholdAssumption DEF Crash, TypeInv, TypeOK
        <3>2. \A m \in Msg : row[m].attempts \in Nat
            BY DEF TypeInv, TypeOK, Row
        <3> QED BY <2>1, <3>1, <3>2 DEF TypeInv, AttemptsBounded
    <2>5. sub' \in [Msg -> {"new", "saved", "stamped", "done", "lost"}]
        BY <1>5 DEF Crash, TypeInv, TypeOK
    <2> QED BY <1>5, <2>2, <2>3, <2>4, <2>5 DEF Crash, WkIdle, SvcIdle, TypeInv, TypeOK
<1> QED BY <1>1, <1>2, <1>3, <1>4, <1>5

LEMMA StepTyped == TypeInv /\ [Next]_vars => TypeInv'
<1> SUFFICES ASSUME TypeInv, [Next]_vars PROVE TypeInv'
    OBVIOUS
<1>1. CASE UNCHANGED vars
    BY <1>1 DEF vars, TypeInv, TypeOK, AttemptsBounded, GivingUp, SipTypes
<1>2. CASE Next
    BY <1>2, SenderTyped, WorkerTyped, ServiceTyped, RestTyped DEF Next
<1> QED BY <1>1, <1>2

THEOREM Typed == Spec => []TypeInv
BY InitTyped, StepTyped, PTL DEF Spec

\* Every variable stays in its type, and no message is tried more often than
\* the limit allows, however threads, answers and crashes interleave.
THEOREM TypeCorrect == Spec => []TypeOK
<1>1. TypeInv => TypeOK
    BY DEF TypeInv
<1> QED BY <1>1, Typed, PTL
-----------------------------------------------------------------------------
(* The table implements the outbox.  Messages stored or under way were all  *)
(* inserted before, so a message that is stamped or inserted is neither.    *)

Inserted == {m \in Msg : sub[m] = "done"}

Placed == queue \subseteq Inserted /\ OnTheWay \subseteq Inserted

BoxStep == [Box!Next]_(Box!vars)

LEMMA InitPlaced == Init => Placed /\ Box!Init
BY DEF Init, Placed, OnTheWay, WkIdle, Box!Init

\* A step that inserts and picks nothing only settles messages.
LEMMA Frame ==
    ASSUME Placed, UNCHANGED <<stamp, late>>,
           queue' \subseteq queue, OnTheWay' \subseteq OnTheWay, Inserted \subseteq Inserted'
    PROVE  Placed' /\ BoxStep
<1>1. Placed'
    BY DEF Placed
<1>2. Box!Settle
    BY DEF Box!Settle
<1> QED BY <1>1, <1>2 DEF BoxStep, Box!Next

\* A message that waits for the service queue.
WithService(m) == \E i \in DOMAIN sends : sends[i].m = m

LEMMA SenderImplements == ASSUME TypeInv, Placed, Sender PROVE Placed' /\ BoxStep
<1>1. ASSUME NEW m \in Msg, Save(m) PROVE Placed' /\ BoxStep
    BY <1>1, Frame DEF Save, OnTheWay, Inserted, TypeInv, TypeOK, world, history
<1>2. ASSUME NEW m \in Msg, Stamp(m) PROVE Placed' /\ BoxStep
    <2>1. m \notin queue /\ m \notin OnTheWay
        BY <1>2 DEF Stamp, Placed, Inserted
    <2>2. UNCHANGED <<queue, OnTheWay, late>> /\ Inserted' = Inserted
        BY <1>2 DEF Stamp, OnTheWay, Inserted, TypeInv, TypeOK, world, history
    <2>3. stamp'[m] \in Nat /\ stamp' = [stamp EXCEPT ![m] = stamp'[m]]
        <3>1. stamp' \in [Msg -> Nat]
            BY <1>2, SenderTyped DEF Sender, TypeInv, TypeOK
        <3>2. PICK n : stamp' = [stamp EXCEPT ![m] = n]
            BY <1>2 DEF Stamp
        <3> QED BY <3>1, <3>2 DEF TypeInv, TypeOK
    <2>4. Box!Date(m)
        BY <2>1, <2>2, <2>3 DEF Box!Date
    <2> QED BY <2>2, <2>4 DEF Placed, BoxStep, Box!Next
<1>3. ASSUME NEW m \in Msg, Enqueue(m) PROVE Placed' /\ BoxStep
    <2>1. queue' = queue \union {m} /\ UNCHANGED <<OnTheWay, stamp>>
        BY <1>3 DEF Enqueue, OnTheWay, world
    <2>2. Inserted' = Inserted \union {m}
        BY <1>3 DEF Enqueue, Inserted, TypeInv, TypeOK
    <2>3. m \notin queue /\ m \notin OnTheWay
        BY <1>3 DEF Enqueue, Placed, Inserted
    <2>4. late' \in {late, late \union {m}}
        BY <1>3 DEF Enqueue
    <2>5. ASSUME NEW o \in OnTheWay, Box!Before(m, o)
          PROVE  m \in late'
        <3>1. o \in Msg /\ sub[o] = "done" /\ SameDest(m, o)
            BY <2>5 DEF Placed, Inserted, SameDest, Box!Before
        <3>2. stamp[o] > stamp[m]
            BY <2>5, <3>1 DEF TypeInv, TypeOK, Box!Before
        <3> QED BY <1>3, <3>1, <3>2 DEF Enqueue
    <2>6. Box!Submit(m)
        BY <2>1, <2>3, <2>4, <2>5 DEF Box!Submit
    <2> QED BY <2>1, <2>2, <2>6 DEF Placed, BoxStep, Box!Next
<1> QED BY <1>1, <1>2, <1>3 DEF Sender

LEMMA WorkerImplements == ASSUME TypeInv, Placed, Worker PROVE Placed' /\ BoxStep
<1>1. CASE \E m \in Msg : CheckRead(m)
    <2>1. PICK m \in Msg : CheckRead(m)
        BY <1>1
    <2>2. UNCHANGED <<queue, stamp, sub, late, sends, net>> /\ wk.pc = "scan"
        BY <2>1 DEF CheckRead, db, world
    <2>3. m \in queue /\ \A o \in queue : SameDest(m, o) => ~(stamp[m] > stamp[o])
        BY <2>1 DEF CheckRead, Heads
    <2>4. wk'.pc \in {"mark", "transmit"} => wk'.m = m
        BY <2>1 DEF CheckRead, WkScan, WkIdle
    <2>5. OnTheWay' \subseteq OnTheWay \union {m}
        BY <2>2, <2>4 DEF OnTheWay
    <2>6. ~\E o \in queue : Box!Before(o, m)
        BY <2>3 DEF Box!Before, SameDest, TypeInv, TypeOK
    <2>7. Placed' /\ Inserted' = Inserted
        BY <2>2, <2>3, <2>5 DEF Placed, Inserted
    <2>8. CASE m \in OnTheWay'
        <3>1. OnTheWay' = OnTheWay \union {m} \/ OnTheWay' \subseteq OnTheWay
            BY <2>2, <2>5, <2>8 DEF OnTheWay
        <3>2. Box!Leave(m) \/ Box!Settle
            BY <2>2, <2>3, <2>6, <3>1 DEF Box!Leave, Box!Settle
        <3> QED BY <2>7, <3>2 DEF BoxStep, Box!Next
    <2>9. CASE m \notin OnTheWay'
        BY <2>2, <2>5, <2>7, <2>9, Frame
    <2> QED BY <2>8, <2>9
<1>2. CASE Mark
    BY <1>2, Frame DEF Mark, OnTheWay, Inserted, world, history, TypeInv, TypeOK
<1>3. CASE Transmit
    <2>1. UNCHANGED <<queue, stamp, sub, late, net>> /\ wk.m \in Msg /\ wk.pc = "transmit"
        BY <1>3 DEF Transmit, TypeInv, TypeOK, world, history
    <2>2. wk'.pc = "scan"
        BY <1>3 DEF Transmit, WkScan, WkIdle
    <2>3. PICK ct : sends' = Append(sends, [m |-> wk.m, ct |-> ct])
        BY <1>3 DEF Transmit
    <2>4. \A o : WithService(o)' => WithService(o) \/ o = wk.m
        BY <2>3, AppendProperties DEF WithService, TypeInv, TypeOK
    <2>5. OnTheWay' \subseteq OnTheWay
        BY <2>1, <2>2, <2>4 DEF OnTheWay, WithService
    <2> QED BY <2>1, <2>5, Frame DEF Inserted
<1>4. CASE \/ CheckBegin \/ CheckEnd \/ Reject \/ WkDelete \/ WkBackoff \/ DbCheckEnd
           \/ \E task \in {"dbCheck", "start"} : DbCheckBegin(task)
           \/ \E a \in acks : AckUnknown(a)
           \/ \E a \in acks, m \in Msg :
                 AckPositive(a, m) \/ AckLimit(a, m) \/ AckResend(a, m) \/ AckBackoff(a, m)
    <2>1. UNCHANGED <<stamp, sub, late, sends, net>> /\ queue' \subseteq queue
        BY <1>4 DEF CheckBegin, CheckEnd, Reject, WkDelete, WkBackoff, DbCheckEnd, DbCheckBegin,
                    AckUnknown, AckPositive, AckLimit, AckResend, AckBackoff, Delete, db, world,
                    history
    <2>2. wk'.pc \notin {"mark", "transmit"}
        <3>1. wk \in [pc: {"idle", "scan", "mark", "transmit", "delete", "report", "arm",
                           "dbCheck", "start"},
                      m: Msg \union {0}, ct: Nat, ids: SUBSET Msg, back: {"idle", "scan"}]
            BY DEF TypeInv, TypeOK
        <3>2. CASE CheckBegin
            BY <3>2 DEF CheckBegin, WkScan, WkIdle
        <3>3. CASE CheckEnd
            BY <3>3 DEF CheckEnd, WkIdle
        <3>4. CASE DbCheckEnd
            <4>1. wk' = WkIdle
                BY <3>4 DEF DbCheckEnd
            <4> QED BY <4>1 DEF WkIdle
        <3>5. CASE Reject
            BY <3>1, <3>5 DEF Reject
        <3>6. CASE WkDelete
            BY <3>6 DEF WkDelete, WkBack, WkScan, WkIdle
        <3>7. CASE \E a \in acks : AckUnknown(a)
            BY <3>7 DEF AckUnknown, AckRead
        <3>8. CASE WkBackoff
            BY <3>8 DEF WkBackoff, WkBack, WkScan, WkIdle
        <3>9. CASE \E task \in {"dbCheck", "start"} : DbCheckBegin(task)
            BY <3>9 DEF DbCheckBegin, WkIdle
        <3>10. ASSUME NEW a \in acks, NEW m \in Msg,
                     AckPositive(a, m) \/ AckLimit(a, m) \/ AckResend(a, m) \/ AckBackoff(a, m)
              PROVE  wk'.pc \notin {"mark", "transmit"}
            <4>1. CASE AckPositive(a, m) \/ AckLimit(a, m)
                BY <4>1 DEF AckPositive, AckLimit, WkIdle
            <4>2. CASE AckResend(a, m)
                BY <4>2 DEF AckResend, AckRead
            <4>3. CASE AckBackoff(a, m)
                BY <4>3 DEF AckBackoff, AfterBackoff, WkIdle
            <4> QED BY <3>10, <4>1, <4>2, <4>3
        <3> QED BY <1>4, <3>2, <3>6, <3>8, <3>9, <3>10, <3>5, <3>3, <3>4, <3>7
    <2>3. OnTheWay' \subseteq OnTheWay
        BY <2>1, <2>2 DEF OnTheWay
    <2> QED BY <2>1, <2>3, Frame DEF Inserted
<1> QED BY <1>1, <1>2, <1>3, <1>4 DEF Worker

LEMMA ServiceImplements == ASSUME TypeInv, Placed, Service PROVE Placed' /\ BoxStep
<1>1. UNCHANGED <<stamp, sub, late, wk>> /\ queue' \subseteq queue
    BY DEF Service, SendOk, SvcSent, SendFailed, SvcRequeue, SvcMark, SvcGiveUp, SvcDelete, SvcBackoff,
           SvcReport, Delete, db, world, history
<1>2. CASE SendOk \/ SendFailed
    <2>1. sends # <<>> /\ sends' = Tail(sends) /\ sends \in Seq([m: Msg, ct: Nat])
        BY <1>2 DEF SendOk, SendFailed, SvcReady, TypeInv, TypeOK
    <2>2. \A o : WithService(o)' => WithService(o)
        BY <2>1, HeadTailProperties DEF WithService
    <2>3. WithService(Head(sends).m)
        BY <2>1 DEF WithService
    <2>4. \A tx \in net' : tx \in net \/ tx.m = Head(sends).m
        <3>1. CASE SendOk
            <4>1. PICK k : net' = net \union {[m |-> Head(sends).m, ct |-> Head(sends).ct, k |-> k]}
                BY <3>1 DEF SendOk
            <4> QED BY <4>1
        <3>2. CASE SendFailed
            BY <3>2 DEF SendFailed, world
        <3> QED BY <1>2, <3>1, <3>2
    <2>5. OnTheWay' \subseteq OnTheWay
        BY <1>1, <2>2, <2>3, <2>4 DEF OnTheWay, WithService
    <2> QED BY <1>1, <2>5, Frame DEF Inserted
<1>3. CASE SvcSent \/ SvcRequeue \/ SvcMark \/ SvcGiveUp \/ SvcDelete \/ SvcBackoff \/ SvcReport
    <2>1. UNCHANGED <<sends, net>>
        BY <1>3 DEF SvcSent, SvcRequeue, SvcMark, SvcGiveUp, SvcDelete, SvcBackoff, SvcReport,
                  world
    <2>2. OnTheWay' \subseteq OnTheWay
        BY <1>1, <2>1 DEF OnTheWay
    <2> QED BY <1>1, <2>2, Frame DEF Inserted
<1> QED BY <1>2, <1>3 DEF Service

LEMMA RestImplements ==
    ASSUME TypeInv, Placed, Stack \/ Login \/ Time \/ User \/ Crash
    PROVE  Placed' /\ BoxStep
<1>1. CASE Stack
    <2>1. UNCHANGED <<queue, stamp, sub, late, wk, sends>> /\ net' \subseteq net
        BY <1>1 DEF Stack, Answer, AnswerLost, db, proc, history
    <2> QED BY <2>1, Frame DEF OnTheWay, Inserted
<1>2. CASE Login \/ Time \/ User
    <2>1. UNCHANGED <<stamp, sub, late, wk, sends, net>> /\ queue' \subseteq queue
        BY <1>2 DEF Login, Time, User, AlarmExpires, TimerFires, RowDue, MsgAges, RowStale,
                    RemoveMsg, RemoveRow, Delete, db, proc, world, history
    <2> QED BY <2>1, Frame DEF OnTheWay, Inserted
<1>3. CASE Crash
    <2>1. UNCHANGED <<queue, stamp, late>>
        BY <1>3 DEF Crash
    <2>2. Inserted \subseteq Inserted'
        BY <1>3 DEF Crash, Inserted
    <2>3. OnTheWay' = {}
        BY <1>3 DEF Crash, OnTheWay, WkIdle
    <2> QED BY <2>1, <2>2, <2>3, Frame
<1> QED BY <1>1, <1>2, <1>3

LEMMA StepImplements == TypeInv /\ Placed /\ [Next]_vars => Placed' /\ BoxStep
<1> SUFFICES ASSUME TypeInv, Placed, [Next]_vars PROVE Placed' /\ BoxStep
    OBVIOUS
<1>1. CASE UNCHANGED vars
    BY <1>1, Frame DEF vars, OnTheWay, Inserted
<1>2. CASE Next
    BY <1>2, SenderImplements, WorkerImplements, ServiceImplements, RestImplements DEF Next
<1> QED BY <1>1, <1>2

\* The detailed queue implements the outbox for any number of messages and
\* contacts, however the threads, the answers of the stack, the user, time and
\* crashes interleave: whatever is picked is the oldest row of its recipient.
THEOREM Implements == Spec => ImplementsOutbox
<1>1. Spec => []Placed
    BY InitPlaced, StepImplements, Typed, PTL DEF Spec
<1>2. TypeInv /\ Placed /\ [Next]_vars => [Box!Next]_(Box!vars)
    BY StepImplements DEF BoxStep
<1> QED BY <1>1, <1>2, InitPlaced, Typed, PTL DEF Spec, ImplementsOutbox, Box!Spec

\* Text messages to a contact leave in the order of their time stamps, because
\* they leave the outbox in that order; the exception are rows inserted after
\* one with a later stamp.
THEOREM Ordered == Spec => []HeadOfLine
<1>1. Box!Spec => []Box!InOrder
    BY Box!LeaveInOrder
<1>2. Box!InOrder => HeadOfLine
    BY DEF Box!InOrder, Box!Before, HeadOfLine, SameDest
<1> QED BY <1>1, <1>2, Implements, PTL DEF ImplementsOutbox
-----------------------------------------------------------------------------
(* A verdict belongs to its message: an answer that waits for the worker    *)
(* was counted when it came, and its row is the row of its message.         *)

AnswersCounted == \A a \in acks : a.ok => a.tx.m \in accepted

Honest == AnswersCounted /\ SentMeansAccepted

\* A step that hands the worker nothing and reports nothing but waiting or
\* failure.
LEMMA Unaccepted ==
    ASSUME Honest, acks' \subseteq acks, accepted' = accepted,
           \A m \in Msg : sipMsg'[m] = sipMsg[m] \/ sipMsg'[m] # "sent"
    PROVE  Honest'
BY DEF Honest, AnswersCounted, SentMeansAccepted

LEMMA ReportHonest ==
    ASSUME TypeInv, NEW m, NEW type, ReportTo(m, type)
    PROVE  \A o \in Msg : sipMsg'[o] = sipMsg[o] \/ (o = m /\ sipMsg'[o] = type)
BY DEF ReportTo, TypeInv, TypeOK

LEMMA StepHonest == TypeInv /\ Honest /\ [Next]_vars => Honest'
<1> SUFFICES ASSUME TypeInv, Honest, [Next]_vars PROVE Honest'
    OBVIOUS
<1>1. CASE Sender
    BY <1>1, Unaccepted DEF Sender, Save, Stamp, Enqueue, TypeInv, TypeOK, world, history
<1>2. CASE \/ CheckBegin \/ CheckEnd \/ Transmit \/ WkDelete
           \/ \E m \in Msg : CheckRead(m)
           \/ \E task \in {"dbCheck", "start"} : DbCheckBegin(task)
           \/ \E a \in acks : AckUnknown(a)
           \/ \E a \in acks, m \in Msg : AckResend(a, m) \/ AckBackoff(a, m)
    <2>1. sipMsg' = sipMsg /\ accepted' = accepted /\ acks' \subseteq acks
        BY <1>2 DEF CheckBegin, CheckEnd, Transmit, WkDelete, CheckRead, DbCheckBegin,
                    AckUnknown, AckResend, AckBackoff, AckRead, db, history
    <2> QED BY <2>1, Unaccepted
<1>3. CASE Mark \/ Reject \/ WkBackoff \/ SvcGiveUp \/ SvcReport
    <2>1. accepted' = accepted /\ acks' = acks
        BY <1>3 DEF Mark, Reject, WkBackoff, SvcGiveUp, SvcReport, history
    <2>2. \/ ReportTo(wk.m, "pending") \/ ReportTo(wk.m, "failed")
          \/ ReportTo(wk.m, "backoff") \/ ReportTo(svc.m, "failed")
          \/ ReportTo(svc.m, "backoff")
        BY <1>3 DEF Mark, Reject, WkBackoff, SvcGiveUp, SvcReport, BackoffReport
    <2> QED BY <2>1, <2>2, ReportHonest, Unaccepted
<1>4. CASE DbCheckEnd
    BY <1>4, Unaccepted DEF DbCheckEnd
<1>5. ASSUME NEW a \in acks, NEW m \in Msg, AckPositive(a, m) PROVE Honest'
    <2>1. m \in accepted
        BY <1>5 DEF AckPositive, AckRow, Honest, AnswersCounted
    <2>2. accepted' = accepted /\ acks' \subseteq acks
        BY <1>5 DEF AckPositive, AckRead, history
    <2>3. ReportTo(m, "sent")
        BY <1>5 DEF AckPositive
    <2> QED BY <2>1, <2>2, <2>3, ReportHonest DEF Honest, AnswersCounted, SentMeansAccepted
<1>6. ASSUME NEW a \in acks, NEW m \in Msg, AckLimit(a, m) PROVE Honest'
    <2>1. accepted' = accepted /\ acks' \subseteq acks /\ ReportTo(m, "failed")
        BY <1>6 DEF AckLimit, AckRead, history
    <2> QED BY <2>1, ReportHonest, Unaccepted
<1>7. CASE SendOk \/ SvcSent \/ SendFailed \/ SvcRequeue \/ SvcMark \/ SvcDelete \/ SvcBackoff
    <2>1. sipMsg' = sipMsg /\ accepted' = accepted /\ acks' = acks
        BY <1>7 DEF SendOk, SvcSent, SendFailed, SvcRequeue, SvcMark, SvcDelete, SvcBackoff,
                    db, history
    <2> QED BY <2>1, Unaccepted
<1>8. ASSUME NEW tx \in net, NEW ok \in BOOLEAN, Answer(tx, ok) PROVE Honest'
    <2>1. /\ sipMsg' = sipMsg /\ acks' = acks \union {[tx |-> tx, ok |-> ok]}
          /\ accepted \subseteq accepted' /\ (ok => tx.m \in accepted')
        BY <1>8 DEF Answer, db
    <2> QED BY <2>1 DEF Honest, AnswersCounted, SentMeansAccepted
<1>9. CASE \/ \E tx \in net : AnswerLost(tx)
           \/ Login \/ Time \/ Crash \/ \E m \in Msg : RemoveRow(m) \/ UNCHANGED vars
    <2>1. sipMsg' = sipMsg /\ accepted' = accepted /\ acks' \subseteq acks
        BY <1>9 DEF AnswerLost, Login, Time, AlarmExpires, TimerFires, RowDue, MsgAges,
                    RowStale, Crash, RemoveRow, vars, db, proc, history
    <2> QED BY <2>1, Unaccepted
<1>10. ASSUME NEW m \in Msg, RemoveMsg(m) PROVE Honest'
    BY <1>10, Unaccepted DEF RemoveMsg, TypeInv, TypeOK, history
<1>11. CASE UNCHANGED vars
    BY <1>11, Unaccepted DEF vars
<1> QED BY <1>1, <1>2, <1>3, <1>4, <1>5, <1>6, <1>7, <1>8, <1>9, <1>10, <1>11
        DEF Next, Worker, Service, Stack, User

\* A message is shown as sent only if the stack answered for it positively.
THEOREM SentIsAccepted == Spec => []SentMeansAccepted
<1>1. Init => Honest
    BY DEF Init, Honest, AnswersCounted, SentMeansAccepted
<1>2. Honest => SentMeansAccepted
    BY DEF Honest
<1> QED BY <1>1, <1>2, StepHonest, Typed, PTL DEF Spec

-----------------------------------------------------------------------------
(* A message is in one place at a time: with the worker, with the service    *)
(* queue, in a block that waits for the service queue, with the stack, or in *)
(* an answer that waits for the worker.  What the application shows and when *)
(* it is sent again rest on this, for every instance of MessageQueue.        *)

WkAt(m) == wk.m = m
SvcAt(m) == svc.m = m /\ svc.pc # "sent"
SendsOf(m) == {i \in DOMAIN sends : sends[i].m = m}
NetOf(m) == {tx \in net : tx.m = m}
AcksOf(m) == {a \in acks : a.tx.m = m}

Out(m) ==
    WkAt(m) \/ SvcAt(m) \/ SendsOf(m) # {} \/ NetOf(m) # {} \/ AcksOf(m) # {}

AtMostOne(S) == \A x, y \in S : x = y

\* One place, and there once.
Alone(m) ==
    /\ AtMostOne(SendsOf(m)) /\ AtMostOne(NetOf(m)) /\ AtMostOne(AcksOf(m))
    /\ WkAt(m) => ~SvcAt(m) /\ SendsOf(m) = {} /\ NetOf(m) = {} /\ AcksOf(m) = {}
    /\ SvcAt(m) => SendsOf(m) = {} /\ NetOf(m) = {} /\ AcksOf(m) = {}
    /\ SendsOf(m) # {} => NetOf(m) = {} /\ AcksOf(m) = {}
    /\ NetOf(m) # {} => AcksOf(m) = {}

\* Its row is processed until it is given back, or not marked yet.
Marked(m) ==
    Out(m) /\ m \in queue =>
        \/ row[m].processed
        \/ WkAt(m) /\ wk.pc \in {"mark", "report", "arm"}
        \/ SvcAt(m) /\ svc.pc \in {"report", "arm"}

\* It was due when it was picked.
Timely(m) ==
    m \in queue /\ ((WkAt(m) /\ wk.pc \in {"mark", "transmit"}) \/ SendsOf(m) # {}) =>
        row[m].resend = "past"

\* Without a row it waits no more; who holds it then knows of no verdict, and
\* who deletes the row has reported one.
Reported(m) ==
    /\ m \notin queue /\ sub[m] = "done" => sipMsg[m] \notin Waiting
    /\ m \notin queue /\ ((WkAt(m) /\ wk.pc # "delete") \/ (SvcAt(m) /\ svc.pc # "delete")) =>
           sipMsg[m] = "none"
    /\ (WkAt(m) /\ wk.pc = "delete") \/ (SvcAt(m) /\ svc.pc = "delete") =>
           sipMsg[m] \notin Waiting

Good(m) == Alone(m) /\ Marked(m) /\ Timely(m) /\ Reported(m)
AllGood == \A m \in Msg \ contended : Good(m)

\* Of every message, contended or not.
Resting ==
    /\ wk.pc \in {"idle", "scan", "dbCheck", "start"} => wk.m = 0
    /\ svc.pc = "idle" => svc.m = 0
OutDone == \A m \in Msg : Out(m) => sub[m] = "done"
Records ==
    /\ \A m \in removing : sipMsg[m] = "none" /\ sub[m] # "new"
    /\ \A m \in Msg : sub[m] = "new" => sipMsg[m] = "none"

Basic == TypeInv /\ Placed /\ Resting /\ OutDone /\ Records

-----------------------------------------------------------------------------
(* Steps that leave a message where it is.                                  *)

Stays(m) ==
    /\ WkAt(m)' => WkAt(m) /\ wk'.pc = wk.pc
    /\ SvcAt(m)' => SvcAt(m) /\ svc'.pc = svc.pc
    /\ AtMostOne(SendsOf(m)) => AtMostOne(SendsOf(m))'
    /\ SendsOf(m) = {} => SendsOf(m)' = {}
    /\ NetOf(m)' \subseteq NetOf(m) /\ AcksOf(m)' \subseteq AcksOf(m)

RowStays(m) ==
    /\ m \in queue' <=> m \in queue
    /\ sub'[m] = "done" <=> sub[m] = "done"
    /\ m \in queue => /\ row'[m].processed = row[m].processed
                      /\ row'[m].resend \in {row[m].resend, "past"}
    /\ \/ sipMsg'[m] \in {sipMsg[m], "none"}
       \/ sipMsg[m] \in Waiting /\ sipMsg'[m] = "failed"

LEMMA StaysGood ==
    ASSUME NEW m \in Msg, OutDone, Good(m), Stays(m), RowStays(m)
    PROVE  Good(m)'
<1>1. Out(m)' => Out(m)
    BY DEF Stays, Out
<1>2. Alone(m)'
    BY DEF Good, Alone, Stays, AtMostOne
<1>3. Marked(m)'
    BY <1>1 DEF Good, Alone, Marked, Stays, RowStays, Out
<1>4. Timely(m)'
    BY DEF Good, Timely, Stays, RowStays
<1>5. Reported(m)'
    <2>1. Out(m) => sub[m] = "done"
        BY DEF OutDone
    <2> QED BY <2>1 DEF Good, Reported, Stays, RowStays, Out, Waiting
<1> QED BY <1>2, <1>3, <1>4, <1>5 DEF Good

\* The message at the head of the service queue leaves it.
LEMMA TailSends ==
    ASSUME TypeInv, sends # <<>>, sends' = Tail(sends), NEW m
    PROVE  /\ AtMostOne(SendsOf(m)) => AtMostOne(SendsOf(m))'
           /\ SendsOf(m) = {} => SendsOf(m)' = {}
           /\ m = Head(sends).m => SendsOf(m) # {}
           /\ m = Head(sends).m /\ AtMostOne(SendsOf(m)) => SendsOf(m)' = {}
<1>1. sends \in Seq([m: Msg, ct: Nat])
    BY DEF TypeInv, TypeOK
<1>2. \A i \in SendsOf(m)' : i \in Nat /\ i > 0 /\ i + 1 \in SendsOf(m)
    BY <1>1 DEF SendsOf
<1>3. m = Head(sends).m => 1 \in SendsOf(m)
    BY <1>1 DEF SendsOf
<1>4. AtMostOne(SendsOf(m)) => AtMostOne(SendsOf(m))'
    BY <1>2 DEF AtMostOne
<1> QED BY <1>2, <1>3, <1>4 DEF AtMostOne

LEMMA AppendSends ==
    ASSUME TypeInv, NEW s, sends' = Append(sends, s), NEW m
    PROVE  /\ m # s.m => SendsOf(m)' = SendsOf(m)
           /\ m = s.m /\ SendsOf(m) = {} => AtMostOne(SendsOf(m))'
<1>1. sends \in Seq([m: Msg, ct: Nat])
    BY DEF TypeInv, TypeOK
<1>2. /\ DOMAIN sends' = DOMAIN sends \union {Len(sends) + 1}
      /\ sends'[Len(sends) + 1] = s
      /\ \A i \in DOMAIN sends : sends'[i] = sends[i] /\ i # Len(sends) + 1
    BY <1>1
<1> QED BY <1>2 DEF SendsOf, AtMostOne

LEMMA PutRow ==
    ASSUME TypeInv, NEW m \in Msg, NEW r, Put(m, r), NEW o \in Msg
    PROVE  /\ o # m \/ m \notin queue => row'[o] = row[o]
           /\ m \in queue => row'[m] = r
BY DEF Put, TypeInv, TypeOK

LEMMA ReportMsg ==
    ASSUME TypeInv, NEW m \in Msg, NEW type, ReportTo(m, type), NEW o \in Msg
    PROVE  /\ o # m => sipMsg'[o] = sipMsg[o]
           /\ sipMsg'[m] = IF sipMsg[m] = "none" THEN "none" ELSE type
BY DEF ReportTo, TypeInv, TypeOK

\* What each write changes of the columns that matter here.
LEMMA PutProcessed ==
    ASSUME TypeInv, NEW m \in Msg, NEW b \in BOOLEAN,
           Put(m, [row[m] EXCEPT !.processed = b]), NEW o \in Msg
    PROVE  /\ row'[o].resend = row[o].resend
           /\ o = m /\ m \in queue => row'[o].processed = b
           /\ o # m => row'[o] = row[o]
<1>1. row[m] \in Row
    BY DEF TypeInv, TypeOK
<1>2. [row[m] EXCEPT !.processed = b].processed = b
      /\ [row[m] EXCEPT !.processed = b].resend = row[m].resend
    BY <1>1 DEF Row
<1> QED BY <1>2, PutRow

LEMMA PutOther ==
    ASSUME TypeInv, NEW m \in Msg, NEW n, NEW k,
           \/ Put(m, [row[m] EXCEPT !.ct = n])
           \/ Put(m, [row[m] EXCEPT !.sends = n, !.stale = k])
           \/ Put(m, [row[m] EXCEPT !.attempts = n]),
           NEW o \in Msg
    PROVE  row'[o].processed = row[o].processed /\ row'[o].resend = row[o].resend
<1>1. row[m] \in Row
    BY DEF TypeInv, TypeOK
<1>2. ASSUME NEW r \in {[row[m] EXCEPT !.ct = n], [row[m] EXCEPT !.sends = n, !.stale = k],
                        [row[m] EXCEPT !.attempts = n]}
      PROVE  r.processed = row[m].processed /\ r.resend = row[m].resend
    BY <1>1, <1>2 DEF Row
<1>3. PICK r \in {[row[m] EXCEPT !.ct = n], [row[m] EXCEPT !.sends = n, !.stale = k],
                  [row[m] EXCEPT !.attempts = n]} : Put(m, r)
    OBVIOUS
<1>4. row'[o] = row[o] \/ (o = m /\ row'[o] = r)
    BY <1>3, PutRow
<1>5. r.processed = row[m].processed /\ r.resend = row[m].resend
    BY <1>2
<1> QED BY <1>4, <1>5

LEMMA AtRest ==
    /\ WkIdle.m = 0 /\ WkIdle.pc = "idle"
    /\ \A ids : WkScan(ids).m = 0 /\ WkScan(ids).pc = "scan"
    /\ WkBack.m = 0 /\ WkBack.pc \in {"idle", "scan"}
<1>1. WkIdle.m = 0 /\ WkIdle.pc = "idle"
    BY DEF WkIdle
<1>2. \A ids : WkScan(ids).m = 0 /\ WkScan(ids).pc = "scan"
    BY DEF WkScan, WkIdle
<1> QED BY <1>1, <1>2 DEF WkBack

LEMMA NotZero == 0 \notin Msg
BY NMsgAssumption DEF Msg

\* A step that changes only what the worker does, and puts it to rest.
LEMMA Rests ==
    ASSUME UNCHANGED <<svc, sends, net>>, acks' \subseteq acks, wk'.m = 0, NEW m \in Msg
    PROVE  Stays(m)
BY NotZero DEF Stays, WkAt, SvcAt, SendsOf, NetOf, AcksOf

-----------------------------------------------------------------------------
(* The scan.                                                                *)

LEMMA ReadGood ==
    ASSUME Basic, AllGood, NEW m \in Msg, CheckRead(m), NEW o \in Msg \ contended'
    PROVE  Good(o)'
<1>1. UNCHANGED <<sipMsg, queue, row, sub, svc, sends, acks, net>> /\ wk.pc = "scan"
      /\ m \in queue
    BY DEF CheckRead, Heads, db, world
<1>2. o \in Msg \ contended /\ Good(o)
    BY DEF CheckRead, AllGood
<1>3. wk.m = 0
    BY <1>1 DEF Basic, Resting
<1>4. CASE o = m /\ wk'.pc = "mark"
    <2>1. wk'.m = o /\ ~row[o].processed /\ row[o].resend = "past"
        BY <1>4 DEF CheckRead, WkScan, WkIdle
    <2>2. ~SvcAt(o)
        BY <1>4, <2>1 DEF CheckRead, SvcHolds, SvcAt
    <2>3. ~Out(o)
        BY <1>1, <1>2, <1>3, <1>4, <2>1, <2>2, NotZero DEF Good, Marked, WkAt
    <2>4. ~SvcAt(o)' /\ SendsOf(o)' = {} /\ NetOf(o)' = {} /\ AcksOf(o)' = {}
        BY <1>1, <2>3 DEF Out, SvcAt, SendsOf, NetOf, AcksOf
    <2>5. Alone(o)'
        BY <2>4 DEF Alone, AtMostOne
    <2>6. Marked(o)' /\ Timely(o)'
        BY <1>1, <1>4, <2>1 DEF Marked, Timely, WkAt
    <2>7. Reported(o)'
        BY <1>1, <1>4, <2>4 DEF Reported
    <2> QED BY <2>5, <2>6, <2>7 DEF Good
<1>5. CASE o # m \/ wk'.pc # "mark"
    <2>1. wk'.m # o
        <3>1. wk'.m = 0 \/ (wk'.m = m /\ wk'.pc = "mark")
            BY DEF CheckRead, WkScan, WkIdle
        <3> QED BY <1>5, <3>1, NotZero
    <2>2. Stays(o)
        BY <1>1, <2>1 DEF Stays, WkAt, SvcAt, SendsOf, NetOf, AcksOf
    <2>3. RowStays(o)
        BY <1>1 DEF RowStays
    <2> QED BY <1>2, <2>2, <2>3, StaysGood DEF Basic
<1> QED BY <1>4, <1>5

\* The worker changes the row or the record of the message it works on.
LEMMA ScanGood ==
    ASSUME Basic, AllGood, Mark \/ Reject \/ Transmit \/ WkDelete \/ WkBackoff,
           NEW o \in Msg \ contended'
    PROVE  Good(o)'
<1> DEFINE m == wk.m
<1>1. m \in Msg /\ wk.pc \in {"mark", "transmit", "delete", "report", "arm"}
    BY DEF Mark, Reject, Transmit, WkDelete, WkBackoff, Basic, TypeInv, TypeOK
<1>2. UNCHANGED <<svc, acks, net, sub, contended>>
    BY DEF Mark, Reject, Transmit, WkDelete, WkBackoff, world, history
<1>3. Good(o) /\ TypeInv /\ OutDone
    BY <1>2 DEF AllGood, Basic
<1>4. /\ \/ wk'.m = m /\ (wk'.pc = "transmit" \/ wk'.pc = "delete")
         \/ wk'.m = 0
      /\ wk \in [pc: {"idle", "scan", "mark", "transmit", "delete", "report",
                    "arm", "dbCheck", "start"},
               m: Msg \union {0}, ct: Nat, ids: SUBSET Msg, back: {"idle", "scan"}]
    <2>1. wk \in [pc: {"idle", "scan", "mark", "transmit", "delete", "report",
                    "arm", "dbCheck", "start"},
               m: Msg \union {0}, ct: Nat, ids: SUBSET Msg, back: {"idle", "scan"}]
        BY <1>3 DEF TypeInv, TypeOK
    <2> QED BY <2>1, AtRest DEF Mark, Reject, Transmit, WkDelete, WkBackoff
<1>5. CASE o # m
    <2>1. SendsOf(o)' = SendsOf(o)
        <3>1. CASE Transmit
            <4>1. PICK ct : sends' = Append(sends, [m |-> m, ct |-> ct])
                BY <3>1 DEF Transmit
            <4> QED BY <1>3, <1>5, <4>1, AppendSends
        <3>2. CASE ~Transmit
            BY <3>2 DEF Mark, Reject, WkDelete, WkBackoff, SendsOf
        <3> QED BY <3>1, <3>2
    <2>2. Stays(o)
        BY <1>2, <1>4, <1>5, <2>1, NotZero DEF Stays, WkAt, SvcAt, NetOf, AcksOf
    <2>3. row'[o] = row[o]
        BY <1>1, <1>3, <1>5, PutRow
           DEF Mark, Reject, Transmit, WkDelete, WkBackoff, Delete, TypeInv, TypeOK
    <2>4. sipMsg'[o] = sipMsg[o]
        BY <1>1, <1>3, <1>5, ReportMsg
           DEF Mark, Reject, Transmit, WkDelete, WkBackoff, BackoffReport
    <2>5. o \in queue' <=> o \in queue
        BY <1>5 DEF Mark, Reject, Transmit, WkDelete, WkBackoff, Delete
    <2> QED BY <1>2, <1>3, <2>2, <2>3, <2>4, <2>5, StaysGood DEF RowStays
<1>6. CASE o = m
    <2>1. WkAt(o) /\ sub[o] = "done"
        BY <1>3, <1>6 DEF WkAt, OutDone, Out
    <2>2. ~SvcAt(o) /\ SendsOf(o) = {} /\ NetOf(o) = {} /\ AcksOf(o) = {}
        BY <1>3, <2>1 DEF Good, Alone
    <2>3. ~SvcAt(o)' /\ NetOf(o)' = {} /\ AcksOf(o)' = {}
        BY <1>2, <2>2 DEF SvcAt, NetOf, AcksOf
    <2>4. CASE Mark
        <3>1. wk'.m = o /\ wk'.pc = "transmit" /\ queue' = queue /\ wk.pc = "mark"
            BY <1>4, <1>6, <2>4 DEF Mark
        <3>2. SendsOf(o)' = {}
            BY <2>2, <2>4 DEF Mark, SendsOf
        <3>3. o \in queue => row'[o].processed /\ row'[o].resend = row[o].resend
            BY <1>3, <1>6, <2>4, PutProcessed DEF Mark
        <3>4. sipMsg'[o] \in {"none", "pending"} /\ (sipMsg[o] = "none" => sipMsg'[o] = "none")
            BY <1>3, <1>6, <2>4, ReportMsg DEF Mark
        <3>5. Alone(o)' /\ Marked(o)'
            BY <2>3, <3>1, <3>2, <3>3 DEF Alone, Marked, AtMostOne
        <3>6. Timely(o)'
            BY <1>3, <2>1, <3>1, <3>2, <3>3 DEF Good, Timely, WkAt
        <3>7. o \notin queue => sipMsg[o] = "none"
            BY <1>3, <2>1, <3>1 DEF Good, Reported
        <3>8. Reported(o)'
            BY <2>3, <3>1, <3>4, <3>7 DEF Reported, Waiting
        <3> QED BY <3>5, <3>6, <3>8 DEF Good
    <2>5. CASE Reject
        <3>1. wk'.m = o /\ wk'.pc = "delete" /\ queue' = queue
            BY <1>4, <1>6, <2>5 DEF Reject
        <3>2. SendsOf(o)' = {}
            BY <2>2, <2>5 DEF Reject, SendsOf
        <3>3. o \in queue => row'[o].processed
            BY <1>3, <1>6, <2>5, PutProcessed DEF Reject
        <3>4. sipMsg'[o] \in {"none", "failed"}
            BY <1>3, <1>6, <2>5, ReportMsg DEF Reject
        <3>5. Alone(o)' /\ Marked(o)' /\ Timely(o)'
            BY <2>3, <3>1, <3>2, <3>3 DEF Alone, Marked, Timely, AtMostOne
        <3>6. Reported(o)'
            BY <2>3, <3>1, <3>4 DEF Reported, Waiting
        <3> QED BY <3>5, <3>6 DEF Good
    <2>6. CASE Transmit
        <3>1. wk'.m = 0 /\ wk.pc = "transmit" /\ UNCHANGED <<queue, sipMsg>>
            BY <2>6 DEF Transmit, WkScan, WkIdle
        <3>2. AtMostOne(SendsOf(o))'
            <4>1. PICK ct : sends' = Append(sends, [m |-> o, ct |-> ct])
                BY <1>6, <2>6 DEF Transmit
            <4> QED BY <1>3, <2>2, <4>1, AppendSends
        <3>3. o \in queue => row'[o].processed = row[o].processed
                             /\ row'[o].resend = row[o].resend
            <4>1. CASE wk.ct # 0
                BY <2>6, <4>1 DEF Transmit
            <4>2. CASE wk.ct = 0
                BY <1>1, <1>3, <1>6, <2>6, <4>2, PutOther DEF Transmit
            <4> QED BY <4>1, <4>2
        <3>4. ~WkAt(o)'
            BY <3>1, NotZero DEF WkAt
        <3>5. Alone(o)'
            BY <2>3, <3>2, <3>4 DEF Alone, AtMostOne
        <3>6. Marked(o)' /\ Timely(o)'
            BY <1>3, <2>1, <2>2, <3>1, <3>3, <3>4 DEF Good, Marked, Timely, Out
        <3>7. Reported(o)'
            BY <1>2, <1>3, <2>3, <3>1, <3>4 DEF Good, Reported
        <3> QED BY <3>5, <3>6, <3>7 DEF Good
    <2>7. CASE WkDelete \/ WkBackoff
        <3>1. wk'.m = 0
            BY <2>7, AtRest DEF WkDelete, WkBackoff
        <3>2. ~Out(o)' /\ SendsOf(o)' = {} /\ ~WkAt(o)'
            BY <2>2, <2>3, <2>7, <3>1, NotZero DEF Out, WkAt, WkDelete, WkBackoff, SendsOf
        <3>3. Alone(o)' /\ Marked(o)' /\ Timely(o)'
            BY <2>3, <3>2 DEF Alone, Marked, Timely, AtMostOne
        <3>4. o \notin queue' => sipMsg'[o] \notin Waiting
            <4>1. CASE WkDelete
                BY <1>3, <1>6, <2>1, <4>1 DEF WkDelete, Good, Reported
            <4>2. CASE WkBackoff
                <5>1. o \notin queue => sipMsg[o] = "none"
                    BY <1>3, <2>1, <4>2 DEF WkBackoff, Good, Reported
                <5>2. queue' = queue /\ (sipMsg[o] = "none" => sipMsg'[o] = "none")
                    BY <1>3, <1>6, <4>2, ReportMsg DEF WkBackoff, BackoffReport
                <5> QED BY <5>1, <5>2 DEF Waiting
            <4> QED BY <2>7, <4>1, <4>2
        <3>5. Reported(o)'
            BY <2>3, <3>2, <3>4 DEF Reported
        <3> QED BY <3>3, <3>5 DEF Good
    <2> QED BY <2>4, <2>5, <2>6, <2>7
<1> QED BY <1>5, <1>6

\* The checks of the worker.
LEMMA CheckGood ==
    ASSUME Basic, AllGood,
           \/ CheckBegin \/ CheckEnd \/ DbCheckEnd
           \/ \E task \in {"dbCheck", "start"} : DbCheckBegin(task),
           NEW o \in Msg \ contended'
    PROVE  Good(o)'
<1>1. UNCHANGED <<queue, sub, svc, sends, acks, net>> /\ contended \subseteq contended'
    BY DEF CheckBegin, CheckEnd, DbCheckEnd, DbCheckBegin, db, world, history
<1>2. wk'.m = 0
    <2>1. CASE CheckBegin \/ CheckEnd \/ DbCheckEnd
        BY <2>1, AtRest DEF CheckBegin, CheckEnd, DbCheckEnd
    <2>2. CASE \E task \in {"dbCheck", "start"} : DbCheckBegin(task)
        BY <2>2 DEF DbCheckBegin, WkIdle
    <2> QED BY <2>1, <2>2
<1>3. RowStays(o)
    <2>1. CASE CheckBegin \/ CheckEnd \/ \E task \in {"dbCheck", "start"} : DbCheckBegin(task)
        BY <2>1 DEF CheckBegin, CheckEnd, DbCheckBegin, db, RowStays
    <2>2. CASE DbCheckEnd
        BY <1>1, <2>2 DEF DbCheckEnd, RowStays
    <2> QED BY <2>1, <2>2
<1>4. Good(o)
    BY <1>1 DEF AllGood
<1> QED BY <1>1, <1>2, <1>3, <1>4, Rests, StaysGood DEF Basic

-----------------------------------------------------------------------------
(* The answers.                                                             *)

\* An answer that the worker takes is the only place of its message.
LEMMA AckTaken ==
    ASSUME Basic, NEW m \in Msg, Good(m), NEW a \in acks, AckRead(a), a.tx.m = m,
           UNCHANGED <<svc, sends, net>>
    PROVE  /\ ~SvcAt(m)' /\ SendsOf(m)' = {} /\ NetOf(m)' = {} /\ AcksOf(m)' = {}
           /\ ~SvcAt(m) /\ ~WkAt(m) /\ sub[m] = "done"
<1>1. a \in AcksOf(m)
    BY DEF AcksOf
<1>2. ~WkAt(m) /\ ~SvcAt(m) /\ SendsOf(m) = {} /\ NetOf(m) = {} /\ AtMostOne(AcksOf(m))
    BY <1>1 DEF Good, Alone
<1>3. AcksOf(m)' = {}
    BY <1>1, <1>2 DEF AckRead, AcksOf, AtMostOne
<1>4. sub[m] = "done"
    BY <1>1 DEF Basic, OutDone, Out
<1> QED BY <1>2, <1>3, <1>4 DEF SvcAt, SendsOf, NetOf

LEMMA AckGood ==
    ASSUME Basic, AllGood, NEW a \in acks, NEW m \in Msg,
           AckPositive(a, m) \/ AckLimit(a, m) \/ AckResend(a, m) \/ AckBackoff(a, m),
           NEW o \in Msg \ contended'
    PROVE  Good(o)'
<1>1. /\ UNCHANGED <<svc, sends, net, queue, sub, contended>> /\ wk.pc = "idle"
      /\ acks' = acks \ {a} /\ AckRead(a)
      /\ m \in queue /\ a.tx.m = m /\ row[m].processed
    BY DEF AckPositive, AckLimit, AckResend, AckBackoff, AckRead, AckRow, world, history
<1>2. Good(o) /\ TypeInv /\ OutDone /\ wk.m = 0
    BY <1>1 DEF AllGood, Basic, Resting
<1>3. wk'.m \in {0, m}
    BY <1>2, AtRest DEF AckPositive, AckLimit, AckResend, AckBackoff, WkIdle
<1>4. CASE o # m
    <2>1. Stays(o)
        BY <1>1, <1>3, <1>4, NotZero DEF Stays, WkAt, SvcAt, SendsOf, NetOf, AcksOf
    <2>2. row'[o] = row[o]
        BY <1>2, <1>4, PutRow DEF AckPositive, AckLimit, AckResend, AckBackoff
    <2>3. sipMsg'[o] = sipMsg[o]
        BY <1>2, <1>4, ReportMsg DEF AckPositive, AckLimit, AckResend, AckBackoff
    <2> QED BY <1>1, <1>2, <2>1, <2>2, <2>3, StaysGood DEF RowStays
<1>5. CASE o = m
    <2>1. ~SvcAt(o)' /\ SendsOf(o)' = {} /\ NetOf(o)' = {} /\ AcksOf(o)' = {}
        BY <1>1, <1>2, <1>5, AckTaken
    <2>2. Alone(o)'
        BY <2>1 DEF Alone, AtMostOne
    <2>3. CASE AckPositive(a, m) \/ AckLimit(a, m)
        <3>1. wk'.pc = "delete" /\ row' = row
            BY <2>3 DEF AckPositive, AckLimit, WkIdle
        <3>2. sipMsg'[o] \in {"none", "sent", "failed"}
            BY <1>2, <1>5, <2>3, ReportMsg DEF AckPositive, AckLimit
        <3>3. Marked(o)' /\ Timely(o)'
            BY <1>1, <1>5, <2>1, <3>1 DEF Marked, Timely
        <3>4. Reported(o)'
            BY <2>1, <3>1, <3>2 DEF Reported, Waiting
        <3> QED BY <2>2, <3>3, <3>4 DEF Good
    <2>4. CASE AckResend(a, m)
        <3>1. ~WkAt(o)'
            BY <1>2, <2>4, NotZero DEF AckResend, WkAt
        <3>2. Marked(o)' /\ Timely(o)'
            BY <2>1, <3>1 DEF Marked, Timely, Out
        <3>3. Reported(o)'
            BY <1>1, <1>5, <2>1, <3>1 DEF Reported
        <3> QED BY <2>2, <3>2, <3>3 DEF Good
    <2>5. CASE AckBackoff(a, m)
        <3>1. wk'.m = o /\ wk'.pc \in {"report", "arm"}
            BY <1>5, <2>5 DEF AckBackoff, AfterBackoff, WkIdle
        <3>2. Marked(o)' /\ Timely(o)'
            BY <2>1, <3>1 DEF Marked, Timely, WkAt
        <3>3. Reported(o)'
            BY <1>1, <1>5, <2>1, <3>1 DEF Reported
        <3> QED BY <2>2, <3>2, <3>3 DEF Good
    <2> QED BY <2>3, <2>4, <2>5
<1> QED BY <1>4, <1>5

LEMMA WorkerGood ==
    ASSUME Basic, AllGood, Worker, NEW o \in Msg \ contended'
    PROVE  Good(o)'
<1>1. ASSUME NEW a \in acks, AckUnknown(a) PROVE Good(o)'
    <2>1. UNCHANGED <<sipMsg, queue, row, sub, wk, svc, sends, net, contended>>
          /\ acks' \subseteq acks
        BY <1>1 DEF AckUnknown, AckRead, db, world, history
    <2>2. Stays(o) /\ RowStays(o)
        BY <2>1 DEF Stays, RowStays, WkAt, SvcAt, SendsOf, NetOf, AcksOf
    <2>3. Good(o)
        BY <2>1 DEF AllGood
    <2> QED BY <2>2, <2>3, StaysGood DEF Basic
<1> QED BY <1>1, ReadGood, ScanGood, CheckGood, AckGood DEF Worker

-----------------------------------------------------------------------------
(* The service queue.                                                       *)

\* The stack is called for the head of the blocks.
LEMMA SendGood ==
    ASSUME Basic, AllGood, SendOk \/ SendFailed, NEW o \in Msg \ contended'
    PROVE  Good(o)'
<1> DEFINE m == Head(sends).m
<1>1. /\ UNCHANGED <<sipMsg, queue, sub, wk, acks, contended>>
      /\ sends # <<>> /\ sends' = Tail(sends) /\ svc.pc = "idle"
    BY DEF SendOk, SendFailed, SvcReady, db, world, history
<1>2. Good(o) /\ TypeInv /\ OutDone /\ svc.m = 0
    BY <1>1 DEF AllGood, Basic, Resting
<1>3. m \in Msg
    <2>1. sends \in Seq([m: Msg, ct: Nat])
        BY <1>2 DEF TypeInv, TypeOK
    <2>2. Head(sends) \in [m: Msg, ct: Nat]
        BY <1>1, <2>1, HeadTailProperties
    <2> QED BY <2>2
<1>4. /\ AtMostOne(SendsOf(o)) => AtMostOne(SendsOf(o))'
      /\ SendsOf(o) = {} => SendsOf(o)' = {}
      /\ o = m => SendsOf(o) # {} /\ (AtMostOne(SendsOf(o)) => SendsOf(o)' = {})
    BY <1>1, <1>2, TailSends
<1>5. /\ \A tx \in net' : tx \in net \/ tx.m = m
      /\ AtMostOne({tx \in net' : tx \notin net})
    <2>1. CASE SendOk
        <3>1. PICK k : net' = net \union {[m |-> m, ct |-> Head(sends).ct, k |-> k]}
            BY <2>1 DEF SendOk
        <3> QED BY <3>1 DEF AtMostOne
    <2>2. CASE SendFailed
        BY <2>2 DEF SendFailed, world, AtMostOne
    <2> QED BY <2>1, <2>2
<1>6. svc'.m \in {0, m}
    BY <1>2 DEF SendOk, SendFailed
<1>7. row'[o].processed = row[o].processed /\ row'[o].resend = row[o].resend
    <2>1. CASE SendOk \/ m \notin queue
        BY <2>1 DEF SendOk, SendFailed, db
    <2>2. CASE SendFailed /\ m \in queue
        BY <1>2, <1>3, <2>2, PutOther DEF SendFailed
    <2> QED BY <2>1, <2>2
<1>8. RowStays(o)
    BY <1>1, <1>7 DEF RowStays
<1>9. CASE o # m
    <2>1. NetOf(o)' \subseteq NetOf(o) /\ AcksOf(o)' = AcksOf(o)
        BY <1>1, <1>5, <1>9 DEF NetOf, AcksOf
    <2>2. ~SvcAt(o)' /\ (WkAt(o)' => WkAt(o) /\ wk'.pc = wk.pc)
        BY <1>1, <1>6, <1>9, NotZero DEF SvcAt, WkAt
    <2> QED BY <1>2, <1>4, <1>8, <2>1, <2>2, StaysGood DEF Stays
<1>10. CASE o = m
    <2>1. SendsOf(o) # {} /\ SendsOf(o)' = {}
        BY <1>2, <1>4, <1>10 DEF Good, Alone
    <2>2. ~WkAt(o) /\ ~SvcAt(o) /\ NetOf(o) = {} /\ AcksOf(o) = {}
        BY <1>2, <2>1 DEF Good, Alone
    <2>3. ~WkAt(o)' /\ AcksOf(o)' = {} /\ sub[o] = "done"
        BY <1>1, <1>2, <2>1, <2>2 DEF WkAt, AcksOf, OutDone, Out
    <2>4. NetOf(o)' \subseteq {tx \in net' : tx \notin net}
        BY <2>2 DEF NetOf
    <2>5. AtMostOne(NetOf(o))'
        BY <1>5, <2>4 DEF AtMostOne
    <2>6. o \in queue => row[o].processed
        BY <1>2, <2>1, <2>2 DEF Good, Marked, Out
    <2>7. Marked(o)' /\ Timely(o)'
        BY <1>1, <1>7, <2>1, <2>3, <2>6 DEF Marked, Timely
    <2>8. CASE SendOk
        <3>1. ~SvcAt(o)'
            BY <2>8 DEF SendOk, SvcAt
        <3>2. Alone(o)'
            BY <2>1, <2>3, <2>5, <3>1 DEF Alone, AtMostOne
        <3>3. Reported(o)'
            BY <1>1, <1>2, <2>3, <3>1 DEF Good, Reported
        <3> QED BY <2>7, <3>2, <3>3 DEF Good
    <2>9. CASE SendFailed
        <3>1. NetOf(o)' = {}
            BY <2>2, <2>9 DEF SendFailed, NetOf, world
        <3>2. Alone(o)'
            BY <2>1, <2>3, <3>1 DEF Alone, AtMostOne
        <3>3. SvcAt(o)' => o \in queue /\ svc'.pc # "delete"
            BY <1>2, <1>10, <2>9, <1>3, NotZero DEF SendFailed, SvcAt
        <3>4. Reported(o)'
            BY <1>1, <1>2, <2>3, <3>3 DEF Good, Reported
        <3> QED BY <2>7, <3>2, <3>4 DEF Good
    <2> QED BY <2>8, <2>9
<1> QED BY <1>9, <1>10

\* The service queue records what the stack said of the message it works on.
LEMMA SvcGood ==
    ASSUME Basic, AllGood,
           \/ SvcSent \/ SvcRequeue \/ SvcMark \/ SvcGiveUp \/ SvcDelete \/ SvcBackoff
           \/ SvcReport,
           NEW o \in Msg \ contended'
    PROVE  Good(o)'
<1> DEFINE m == svc.m
<1>1. /\ UNCHANGED <<sends, wk, acks, net, sub, contended>> /\ svc.pc # "idle" /\ m \in Msg
    BY DEF SvcSent, SvcRequeue, SvcMark, SvcGiveUp, SvcDelete, SvcBackoff, SvcReport,
           world, history, Basic, TypeInv, TypeOK
<1>2. Good(o) /\ TypeInv /\ OutDone
    BY <1>1 DEF AllGood, Basic
<1>3. WkAt(o)' = WkAt(o) /\ SendsOf(o)' = SendsOf(o) /\ NetOf(o)' = NetOf(o)
      /\ AcksOf(o)' = AcksOf(o)
    BY <1>1 DEF WkAt, SendsOf, NetOf, AcksOf
<1>4. \/ svc'.m = 0 /\ svc'.pc = "idle"
      \/ /\ svc'.m = m /\ svc.pc # "sent"
         /\ \/ SvcMark /\ svc'.pc = "giveUp"
            \/ SvcGiveUp /\ svc'.pc = "delete"
            \/ SvcBackoff /\ m \in queue /\ svc'.pc \in {"report", "arm"}
    <2>1. svc \in [pc: {"idle", "sent", "requeue", "mark", "giveUp", "delete", "backoff",
                        "report", "arm"},
                   m: Msg \union {0}]
        BY <1>2 DEF TypeInv, TypeOK
    <2> QED BY <2>1 DEF SvcSent, SvcRequeue, SvcMark, SvcGiveUp, SvcDelete, SvcBackoff,
                        SvcReport, SvcIdle, AfterBackoff
<1>5. CASE SvcSent
    <2>1. row'[o].processed = row[o].processed /\ row'[o].resend = row[o].resend
        BY <1>1, <1>2, <1>5, PutOther DEF SvcSent
    <2>2. RowStays(o)
        BY <1>1, <1>5, <2>1 DEF SvcSent, RowStays
    <2>3. ~SvcAt(o)'
        BY <1>5, NotZero DEF SvcSent, SvcIdle, SvcAt
    <2>4. Stays(o)
        BY <1>1, <1>3, <2>3 DEF Stays, WkAt
    <2> QED BY <1>2, <2>2, <2>4, StaysGood
<1>6. CASE o # m
    <2>1. ~SvcAt(o)'
        BY <1>4, <1>6, NotZero DEF SvcAt
    <2>2. Stays(o)
        BY <1>1, <1>3, <2>1 DEF Stays, WkAt
    <2>3. row'[o] = row[o]
        BY <1>1, <1>2, <1>6, PutRow
           DEF SvcSent, SvcRequeue, SvcMark, SvcGiveUp, SvcDelete, SvcBackoff, SvcReport,
               Delete, TypeInv, TypeOK
    <2>4. sipMsg'[o] = sipMsg[o]
        BY <1>1, <1>2, <1>6, ReportMsg
           DEF SvcSent, SvcRequeue, SvcMark, SvcGiveUp, SvcDelete, SvcBackoff, SvcReport,
               BackoffReport
    <2>5. o \in queue' <=> o \in queue
        BY <1>6 DEF SvcSent, SvcRequeue, SvcMark, SvcGiveUp, SvcDelete, SvcBackoff,
                    SvcReport, Delete
    <2> QED BY <1>1, <1>2, <2>2, <2>3, <2>4, <2>5, StaysGood DEF RowStays
<1>7. CASE o = m /\ ~SvcSent
    <2>1. SvcAt(o) /\ sub[o] = "done"
        BY <1>2, <1>7 DEF SvcAt, OutDone, Out, SvcSent, SvcRequeue, SvcMark, SvcGiveUp,
                          SvcDelete, SvcBackoff, SvcReport
    <2>2. ~WkAt(o)' /\ SendsOf(o)' = {} /\ NetOf(o)' = {} /\ AcksOf(o)' = {}
        BY <1>2, <1>3, <2>1 DEF Good, Alone
    <2>3. ~WkAt(o)
        BY <1>3, <2>2
    <2>4. Alone(o)' /\ Timely(o)'
        BY <2>2 DEF Alone, Timely, AtMostOne
    <2>5. o \notin queue /\ svc.pc # "delete" => sipMsg[o] = "none"
        BY <1>2, <2>1 DEF Good, Reported
    <2>6. CASE SvcMark
        <3>1. o \in queue => row'[o].processed
            BY <1>1, <1>2, <1>7, <2>6, PutProcessed DEF SvcMark
        <3>2. UNCHANGED <<sipMsg, queue>> /\ svc.pc = "mark" /\ svc'.pc = "giveUp"
            BY <1>4, <2>6 DEF SvcMark, SvcIdle
        <3>3. Marked(o)' /\ Reported(o)'
            BY <1>1, <1>2, <2>2, <2>5, <3>1, <3>2 DEF Marked, Reported, Good
        <3> QED BY <2>4, <3>3 DEF Good
    <2>7. CASE SvcGiveUp
        <3>1. sipMsg'[o] \in {"none", "failed"}
            BY <1>1, <1>2, <1>7, <2>7, ReportMsg DEF SvcGiveUp
        <3>2. UNCHANGED <<queue, row>> /\ svc.pc = "giveUp" /\ svc'.pc = "delete"
            BY <1>4, <2>7 DEF SvcGiveUp, SvcIdle
        <3>3. o \in queue => row[o].processed
            BY <1>2, <2>1, <2>3, <3>2 DEF Good, Marked, Out
        <3>4. Marked(o)' /\ Reported(o)'
            BY <2>2, <3>1, <3>2, <3>3 DEF Marked, Reported, Waiting
        <3> QED BY <2>4, <3>4 DEF Good
    <2>8. CASE SvcBackoff /\ o \in queue
        <3>1. svc'.pc \in {"report", "arm"} /\ svc'.m = o /\ queue' = queue
            BY <1>7, <2>8 DEF SvcBackoff, AfterBackoff
        <3>2. Marked(o)' /\ Reported(o)'
            BY <2>2, <2>8, <3>1 DEF Marked, Reported, SvcAt
        <3> QED BY <2>4, <3>2 DEF Good
    <2>9. CASE svc'.m = 0
        <3>1. ~SvcAt(o)' /\ ~Out(o)'
            BY <2>2, <2>9, NotZero DEF SvcAt, Out
        <3>2. o \notin queue' => sipMsg'[o] \notin Waiting
            <4>1. CASE SvcDelete
                BY <1>2, <2>1, <4>1 DEF SvcDelete, Good, Reported
            <4>2. CASE SvcReport
                <5>1. queue' = queue /\ svc.pc # "delete"
                      /\ (sipMsg[o] = "none" => sipMsg'[o] = "none")
                    BY <1>1, <1>2, <1>7, <4>2, ReportMsg DEF SvcReport, BackoffReport
                <5> QED BY <2>5, <5>1 DEF Waiting
            <4>3. CASE SvcRequeue \/ SvcBackoff
                BY <1>2, <2>1, <4>3 DEF SvcRequeue, SvcBackoff, Good, Reported
            <4>4. ~SvcMark /\ ~SvcGiveUp
                <5>1. svc.m # 0
                    BY <1>1, NotZero
                <5> QED BY <2>9, <5>1, <1>2 DEF SvcMark, SvcGiveUp, TypeInv, TypeOK
            <4> QED BY <1>7, <4>1, <4>2, <4>3, <4>4
        <3>3. Marked(o)' /\ Reported(o)'
            BY <2>2, <3>1, <3>2 DEF Marked, Reported
        <3> QED BY <2>4, <3>3 DEF Good
    <2> QED BY <1>4, <1>7, <2>6, <2>7, <2>8, <2>9
<1> QED BY <1>5, <1>6, <1>7

LEMMA ServiceGood ==
    ASSUME Basic, AllGood, Service, NEW o \in Msg \ contended'
    PROVE  Good(o)'
BY SendGood, SvcGood DEF Service

-----------------------------------------------------------------------------
(* The sender threads, the stack, the user, time and crashes.               *)

LEMMA SenderGood ==
    ASSUME Basic, AllGood, Sender, NEW o \in Msg \ contended'
    PROVE  Good(o)'
<1>1. UNCHANGED <<wk, svc, sends, acks, net, row, contended>>
    BY DEF Sender, Save, Stamp, Enqueue, world, history
<1>2. Good(o) /\ TypeInv /\ OutDone
    BY <1>1 DEF AllGood, Basic
<1>3. /\ WkAt(o)' = WkAt(o) /\ SvcAt(o)' = SvcAt(o) /\ SendsOf(o)' = SendsOf(o)
      /\ NetOf(o)' = NetOf(o) /\ AcksOf(o)' = AcksOf(o) /\ wk'.pc = wk.pc /\ svc'.pc = svc.pc
    BY <1>1 DEF WkAt, SvcAt, SendsOf, NetOf, AcksOf
<1>4. CASE UNCHANGED <<queue, sub, sipMsg>>
    BY <1>1, <1>2, <1>3, <1>4, StaysGood DEF Stays, RowStays
<1>5. ASSUME NEW m \in Msg, Save(m) \/ Stamp(m) \/ Enqueue(m) PROVE Good(o)'
    <2>1. sub[m] # "done" /\ m \notin queue
        BY <1>5 DEF Save, Stamp, Enqueue, Basic, Placed, Inserted
    <2>2. CASE o # m
        <3>1. (o \in queue' <=> o \in queue) /\ sub'[o] = sub[o] /\ sipMsg'[o] = sipMsg[o]
            BY <1>2, <1>5, <2>2 DEF Save, Stamp, Enqueue, TypeInv, TypeOK
        <3> QED BY <1>1, <1>2, <1>3, <3>1, StaysGood DEF Stays, RowStays
    <2>3. CASE o = m
        <3>1. ~Out(o)
            BY <1>2, <2>1, <2>3 DEF OutDone
        <3>2. /\ ~WkAt(o)' /\ ~SvcAt(o)' /\ SendsOf(o)' = {} /\ NetOf(o)' = {}
              /\ AcksOf(o)' = {}
            BY <1>3, <3>1 DEF Out
        <3>3. o \in queue' \/ sub'[o] # "done"
            BY <1>2, <1>5, <2>3 DEF Save, Stamp, Enqueue, TypeInv, TypeOK
        <3> QED BY <3>2, <3>3 DEF Good, Alone, Marked, Timely, Reported, Out, AtMostOne
    <2> QED BY <2>2, <2>3
<1> QED BY <1>5 DEF Sender

LEMMA StackGood ==
    ASSUME Basic, AllGood, Stack, NEW o \in Msg \ contended'
    PROVE  Good(o)'
<1>1. UNCHANGED <<sipMsg, queue, row, sub, wk, svc, sends, contended>>
    BY DEF Stack, Answer, AnswerLost, db, proc, history
<1>2. Good(o) /\ TypeInv /\ OutDone
    BY <1>1 DEF AllGood, Basic
<1>3. /\ WkAt(o)' = WkAt(o) /\ SvcAt(o)' = SvcAt(o) /\ SendsOf(o)' = SendsOf(o)
      /\ wk'.pc = wk.pc /\ svc'.pc = svc.pc
    BY <1>1 DEF WkAt, SvcAt, SendsOf
<1>4. RowStays(o)
    BY <1>1 DEF RowStays
<1>5. PICK tx \in net : AnswerLost(tx) \/ \E ok \in BOOLEAN : Answer(tx, ok)
    BY DEF Stack
<1>6. net' = net \ {tx}
    BY <1>5 DEF AnswerLost, Answer
<1>7. CASE AnswerLost(tx) \/ o # tx.m
    <2>1. NetOf(o)' \subseteq NetOf(o) /\ AcksOf(o)' \subseteq AcksOf(o)
        BY <1>5, <1>6, <1>7 DEF NetOf, AcksOf, AnswerLost, Answer, proc
    <2> QED BY <1>2, <1>3, <1>4, <2>1, StaysGood DEF Stays
<1>8. ASSUME NEW ok \in BOOLEAN, Answer(tx, ok), o = tx.m PROVE Good(o)'
    <2>1. tx \in NetOf(o)
        BY <1>8 DEF NetOf
    <2>2. /\ ~WkAt(o) /\ ~SvcAt(o) /\ SendsOf(o) = {} /\ AcksOf(o) = {}
          /\ AtMostOne(NetOf(o))
        BY <1>2, <2>1 DEF Good, Alone
    <2>3. NetOf(o)' = {}
        BY <1>6, <2>1, <2>2 DEF NetOf, AtMostOne
    <2>4. AtMostOne(AcksOf(o))'
        BY <1>8, <2>2 DEF Answer, AcksOf, AtMostOne
    <2>5. Alone(o)'
        BY <1>3, <2>2, <2>3, <2>4 DEF Alone, AtMostOne
    <2>6. o \in queue => row[o].processed
        BY <1>2, <2>1, <2>2 DEF Good, Marked, Out
    <2>7. Marked(o)' /\ Timely(o)' /\ Reported(o)'
        BY <1>1, <1>2, <1>3, <2>2, <2>6 DEF Marked, Timely, Reported, Good
    <2> QED BY <2>5, <2>7 DEF Good
<1> QED BY <1>5, <1>7, <1>8

LEMMA WorldGood ==
    ASSUME Basic, AllGood, Login \/ Time \/ User \/ UNCHANGED vars, NEW o \in Msg \ contended'
    PROVE  Good(o)'
<1>1. UNCHANGED <<sub, wk, svc, sends, acks, net, contended>>
    BY DEF Login, Time, User, AlarmExpires, TimerFires, RowDue, MsgAges, RowStale,
           RemoveMsg, RemoveRow, db, proc, world, history, vars
<1>2. Good(o) /\ TypeInv /\ OutDone
    BY <1>1 DEF AllGood, Basic
<1>3. Stays(o)
    BY <1>1 DEF Stays, WkAt, SvcAt, SendsOf, NetOf, AcksOf
<1>4. row[o] \in Row
    BY <1>2 DEF TypeInv, TypeOK
<1>5. CASE Login \/ Time \/ UNCHANGED vars
    <2>1. UNCHANGED <<queue, sipMsg>>
        BY <1>5 DEF Login, Time, AlarmExpires, TimerFires, RowDue, MsgAges, RowStale, db,
                    proc, world, history, vars
    <2>2. \/ row'[o] = row[o]
          \/ row'[o] = [row[o] EXCEPT !.resend = "past"]
          \/ row'[o] = [row[o] EXCEPT !.stale = TRUE]
        <3>1. ASSUME NEW r \in Recipient, AlarmExpires(r) \/ TimerFires(r)
              PROVE  row'[o] = row[o] \/ row'[o] = [row[o] EXCEPT !.resend = "past"]
            BY <3>1 DEF AlarmExpires, TimerFires, db
        <3>2. ASSUME NEW m \in Msg, RowDue(m)
              PROVE  row'[o] = row[o] \/ row'[o] = [row[o] EXCEPT !.resend = "past"]
            BY <1>2, <3>2 DEF RowDue, TypeInv, TypeOK
        <3>3. ASSUME NEW m \in Msg, RowStale(m)
              PROVE  row'[o] = row[o] \/ row'[o] = [row[o] EXCEPT !.stale = TRUE]
            BY <1>2, <3>3 DEF RowStale, TypeInv, TypeOK
        <3>4. ASSUME Login \/ UNCHANGED vars \/ \E m \in Msg : MsgAges(m)
              PROVE  row'[o] = row[o]
            BY <3>4 DEF Login, MsgAges, db, vars
        <3> QED BY <1>5, <3>1, <3>2, <3>3, <3>4 DEF Time
    <2>3. row'[o].processed = row[o].processed /\ row'[o].resend \in {row[o].resend, "past"}
        BY <1>4, <2>2 DEF Row
    <2> QED BY <1>1, <1>2, <1>3, <2>1, <2>3, StaysGood DEF RowStays
<1>6. ASSUME NEW m \in Msg, RemoveMsg(m) PROVE Good(o)'
    <2>1. UNCHANGED <<queue, row>> /\ sipMsg'[o] \in {sipMsg[o], "none"}
        BY <1>2, <1>6 DEF RemoveMsg, TypeInv, TypeOK
    <2> QED BY <1>1, <1>2, <1>3, <2>1, StaysGood DEF RowStays
<1>7. ASSUME NEW m \in Msg, RemoveRow(m) PROVE Good(o)'
    <2>1. sipMsg' = sipMsg /\ sipMsg[m] = "none" /\ queue' = queue \ {m}
        BY <1>7 DEF RemoveRow, Delete, Basic, Records
    <2>2. CASE o # m
        <3>1. row'[o] = row[o]
            BY <1>2, <1>7, <2>2 DEF RemoveRow, Delete, TypeInv, TypeOK
        <3> QED BY <1>1, <1>2, <1>3, <2>1, <2>2, <3>1, StaysGood DEF RowStays
    <2>3. CASE o = m
        <3>1. o \notin queue' /\ sipMsg'[o] = "none"
            BY <2>1, <2>3
        <3>2. Alone(o)'
            BY <1>2, <1>3 DEF Good, Alone, Stays, AtMostOne
        <3> QED BY <3>1, <3>2 DEF Good, Marked, Timely, Reported, Waiting
    <2> QED BY <2>2, <2>3
<1> QED BY <1>5, <1>6, <1>7 DEF User

LEMMA CrashGood ==
    ASSUME Basic, AllGood, Crash, NEW o \in Msg \ contended'
    PROVE  Good(o)'
<1>1. Good(o) /\ UNCHANGED <<sipMsg, queue>> /\ (sub'[o] = "done" => sub[o] = "done")
    BY DEF Crash, AllGood
<1>2. /\ ~WkAt(o)' /\ ~SvcAt(o)' /\ SendsOf(o)' = {} /\ NetOf(o)' = {} /\ AcksOf(o)' = {}
    BY NotZero DEF Crash, WkIdle, SvcIdle, WkAt, SvcAt, SendsOf, NetOf, AcksOf
<1>3. Alone(o)' /\ Marked(o)' /\ Timely(o)'
    BY <1>2 DEF Alone, Marked, Timely, Out, AtMostOne
<1>4. Reported(o)'
    BY <1>1, <1>2 DEF Good, Reported
<1> QED BY <1>3, <1>4 DEF Good

LEMMA StepGood == Basic /\ AllGood /\ [Next]_vars => AllGood'
<1> SUFFICES ASSUME Basic, AllGood, [Next]_vars, NEW o \in Msg \ contended'
             PROVE  Good(o)'
    BY DEF AllGood
<1> QED BY SenderGood, WorkerGood, ServiceGood, StackGood, WorldGood, CrashGood DEF Next

-----------------------------------------------------------------------------
(* What holds of every message.                                             *)

LEMMA StepRests == Basic /\ [Next]_vars => Resting'
<1> SUFFICES ASSUME Basic, [Next]_vars PROVE Resting'
    OBVIOUS
<1> USE DEF Resting
<1>0. TypeInv /\ Resting
    BY DEF Basic
<1>1. CASE UNCHANGED <<wk, svc>>
    BY <1>0, <1>1
<1>2. CASE Sender \/ Stack \/ Login \/ Time \/ User \/ UNCHANGED vars
    BY <1>1, <1>2 DEF Sender, Save, Stamp, Enqueue, Stack, Answer, AnswerLost, Login, Time,
       AlarmExpires, TimerFires, RowDue, MsgAges, RowStale, User, RemoveMsg, RemoveRow, proc, vars
<1>3. CASE Crash
    BY <1>3 DEF Crash, WkIdle, SvcIdle
<1>4. CASE Worker
    <2>1. svc' = svc
        BY <1>4 DEF Worker, CheckBegin, CheckEnd, Mark, Reject, Transmit, WkDelete, WkBackoff,
           CheckRead, DbCheckBegin, DbCheckEnd, AckUnknown, AckPositive, AckLimit, AckResend,
           AckBackoff
    <2>2. wk'.m = 0 \/ wk'.pc \notin {"idle", "scan", "dbCheck", "start"}
        <3>1. CASE CheckBegin \/ CheckEnd \/ Transmit \/ WkDelete \/ WkBackoff \/ DbCheckEnd
            BY <3>1, AtRest DEF CheckBegin, CheckEnd, Transmit, WkDelete, WkBackoff, DbCheckEnd
        <3>2. CASE Mark \/ Reject
            <4>1. wk'.pc = "transmit" \/ wk'.pc = "delete"
                BY <1>0, <3>2 DEF Mark, Reject, TypeInv, TypeOK
            <4> QED BY <4>1
        <3>3. ASSUME NEW m \in Msg, CheckRead(m)
              PROVE  wk'.m = 0 \/ wk'.pc \notin {"idle", "scan", "dbCheck", "start"}
            BY <3>3 DEF CheckRead, WkScan, WkIdle
        <3>4. ASSUME NEW task \in {"dbCheck", "start"}, DbCheckBegin(task) PROVE wk'.m = 0
            BY <3>4 DEF DbCheckBegin, WkIdle
        <3>5. ASSUME NEW a \in acks, AckUnknown(a) PROVE wk'.m = 0
            BY <1>0, <3>5 DEF AckUnknown, AckRead
        <3>6. ASSUME NEW a \in acks, NEW m \in Msg,
                     AckPositive(a, m) \/ AckLimit(a, m) \/ AckResend(a, m) \/ AckBackoff(a, m)
              PROVE  wk'.m = 0 \/ wk'.pc \notin {"idle", "scan", "dbCheck", "start"}
            BY <1>0, <3>6 DEF AckPositive, AckLimit, AckResend, AckBackoff, AckRead, AfterBackoff,
               WkIdle
        <3> QED BY <1>4, <3>1, <3>2, <3>3, <3>4, <3>5, <3>6 DEF Worker
    <2> QED BY <1>0, <2>1, <2>2
<1>5. CASE Service
    <2>1. wk' = wk
        BY <1>5 DEF Service, SendOk, SendFailed, SvcSent, SvcRequeue, SvcMark, SvcGiveUp,
           SvcDelete, SvcBackoff, SvcReport
    <2>2. svc'.m = 0 \/ svc'.pc # "idle"
        <3>1. CASE SendOk \/ SendFailed
            BY <1>0, <3>1 DEF SendOk, SendFailed, SvcReady
        <3>2. CASE SvcSent \/ SvcRequeue \/ SvcDelete \/ SvcReport \/ SvcBackoff
            BY <1>0, <3>2 DEF SvcSent, SvcRequeue, SvcDelete, SvcReport, SvcBackoff, SvcIdle,
               AfterBackoff, TypeInv, TypeOK
        <3>3. CASE SvcMark \/ SvcGiveUp
            BY <1>0, <3>3 DEF SvcMark, SvcGiveUp, TypeInv, TypeOK
        <3> QED BY <1>5, <3>1, <3>2, <3>3 DEF Service
    <2> QED BY <1>0, <2>1, <2>2
<1> QED BY <1>2, <1>3, <1>4, <1>5 DEF Next

\* Only a message that has a row gets out of the queue.
LEMMA StepOutDone == Basic /\ [Next]_vars => OutDone'
<1> SUFFICES ASSUME Basic, [Next]_vars, NEW o \in Msg, Out(o)'
             PROVE  sub'[o] = "done"
    BY DEF OutDone
<1>0. TypeInv /\ Placed /\ (Out(o) => sub[o] = "done")
    BY DEF Basic, OutDone
<1>1. sub[o] = "done" => sub'[o] = "done"
    <2>1. CASE Sender
        BY <1>0, <2>1 DEF Sender, Save, Stamp, Enqueue, TypeInv, TypeOK
    <2>2. CASE Crash
        BY <2>2 DEF Crash
    <2>3. CASE Worker \/ Service \/ Stack \/ Login \/ Time \/ User \/ UNCHANGED vars
        BY <2>3 DEF Worker, CheckBegin, CheckEnd, Mark, Reject, Transmit, WkDelete, WkBackoff,
           CheckRead, DbCheckBegin, DbCheckEnd, AckUnknown, AckPositive, AckLimit, AckResend,
           AckBackoff, Service, SendOk, SendFailed, SvcSent, SvcRequeue, SvcMark, SvcGiveUp,
           SvcDelete, SvcBackoff, SvcReport, Stack, Answer, AnswerLost, Login, Time,
           AlarmExpires, TimerFires, RowDue, MsgAges, RowStale, User, RemoveMsg, RemoveRow,
           db, proc, vars
    <2> QED BY <2>1, <2>2, <2>3 DEF Next
<1>2. o \in queue => sub[o] = "done"
    BY <1>0 DEF Placed, Inserted
<1>3. Out(o) \/ o \in queue
    <2>1. CASE UNCHANGED <<wk, svc, sends, net, acks>>
        BY <2>1 DEF Out, WkAt, SvcAt, SendsOf, NetOf, AcksOf
    <2>2. CASE Sender \/ Login \/ Time \/ User \/ UNCHANGED vars
        BY <2>1, <2>2 DEF Sender, Save, Stamp, Enqueue, Login, Time, AlarmExpires, TimerFires,
           RowDue, MsgAges, RowStale, User, RemoveMsg, RemoveRow, world, proc, vars
    <2>3. CASE Crash
        BY <2>3, NotZero DEF Crash, WkIdle, SvcIdle, Out, WkAt, SvcAt, SendsOf, NetOf, AcksOf
    <2>4. CASE Stack
        <3>1. UNCHANGED <<wk, svc, sends>>
            BY <2>4 DEF Stack, Answer, AnswerLost, proc
        <3>2. \A tx \in net' : tx \in net
            BY <2>4 DEF Stack, Answer, AnswerLost
        <3>3. \A a \in acks' : a \in acks \/ a.tx \in net
            <4>1. PICK tx \in net : AnswerLost(tx) \/ \E ok \in BOOLEAN : Answer(tx, ok)
                BY <2>4 DEF Stack
            <4>2. acks' = acks \/ \E ok \in BOOLEAN : acks' = acks \union {[tx |-> tx, ok |-> ok]}
                BY <4>1 DEF AnswerLost, Answer, proc
            <4> QED BY <4>2
        <3> QED BY <3>1, <3>2, <3>3 DEF Out, WkAt, SvcAt, SendsOf, NetOf, AcksOf
    <2>5. CASE Worker
        <3>1. svc' = svc /\ net' = net /\ acks' \subseteq acks
            BY <2>5 DEF Worker, CheckBegin, CheckEnd, Mark, Reject, Transmit, WkDelete,
               WkBackoff, CheckRead, DbCheckBegin, DbCheckEnd, AckUnknown, AckPositive,
               AckLimit, AckResend, AckBackoff, AckRead, world
        <3>2. SendsOf(o)' # {} => SendsOf(o) # {} \/ wk.m = o
            <4>1. CASE Transmit
                <5>1. PICK ct : sends' = Append(sends, [m |-> wk.m, ct |-> ct])
                    BY <4>1 DEF Transmit
                <5> QED BY <1>0, <5>1, AppendSends
            <4>2. CASE ~Transmit
                <5>1. sends' = sends
                    BY <2>5, <4>2 DEF Worker, CheckBegin, CheckEnd, Mark, Reject, WkDelete,
                       WkBackoff, CheckRead, DbCheckBegin, DbCheckEnd, AckUnknown, AckPositive,
                       AckLimit, AckResend, AckBackoff
                <5> QED BY <5>1 DEF SendsOf
            <4> QED BY <4>1, <4>2
        <3>3. wk'.m = wk.m \/ wk'.m = 0 \/ wk'.m \in queue
            <4>1. CASE CheckBegin \/ CheckEnd \/ Transmit \/ WkDelete \/ WkBackoff \/ DbCheckEnd
                BY <4>1, AtRest DEF CheckBegin, CheckEnd, Transmit, WkDelete, WkBackoff, DbCheckEnd
            <4>2. CASE Mark \/ Reject
                BY <1>0, <4>2 DEF Mark, Reject, TypeInv, TypeOK
            <4>3. ASSUME NEW m \in Msg, CheckRead(m) PROVE wk'.m = 0 \/ wk'.m \in queue
                BY <4>3 DEF CheckRead, Heads, WkScan, WkIdle
            <4>4. ASSUME NEW task \in {"dbCheck", "start"}, DbCheckBegin(task) PROVE wk'.m = 0
                BY <4>4 DEF DbCheckBegin, WkIdle
            <4>5. ASSUME NEW a \in acks, AckUnknown(a) PROVE wk' = wk
                BY <4>5 DEF AckUnknown
            <4>6. ASSUME NEW a \in acks, NEW m \in Msg,
                         AckPositive(a, m) \/ AckLimit(a, m) \/ AckResend(a, m) \/ AckBackoff(a, m)
                  PROVE  wk' = wk \/ wk'.m \in queue
                BY <4>6 DEF AckPositive, AckLimit, AckResend, AckBackoff, AckRow, WkIdle
            <4> QED BY <2>5, <4>1, <4>2, <4>3, <4>4, <4>5, <4>6 DEF Worker
        <3> QED BY <3>1, <3>2, <3>3, NotZero DEF Out, WkAt, SvcAt, NetOf, AcksOf
    <2>6. CASE SendOk \/ SendFailed
        <3>1. UNCHANGED <<wk, acks>> /\ sends # <<>> /\ sends' = Tail(sends)
            BY <2>6 DEF SendOk, SendFailed, SvcReady
        <3>2. SendsOf(o) = {} => SendsOf(o)' = {} /\ o # Head(sends).m
            BY <1>0, <3>1, TailSends
        <3>3. SvcAt(o)' => SvcAt(o) \/ o = Head(sends).m
            BY <2>6 DEF SendOk, SendFailed, SvcAt
        <3>4. \A tx \in net' : tx \in net \/ tx.m = Head(sends).m
            <4>1. CASE SendOk
                <5>1. PICK k : net' = net \union {[m |-> Head(sends).m, ct |-> Head(sends).ct, k |-> k]}
                    BY <4>1 DEF SendOk
                <5> QED BY <5>1
            <4>2. CASE SendFailed
                BY <4>2 DEF SendFailed, world
            <4> QED BY <2>6, <4>1, <4>2
        <3> QED BY <3>1, <3>2, <3>3, <3>4 DEF Out, WkAt, NetOf, AcksOf
    <2>7. CASE \/ SvcSent \/ SvcRequeue \/ SvcMark \/ SvcGiveUp \/ SvcDelete \/ SvcBackoff
               \/ SvcReport
        <3>1. UNCHANGED <<wk, sends, net, acks>>
            BY <2>7 DEF SvcSent, SvcRequeue, SvcMark, SvcGiveUp, SvcDelete, SvcBackoff,
               SvcReport, world
        <3>2. SvcAt(o)' => SvcAt(o)
            BY <1>0, <2>7, NotZero DEF SvcSent, SvcRequeue, SvcMark, SvcGiveUp, SvcDelete,
               SvcBackoff, SvcReport, SvcIdle, SvcAt, TypeInv, TypeOK
        <3> QED BY <3>1, <3>2 DEF Out, WkAt, SendsOf, NetOf, AcksOf
    <2> QED BY <2>2, <2>3, <2>4, <2>5, <2>6, <2>7 DEF Next, Service
<1> QED BY <1>0, <1>1, <1>2, <1>3

\* A record that is deleted stays so.
LEMMA StepRecords == Basic /\ [Next]_vars => Records'
<1> SUFFICES ASSUME Basic, [Next]_vars PROVE Records'
    OBVIOUS
<1>0. TypeInv /\ Records /\ removing \subseteq Msg
    BY DEF Basic, TypeInv, TypeOK
<1>1. ASSUME NEW m \in Msg, Save(m) PROVE Records'
    <2>1. removing' = removing /\ sub[m] = "new" /\ sub'[m] = "saved"
          /\ \A o \in Msg : o # m => sub'[o] = sub[o] /\ sipMsg'[o] = sipMsg[o]
        BY <1>0, <1>1 DEF Save, TypeInv, TypeOK
    <2> QED BY <1>0, <2>1 DEF Records
<1>2. ASSUME ~\E m \in Msg : Save(m) PROVE Records'
    <2>1. \A o \in Msg : sub'[o] = "new" <=> sub[o] = "new"
        <3>1. CASE UNCHANGED sub
            BY <3>1
        <3>2. CASE Sender
            BY <1>0, <1>2, <3>2 DEF Sender, Stamp, Enqueue, TypeInv, TypeOK
        <3>3. CASE Crash
            BY <3>3 DEF Crash
        <3>4. CASE Worker \/ Service \/ Stack \/ Login \/ Time \/ User \/ UNCHANGED vars
            BY <3>1, <3>4 DEF Worker, CheckBegin, CheckEnd, Mark, Reject, Transmit, WkDelete,
               WkBackoff, CheckRead, DbCheckBegin, DbCheckEnd, AckUnknown, AckPositive,
               AckLimit, AckResend, AckBackoff, Service, SendOk, SendFailed, SvcSent,
               SvcRequeue, SvcMark, SvcGiveUp, SvcDelete, SvcBackoff, SvcReport, Stack, Answer,
               AnswerLost, Login, Time, AlarmExpires, TimerFires, RowDue, MsgAges, RowStale,
               User, RemoveMsg, RemoveRow, db, proc, vars
        <3> QED BY <3>2, <3>3, <3>4 DEF Next
    <2>2. \A o \in Msg : sipMsg[o] = "none" => sipMsg'[o] = "none"
        <3>1. CASE UNCHANGED sipMsg
            BY <3>1
        <3>2. CASE Sender \/ Stack \/ Login \/ Time \/ Crash \/ UNCHANGED vars
            BY <1>2, <3>1, <3>2 DEF Sender, Stamp, Enqueue, Stack, Answer, AnswerLost, Login,
               Time, AlarmExpires, TimerFires, RowDue, MsgAges, RowStale, Crash, db, proc, vars
        <3>3. CASE User
            BY <1>0, <3>3 DEF User, RemoveMsg, RemoveRow, TypeInv, TypeOK
        <3>4. CASE Mark \/ Reject \/ WkBackoff
            <4>1. wk.m \in Msg /\ \E type : ReportTo(wk.m, type)
                BY <1>0, <3>4 DEF Mark, Reject, WkBackoff, BackoffReport, TypeInv, TypeOK
            <4> QED BY <1>0, <4>1, ReportMsg
        <3>5. CASE DbCheckEnd
            BY <3>5 DEF DbCheckEnd, Waiting
        <3>6. ASSUME NEW a \in acks, NEW m \in Msg, AckPositive(a, m) \/ AckLimit(a, m)
              PROVE  \A o \in Msg : sipMsg[o] = "none" => sipMsg'[o] = "none"
            <4>1. ReportTo(m, "sent") \/ ReportTo(m, "failed")
                BY <3>6 DEF AckPositive, AckLimit
            <4> QED BY <1>0, <4>1, ReportMsg
        <3>7. CASE SvcGiveUp \/ SvcReport
            <4>1. svc.m \in Msg /\ \E type : ReportTo(svc.m, type)
                BY <1>0, <3>7 DEF SvcGiveUp, SvcReport, BackoffReport, TypeInv, TypeOK
            <4> QED BY <1>0, <4>1, ReportMsg
        <3>8. CASE \/ CheckBegin \/ CheckEnd \/ Transmit \/ WkDelete
                   \/ \E m \in Msg : CheckRead(m)
                   \/ \E task \in {"dbCheck", "start"} : DbCheckBegin(task)
                   \/ \E a \in acks : AckUnknown(a)
                   \/ \E a \in acks, m \in Msg : AckResend(a, m) \/ AckBackoff(a, m)
            BY <3>1, <3>8 DEF CheckBegin, CheckEnd, Transmit, WkDelete, CheckRead, DbCheckBegin,
               AckUnknown, AckResend, AckBackoff, db
        <3>9. CASE \/ SendOk \/ SendFailed \/ SvcSent \/ SvcRequeue \/ SvcMark \/ SvcDelete
                   \/ SvcBackoff
            BY <3>1, <3>9 DEF SendOk, SendFailed, SvcSent, SvcRequeue, SvcMark, SvcDelete,
               SvcBackoff, db
        <3> QED BY <3>2, <3>3, <3>4, <3>5, <3>6, <3>7, <3>8, <3>9 DEF Next, Worker, Service
    <2>3. \A o \in removing' : o \in removing \/ (sipMsg'[o] = "none" /\ sub[o] # "new")
        <3>1. CASE removing' \subseteq removing
            BY <3>1
        <3>2. CASE \E m \in Msg : RemoveMsg(m)
            BY <1>0, <3>2 DEF RemoveMsg, TypeInv, TypeOK
        <3>3. CASE ~\E m \in Msg : RemoveMsg(m)
            BY <3>1, <3>3 DEF Next, Sender, Save, Stamp, Enqueue, Worker, CheckBegin, CheckEnd, Mark,
               Reject, Transmit, WkDelete,
               WkBackoff, CheckRead, DbCheckBegin, DbCheckEnd, AckUnknown, AckPositive,
               AckLimit, AckResend, AckBackoff, Service, SendOk, SendFailed, SvcSent,
               SvcRequeue, SvcMark, SvcGiveUp, SvcDelete, SvcBackoff, SvcReport, Stack, Answer,
               AnswerLost, Login, Time, AlarmExpires, TimerFires, RowDue, MsgAges, RowStale,
               User, RemoveRow, Crash, db, proc, vars
        <3> QED BY <3>1, <3>2, <3>3
    <2>4. removing' \subseteq Msg
        BY <1>0, StepTyped DEF TypeInv, TypeOK
    <2> QED BY <1>0, <2>1, <2>2, <2>3, <2>4 DEF Records
<1> QED BY <1>1, <1>2

LEMMA StepBasic == Basic /\ [Next]_vars => Basic'
BY StepTyped, StepImplements, StepRests, StepOutDone, StepRecords DEF Basic

LEMMA InitGood == Init => Basic /\ AllGood
<1> SUFFICES ASSUME Init PROVE Basic /\ AllGood
    OBVIOUS
<1>1. Resting /\ Records
    BY DEF Init, Resting, Records, WkIdle, SvcIdle
<1>2. \A m \in Msg : /\ ~WkAt(m) /\ ~SvcAt(m) /\ SendsOf(m) = {} /\ NetOf(m) = {}
                     /\ AcksOf(m) = {}
    BY NotZero DEF Init, WkIdle, SvcIdle, WkAt, SvcAt, SendsOf, NetOf, AcksOf
<1>3. OutDone
    BY <1>2 DEF OutDone, Out
<1>4. AllGood
    BY <1>2 DEF Init, AllGood, Good, Alone, Marked, Timely, Reported, Out, AtMostOne
<1> QED BY <1>1, <1>3, <1>4, InitTyped, InitPlaced DEF Basic

LEMMA AlwaysGood == Spec => [](Basic /\ AllGood)
BY InitGood, StepBasic, StepGood, PTL DEF Spec

-----------------------------------------------------------------------------
(* The properties.                                                          *)

LEMMA CardinalityOne ==
    ASSUME NEW S, AtMostOne(S)
    PROVE  /\ Cardinality(S) \in {0, 1}
           /\ Cardinality(S) = 0 => S = {}
           /\ S = {} => Cardinality(S) = 0
<1>1. CASE S = {}
    BY <1>1, FS_EmptySet
<1>2. CASE S # {}
    <2>1. PICK x \in S : TRUE
        BY <1>2
    <2>2. S = {x}
        BY <2>1 DEF AtMostOne
    <2> QED BY <2>2, FS_Singleton
<1> QED BY <1>1, <1>2

LEMMA GoodFlies ==
    ASSUME NEW m \in Msg, Good(m)
    PROVE  /\ Flights(m) <= 1
           /\ Flights(m) = 1 /\ m \in queue =>
                 row[m].processed \/ (wk.m = m /\ wk.pc = "mark")
<1> DEFINE s == Cardinality(SendsOf(m))
           n == Cardinality(NetOf(m))
           a == Cardinality(AcksOf(m))
           w == IF wk.m = m /\ wk.pc \notin {"report", "arm"} THEN 1 ELSE 0
           v == IF svc.m = m /\ svc.pc \notin {"sent", "report", "arm"} THEN 1 ELSE 0
<1>1. Flights(m) = w + v + s + n + a
    BY DEF Flights, SendsOf, NetOf, AcksOf
<1>2. /\ s \in {0, 1} /\ n \in {0, 1} /\ a \in {0, 1}
      /\ s = 1 => SendsOf(m) # {}
      /\ n = 1 => NetOf(m) # {}
      /\ a = 1 => AcksOf(m) # {}
    BY CardinalityOne DEF Good, Alone
<1>3. w \in {0, 1} /\ v \in {0, 1} /\ (w = 1 => WkAt(m)) /\ (v = 1 => SvcAt(m))
    BY DEF WkAt, SvcAt
<1>4. /\ w = 1 => v = 0 /\ s = 0 /\ n = 0 /\ a = 0
      /\ v = 1 => s = 0 /\ n = 0 /\ a = 0
      /\ s = 1 => n = 0 /\ a = 0
      /\ n = 1 => a = 0
    BY <1>2, <1>3 DEF Good, Alone
<1> HIDE DEF s, n, a, w, v
<1>5. Flights(m) <= 1
    BY <1>1, <1>2, <1>3, <1>4
<1>6. ASSUME Flights(m) = 1, m \in queue
      PROVE  row[m].processed \/ (wk.m = m /\ wk.pc = "mark")
    <2>1. w = 1 \/ v = 1 \/ s = 1 \/ n = 1 \/ a = 1
        BY <1>1, <1>2, <1>3, <1>6
    <2>2. Out(m)
        BY <1>2, <1>3, <2>1 DEF Out
    <2>3. row[m].processed \/ (WkAt(m) /\ wk.pc \in {"mark", "report", "arm"})
          \/ (SvcAt(m) /\ svc.pc \in {"report", "arm"})
        BY <1>6, <2>2 DEF Good, Marked
    <2>4. WkAt(m) \/ SvcAt(m) => s = 0 /\ n = 0 /\ a = 0
        BY <1>2 DEF Good, Alone
    <2>5. CASE WkAt(m) /\ wk.pc \in {"report", "arm"}
        BY <1>3, <2>1, <2>4, <2>5 DEF w, Good, Alone
    <2>6. CASE SvcAt(m) /\ svc.pc \in {"report", "arm"}
        BY <1>3, <2>1, <2>4, <2>6 DEF v, Good, Alone
    <2> QED BY <2>3, <2>5, <2>6 DEF WkAt
<1> QED BY <1>5, <1>6

\* A message that no database check took back is out at most once, and marked
\* until it is given back.
THEOREM OutOnce == Spec => []SingleFlight
<1>1. AllGood => SingleFlight
    BY GoodFlies DEF AllGood, SingleFlight
<1> QED BY <1>1, AlwaysGood, PTL

\* A stored message that waits has its row.
THEOREM WaitingHasRow == Spec => []NothingLost
<1>1. AllGood => NothingLost
    BY DEF AllGood, Good, Reported, NothingLost
<1> QED BY <1>1, AlwaysGood, PTL

\* A message that waits for its resend time is not with the service queue.
THEOREM BackedOffHolds == Spec => []BackoffHolds
<1>1. Basic /\ AllGood => BackoffHolds
    BY DEF Basic, Placed, Inserted, AllGood, Good, Timely, BackoffHolds, SendsOf
<1> QED BY <1>1, AlwaysGood, PTL

\* The verdict on a message whose row is gone stays.
THEOREM VerdictStays == Spec => VerdictIsFinal
<1> DEFINE Final(m) == sub[m] = "done" /\ m \notin queue /\ sipMsg[m] \in {"sent", "failed"}
                       => sipMsg'[m] \in {sipMsg[m], "none"}
<1>1. ASSUME Basic, AllGood, [Next]_vars, NEW m \in Msg \ contended PROVE Final(m)
    <2> SUFFICES ASSUME sub[m] = "done", m \notin queue, sipMsg[m] \in {"sent", "failed"}
                 PROVE  sipMsg'[m] \in {sipMsg[m], "none"}
        OBVIOUS
    <2>0. TypeInv /\ Good(m)
        BY <1>1 DEF Basic, AllGood
    <2>1. CASE UNCHANGED sipMsg
        BY <2>1
    <2>2. CASE Sender \/ Stack \/ Login \/ Time \/ Crash \/ User \/ UNCHANGED vars
        BY <2>0, <2>1, <2>2 DEF Sender, Save, Stamp, Enqueue, Stack, Answer, AnswerLost, Login,
           Time, AlarmExpires, TimerFires, RowDue, MsgAges, RowStale, Crash, User, RemoveMsg,
           RemoveRow, TypeInv, TypeOK, db, proc, vars
    <2>3. CASE Mark \/ Reject \/ WkBackoff
        <3>1. wk.m \in Msg /\ wk.pc # "delete" /\ \E type : ReportTo(wk.m, type)
            BY <2>0, <2>3 DEF Mark, Reject, WkBackoff, BackoffReport, TypeInv, TypeOK
        <3>2. wk.m # m
            BY <2>0, <3>1 DEF Good, Reported, WkAt
        <3> QED BY <2>0, <3>1, <3>2, ReportMsg
    <2>4. CASE DbCheckEnd
        BY <2>4 DEF DbCheckEnd, Waiting
    <2>5. ASSUME NEW a \in acks, NEW o \in Msg, AckPositive(a, o) \/ AckLimit(a, o)
          PROVE  sipMsg'[m] = sipMsg[m]
        <3>1. o # m /\ (ReportTo(o, "sent") \/ ReportTo(o, "failed"))
            BY <2>5 DEF AckPositive, AckLimit, AckRow
        <3> QED BY <2>0, <3>1, ReportMsg
    <2>6. CASE SvcGiveUp \/ SvcReport
        <3>1. svc.m \in Msg /\ svc.pc \notin {"delete", "sent"} /\ \E type : ReportTo(svc.m, type)
            BY <2>0, <2>6 DEF SvcGiveUp, SvcReport, BackoffReport, TypeInv, TypeOK
        <3>2. svc.m # m
            BY <2>0, <3>1 DEF Good, Reported, SvcAt
        <3> QED BY <2>0, <3>1, <3>2, ReportMsg
    <2>7. CASE \/ CheckBegin \/ CheckEnd \/ Transmit \/ WkDelete
               \/ \E o \in Msg : CheckRead(o)
               \/ \E task \in {"dbCheck", "start"} : DbCheckBegin(task)
               \/ \E a \in acks : AckUnknown(a)
               \/ \E a \in acks, o \in Msg : AckResend(a, o) \/ AckBackoff(a, o)
        BY <2>1, <2>7 DEF CheckBegin, CheckEnd, Transmit, WkDelete, CheckRead, DbCheckBegin,
           AckUnknown, AckResend, AckBackoff, db
    <2>8. CASE \/ SendOk \/ SendFailed \/ SvcSent \/ SvcRequeue \/ SvcMark \/ SvcDelete
               \/ SvcBackoff
        BY <2>1, <2>8 DEF SendOk, SendFailed, SvcSent, SvcRequeue, SvcMark, SvcDelete,
           SvcBackoff, db
    <2> QED BY <1>1, <2>2, <2>3, <2>4, <2>5, <2>6, <2>7, <2>8 DEF Next, Worker, Service
<1>2. Basic /\ AllGood /\ [Next]_vars =>
          [\A m \in Msg \ contended :
              sub[m] = "done" /\ m \notin queue /\ sipMsg[m] \in {"sent", "failed"}
              => sipMsg'[m] \in {sipMsg[m], "none"}]_vars
    BY <1>1
<1> QED BY <1>2, AlwaysGood, PTL DEF Spec, VerdictIsFinal
=============================================================================
