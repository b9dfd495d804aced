--------------------------- MODULE FtUploadProofs ---------------------------
(***************************************************************************)
(* Proofs about FtUpload, for any limits and any number of checks,         *)
(* cancellations and restarts.                                             *)
(***************************************************************************)
EXTENDS FtUpload, TLAPS

(***************************************************************************)
(* What the steps of an operation are made of.                             *)
(***************************************************************************)

LEMMA GoType ==
  ASSUME op \in Operations, NEW p \in PCs, Go(p)
  PROVE  /\ op' \in Operations /\ op'.pc = p
         /\ op'.verdict = op.verdict /\ op'.cancelled = op.cancelled
  BY DEF Go, Operations

LEMMA ReportType ==
  ASSUME op \in Operations, NEW v \in Verdicts, Report(v)
  PROVE  op' \in Operations /\ op'.pc = "finish" /\ op'.verdict = v
  BY DEF Report, Operations, PCs

LEMMA ShowType ==
  ASSUME type \in Types, NEW t \in Types, Show(t)
  PROVE  type' \in Types /\ (type = "gone" => type' = "gone")
  BY DEF Show, Types

LEMMA NewOpType ==
  /\ NewOp \in Operations /\ NewOp.pc = "idle" /\ NewOp.verdict = "drop"
  /\ LET o == [NewOp EXCEPT !.pc = "loop"]
     IN o \in Operations /\ o.pc = "loop" /\ o.verdict = "drop"
  /\ \A b \in BOOLEAN : LET o == [NewOp EXCEPT !.pc = "popped", !.cancelled = b]
                        IN o \in Operations /\ o.pc = "popped" /\ o.verdict = "drop"
  BY DEF NewOp, Operations, PCs, Verdicts

LEMMA TailType ==
  ASSUME NEW S, NEW s \in Seq(S), s # <<>>
  PROVE  /\ Head(s) \in S /\ Tail(s) \in Seq(S)
         /\ \A i \in DOMAIN Tail(s) : i + 1 \in DOMAIN s /\ Tail(s)[i] = s[i + 1]
         /\ 1 \in DOMAIN s /\ Head(s) = s[1]
  OBVIOUS

LEMMA AppendType ==
  ASSUME NEW S, NEW s \in Seq(S), NEW e \in S
  PROVE  /\ Append(s, e) \in Seq(S) /\ Append(s, e) # <<>>
         /\ \A i \in DOMAIN Append(s, e) :
              Append(s, e)[i] = e \/ (i \in DOMAIN s /\ Append(s, e)[i] = s[i])
  OBVIOUS

LEMMA MarkType ==
  ASSUME NEW s \in Seq(BOOLEAN), s # <<>>
  PROVE  [s EXCEPT ![1] = TRUE] \in Seq(BOOLEAN) /\ [s EXCEPT ![1] = TRUE] # <<>>
  OBVIOUS

LEMMA EmptyType == ASSUME NEW S PROVE <<>> \in Seq(S)
  OBVIOUS

\* The steps of an operation between the entry it polled and the report.
Working ==
  \/ Process \/ Abort \/ Recover \/ DeriveKeys \/ Send \/ Upload \/ UploadFails
  \/ UploadThrows \/ Clean \/ StoreDone \/ Notify \/ Final

\* What such a step leaves alone, and the types it keeps.
Moves ==
  /\ op.pc \notin {"idle", "loop"} /\ op' \in Operations
  /\ op'.pc \notin {"idle", "loop", "popped"}
  /\ type' \in Types /\ (type = "gone" => type' = "gone")
  /\ Quiet /\ UNCHANGED <<abandoned, gaveup, checks, restarts>>

LEMMA WorkingMoves == TypeOK /\ Working => Moves
<1> SUFFICES ASSUME TypeOK, Working PROVE Moves
  OBVIOUS
<1> USE DEF TypeOK
<1>1. CASE Process
  <2>1. Go("keys") \/ Go("recover")
    BY <1>1 DEF Process
  <2>2. op' \in Operations /\ op'.pc \in {"keys", "recover"}
    BY <2>1, GoType DEF PCs
  <2> QED
    BY <1>1, <2>2 DEF Process, Moves, At, past
<1>2. CASE Abort
  <2>1. op' \in Operations /\ op'.pc = "finish"
    BY <1>2, ReportType DEF Abort, Verdicts
  <2> QED
    BY <1>2, <2>1 DEF Abort, Moves, At, past
<1>3. CASE Recover
  <2>1. op' \in Operations /\ op'.pc \in {"send", "finish"}
    BY <1>3, GoType, ReportType DEF Recover, Verdicts, PCs
  <2>2. type' \in Types /\ (type = "gone" => type' = "gone")
    BY <1>3, ShowType DEF Recover, Types
  <2> QED
    BY <1>3, <2>1, <2>2 DEF Recover, Moves, At, past
<1>4. CASE DeriveKeys
  <2>1. op' \in Operations /\ op'.pc \in {"send", "finish"}
    BY <1>4, GoType, ReportType DEF DeriveKeys, Verdicts, PCs
  <2>2. type' \in Types /\ (type = "gone" => type' = "gone")
    BY <1>4, ShowType DEF DeriveKeys, Types
  <2> QED
    BY <1>4, <2>1, <2>2 DEF DeriveKeys, Moves, At, past
<1>5. CASE Send
  <2>1. op' \in Operations /\ op'.pc \in {"notify", "upload"}
    BY <1>5, GoType DEF Send, PCs
  <2>2. type' \in Types /\ (type = "gone" => type' = "gone")
    BY <1>5, ShowType DEF Send, Types
  <2> QED
    BY <1>5, <2>1, <2>2 DEF Send, Moves, At, past
<1>6. CASE Upload
  <2>1. op' \in Operations /\ op'.pc = "clean"
    BY <1>6, GoType DEF Upload, PCs
  <2> QED
    BY <1>6, <2>1 DEF Upload, Moves, At
<1>7. CASE UploadFails
  <2>1. op' \in Operations /\ op'.pc = "finish"
    BY <1>7, ReportType DEF UploadFails, Verdicts
  <2>2. type' \in Types /\ (type = "gone" => type' = "gone")
    BY <1>7, ShowType DEF UploadFails, Types
  <2> QED
    BY <1>7, <2>1, <2>2 DEF UploadFails, Moves, At, past
<1>8. CASE UploadThrows
  <2>1. op' \in Operations /\ op'.pc = "notify"
    BY <1>8, GoType DEF UploadThrows, PCs
  <2>2. type' \in Types /\ (type = "gone" => type' = "gone")
    BY <1>8, ShowType DEF UploadThrows, Types
  <2> QED
    BY <1>8, <2>1, <2>2 DEF UploadThrows, Moves, At, past
<1>9. CASE Clean
  <2>1. op' \in Operations /\ op'.pc = "done"
    BY <1>9, GoType DEF Clean, PCs
  <2> QED
    BY <1>9, <2>1 DEF Clean, Moves, At, past
<1>10. CASE StoreDone
  <2>1. op' \in Operations /\ op'.pc = "notify"
    BY <1>10 DEF StoreDone, Operations, PCs, Verdicts
  <2> QED
    BY <1>10, <2>1 DEF StoreDone, Moves, At, past
<1>11. CASE Notify
  <2>1. op' \in Operations /\ op'.pc = "final"
    BY <1>11, GoType DEF Notify, PCs
  <2> QED
    BY <1>11, <2>1 DEF Notify, Moves, At, past
<1>12. CASE Final
  <2>1. op' \in Operations /\ op'.pc = "finish"
    BY <1>12, GoType DEF Final, PCs
  <2>2. type' \in Types /\ (type = "gone" => type' = "gone")
    BY <1>12, ShowType DEF Final, Types
  <2> QED
    BY <1>12, <2>1, <2>2 DEF Final, Moves, At, past
<1> QED
  BY <1>1, <1>2, <1>3, <1>4, <1>5, <1>6, <1>7, <1>8, <1>9, <1>10, <1>11, <1>12
     DEF Working

\* The stored data keeps its type.
DiskType ==
  /\ rec \in {"none", "keys", "done"} /\ temp \in BOOLEAN /\ server \in BOOLEAN
  /\ notified \in BOOLEAN /\ stored \in Nat

LEMMA WorkingDisk == TypeOK /\ Working => DiskType'
<1> SUFFICES ASSUME TypeOK, Working PROVE DiskType'
  OBVIOUS
<1>1. CASE UNCHANGED <<disk, past>>
  BY <1>1 DEF disk, past, TypeOK, DiskType
<1>2. CASE DeriveKeys
  <2>1. rec' \in {"none", "keys", "done"} /\ stored' \in Nat
    BY <1>2 DEF DeriveKeys, TypeOK, past
  <2>2. temp' \in BOOLEAN /\ server' \in BOOLEAN /\ notified' \in BOOLEAN
    BY <1>2, Zenon DEF DeriveKeys, TypeOK
  <2> QED
    BY <2>1, <2>2 DEF DiskType
<1>3. CASE Upload
  <2>1. rec' \in {"none", "keys", "done"} /\ stored' \in Nat
    BY <1>3 DEF Upload, TypeOK
  <2>2. temp' \in BOOLEAN /\ server' \in BOOLEAN /\ notified' \in BOOLEAN
    BY <1>3, Zenon DEF Upload, TypeOK
  <2> QED
    BY <2>1, <2>2 DEF DiskType
<1>4. CASE UploadFails \/ UploadThrows
  <2>1. rec' \in {"none", "keys", "done"} /\ stored' \in Nat
    BY <1>4 DEF UploadFails, UploadThrows, TypeOK, past
  <2>2. temp' \in BOOLEAN /\ notified' \in BOOLEAN
    BY <1>4, Zenon DEF UploadFails, UploadThrows, TypeOK
  <2>3. server \in BOOLEAN /\ MayArrive
    BY <1>4, Zenon DEF UploadFails, UploadThrows, TypeOK
  <2>4. (server \/ temp) \in BOOLEAN
    BY Zenon
  <2>5. server' \in BOOLEAN
    BY <2>3, <2>4, Zenon DEF MayArrive
  <2> QED
    BY <2>1, <2>2, <2>5 DEF DiskType
<1>5. CASE Clean \/ StoreDone \/ Notify
  <2>1. rec' \in {"none", "keys", "done"} /\ stored' \in Nat
    BY <1>5 DEF Clean, StoreDone, Notify, TypeOK, past
  <2>2. temp' \in BOOLEAN /\ server' \in BOOLEAN /\ notified' \in BOOLEAN
    BY <1>5, Zenon DEF Clean, StoreDone, Notify, TypeOK
  <2> QED
    BY <2>1, <2>2 DEF DiskType
<1>6. CASE Process \/ Abort \/ Recover \/ Send \/ Final
  BY <1>1, <1>6 DEF Process, Abort, Recover, Send, Final
<1> QED
  BY <1>2, <1>3, <1>4, <1>5, <1>6 DEF Working

\* The variables that a step outside Working changes keep their types.
LEMMA TypeInit == Init => TypeOK
<1> SUFFICES ASSUME Init PROVE TypeOK
  OBVIOUS
<1>1. temp \in BOOLEAN /\ server \in BOOLEAN /\ notified \in BOOLEAN /\ found \in BOOLEAN
      /\ abandoned \in BOOLEAN /\ gaveup \in BOOLEAN
  BY Zenon DEF Init
<1>2. op \in Operations
  BY NewOpType DEF Init
<1> QED
  BY <1>1, <1>2, UploadAssumption DEF Init, TypeOK, Types

Flags ==
  /\ temp \in BOOLEAN /\ server \in BOOLEAN /\ notified \in BOOLEAN
  /\ found \in BOOLEAN /\ abandoned \in BOOLEAN /\ gaveup \in BOOLEAN

\* What is not Boolean.
Others ==
  /\ type \in Types
  /\ sender \in {"idle", "saved", "done", "lost"}
  /\ row \in {"absent", "waiting", "backoff", "processed"} /\ tries \in 0 .. MaxResend
  /\ rec \in {"none", "keys", "done"}
  /\ queue \in Seq(BOOLEAN) /\ ops \in Nat /\ acks \in Seq(Verdicts)
  /\ op \in Operations
  /\ ui \in {"idle", "notify", "delete"}
  /\ stored \in Nat /\ checks \in 0 .. MaxChecks /\ cancels \in 0 .. MaxCancels
  /\ restarts \in 0 .. MaxRestarts

LEMMA TypeParts == (TypeOK <=> Flags /\ Others) /\ (TypeOK' <=> Flags' /\ Others')
  BY Zenon DEF TypeOK, Flags, Others

LEMMA TypeStep == TypeOK /\ [Next]_vars => TypeOK'
<1> SUFFICES ASSUME TypeOK, [Next]_vars PROVE TypeOK'
  OBVIOUS
<1> USE DEF shown, disk, pool, user, past
<1>1. CASE Working
  <2>1. Moves /\ DiskType'
    BY <1>1, WorkingMoves, WorkingDisk
  <2>2. Others'
    BY <2>1 DEF Moves, DiskType, Quiet, TypeOK, Others
  <2>3. Flags'
    BY <2>1, Zenon DEF Moves, DiskType, Quiet, TypeOK, Flags
  <2> QED
    BY <2>2, <2>3, TypeParts
<1>2. CASE Save \/ Dispatch \/ TakeOrphan \/ NoCertificate \/ CheckOld \/ Due
  <2>1. Others'
    <3>1. CASE CheckOld
      BY <3>1, UploadAssumption DEF CheckOld, TypeOK, Others
    <3>2. CASE Save \/ Dispatch
      BY <3>2 DEF Save, Dispatch, TypeOK, Others, Types
    <3>3. CASE TakeOrphan \/ NoCertificate \/ Due
      BY <3>3 DEF TakeOrphan, NoCertificate, Due, TypeOK, Others
    <3> QED
      BY <1>2, <3>1, <3>2, <3>3
  <2>2. Flags'
    BY <1>2, Zenon DEF Save, Dispatch, TakeOrphan, NoCertificate, CheckOld, Due, TypeOK, Flags
  <2> QED
    BY <2>1, <2>2, TypeParts
<1>3. CASE Take
  <2>1. queue' \in Seq(BOOLEAN)
    BY <1>3, AppendType DEF Take, TypeOK
  <2>2. Others'
    BY <1>3, <2>1 DEF Take, TypeOK, Others
  <2>3. Flags'
    BY <1>3, Zenon DEF Take, TypeOK, Flags
  <2> QED
    BY <2>2, <2>3, TypeParts
<1>4. CASE TransferFinished
  <2>1. acks' \in Seq(Verdicts)
    BY <1>4, TailType DEF TransferFinished, TypeOK
  <2>2. Others'
    BY <1>4, <2>1, UploadAssumption DEF TransferFinished, TypeOK, Others
  <2>3. temp' \in BOOLEAN /\ gaveup' \in BOOLEAN
    BY <1>4, Zenon DEF TransferFinished, TypeOK
  <2>4. Flags'
    BY <1>4, <2>3, Zenon DEF TransferFinished, TypeOK, Flags
  <2> QED
    BY <2>2, <2>4, TypeParts
<1>5. CASE StartOp
  <2>1. op' \in Operations
    BY <1>5, NewOpType DEF StartOp
  <2>2. Others'
    BY <1>5, <2>1 DEF StartOp, TypeOK, Others
  <2>3. Flags'
    BY <1>5, Zenon DEF StartOp, TypeOK, Flags
  <2> QED
    BY <2>2, <2>3, TypeParts
<1>6. CASE Poll
  <2>1. op' \in Operations /\ queue' \in Seq(BOOLEAN)
    <3>1. CASE queue = <<>>
      BY <1>6, <3>1, GoType DEF Poll, TypeOK, PCs
    <3>2. CASE queue # <<>>
      <4>1. Head(queue) \in BOOLEAN /\ Tail(queue) \in Seq(BOOLEAN)
        BY <3>2, TailType, Zenon DEF TypeOK
      <4> QED
        BY <1>6, <3>2, <4>1, NewOpType DEF Poll
    <3> QED
      BY <3>1, <3>2
  <2>2. Others'
    BY <1>6, <2>1 DEF Poll, TypeOK, Others
  <2>3. Flags'
    BY <1>6, Zenon DEF Poll, TypeOK, Flags
  <2> QED
    BY <2>2, <2>3, TypeParts
<1>7. CASE Skip
  <2>1. op' \in Operations
    BY <1>7, NewOpType DEF Skip
  <2>2. Others'
    BY <1>7, <2>1 DEF Skip, Quiet, TypeOK, Others, Types
  <2>3. Flags'
    BY <1>7, Zenon DEF Skip, Quiet, TypeOK, Flags
  <2> QED
    BY <2>2, <2>3, TypeParts
<1>8. CASE Finish
  <2>1. op.verdict \in Verdicts
    BY DEF TypeOK, Operations
  <2>2. op' \in Operations /\ acks' \in Seq(Verdicts)
    BY <1>8, <2>1, NewOpType, AppendType DEF Finish, TypeOK
  <2>3. Others'
    BY <1>8, <2>2 DEF Finish, TypeOK, Others
  <2>4. Flags'
    BY <1>8, Zenon DEF Finish, TypeOK, Flags
  <2> QED
    BY <2>3, <2>4, TypeParts
<1>9. CASE CancelInQueue
  <2>1. queue' \in Seq(BOOLEAN)
    BY <1>9, MarkType DEF CancelInQueue, TypeOK
  <2>2. Others'
    BY <1>9, <2>1, UploadAssumption DEF CancelInQueue, TypeOK, Others
  <2>3. Flags'
    BY <1>9, Zenon DEF CancelInQueue, TypeOK, Flags
  <2> QED
    BY <2>2, <2>3, TypeParts
<1>10. CASE CancelNotify
  <2>1. op' \in Operations
    BY <1>10 DEF CancelNotify, TypeOK, Operations
  <2>2. Others'
    BY <1>10, <2>1 DEF CancelNotify, TypeOK, Others
  <2>3. Flags'
    BY <1>10, Zenon DEF CancelNotify, TypeOK, Flags
  <2> QED
    BY <2>2, <2>3, TypeParts
<1>11. CASE CancelDelete
  <2>1. Others'
    BY <1>11 DEF CancelDelete, TypeOK, Others, Types
  <2>2. Flags'
    BY <1>11, Zenon DEF CancelDelete, TypeOK, Flags
  <2> QED
    BY <2>1, <2>2, TypeParts
<1>12. CASE Restart
  <2>1. op' \in Operations /\ queue' \in Seq(BOOLEAN) /\ acks' \in Seq(Verdicts)
    BY <1>12, NewOpType, EmptyType DEF Restart
  <2>3. restarts' \in 0 .. MaxRestarts /\ ops' \in Nat
    BY <1>12, UploadAssumption DEF Restart, TypeOK
  <2>4. Others'
    BY <1>12, <2>1, <2>3 DEF Restart, TypeOK, Others
  <2>2. Flags'
    BY <1>12, Zenon DEF Restart, TypeOK, Flags
  <2> QED
    BY <2>2, <2>4, TypeParts
<1>13. CASE UNCHANGED vars
  <2>1. Others'
    BY <1>13 DEF vars, TypeOK, Others
  <2>2. Flags'
    BY <1>13, Zenon DEF vars, TypeOK, Flags
  <2> QED
    BY <2>1, <2>2, TypeParts
<1> QED
  BY <1>1, <1>2, <1>3, <1>4, <1>5, <1>6, <1>7, <1>8, <1>9, <1>10, <1>11, <1>12, <1>13
     DEF Next, OpStep, Working

\* Every variable keeps its type, and the attempts their limit, in every run.
THEOREM TypeCorrect == Spec => []TypeOK
<1> QED
  BY TypeInit, TypeStep, PTL DEF Spec

(***************************************************************************)
(* A row that is processed is in the pipeline.                             *)
(***************************************************************************)

LEMMA RowStep == TypeOK /\ RowHandled /\ [Next]_vars => RowHandled'
<1> SUFFICES ASSUME TypeOK, RowHandled, [Next]_vars PROVE RowHandled'
  OBVIOUS
<1> USE DEF RowHandled, shown, disk, pool, user, past
<1>1. CASE Working
  BY <1>1, WorkingMoves DEF Moves, Quiet
<1>2. CASE Save \/ Dispatch \/ TakeOrphan \/ NoCertificate \/ CheckOld \/ Due
  BY <1>2 DEF Save, Dispatch, TakeOrphan, NoCertificate, CheckOld, Due
<1>3. CASE Take
  <2>1. queue \in Seq(BOOLEAN) /\ queue' = Append(queue, FALSE) /\ FALSE \in BOOLEAN
    BY <1>3, Zenon DEF Take, TypeOK
  <2>2. row' = "processed" /\ ops' > 0
    BY <1>3 DEF Take, TypeOK
  <2>3. queue' # <<>>
    BY <2>1, AppendType, Zenon
  <2> QED
    BY <2>2, <2>3
<1>4. CASE TransferFinished
  BY <1>4 DEF TransferFinished
<1>5. CASE StartOp
  BY <1>5, NewOpType DEF StartOp, At
<1>6. CASE Poll
  <2>1. CASE queue = <<>>
    BY <1>6, <2>1, GoType DEF Poll, At, TypeOK, PCs
  <2>2. CASE queue # <<>>
    <3>1. Head(queue) \in BOOLEAN
      BY <2>2, TailType, Zenon DEF TypeOK
    <3> QED
      BY <1>6, <2>2, <3>1, NewOpType DEF Poll
  <2> QED
    BY <2>1, <2>2
<1>7. CASE Skip
  BY <1>7, NewOpType DEF Skip, Quiet
<1>8. CASE Finish
  <2>1. op.verdict \in Verdicts
    BY DEF TypeOK, Operations
  <2>2. acks \in Seq(Verdicts) /\ acks' = Append(acks, op.verdict)
    BY <1>8 DEF Finish, TypeOK
  <2>3. acks' # <<>>
    BY <2>1, <2>2, AppendType
  <2> QED
    BY <1>8, <2>3, NewOpType DEF Finish
<1>9. CASE CancelInQueue
  <2>1. queue' = <<>> <=> queue = <<>>
    BY <1>9, MarkType DEF CancelInQueue, TypeOK
  <2> QED
    BY <1>9, <2>1 DEF CancelInQueue
<1>10. CASE CancelNotify
  <2>1. op'.pc = op.pc
    BY <1>10 DEF CancelNotify, TypeOK, Operations
  <2> QED
    BY <1>10, <2>1 DEF CancelNotify
<1>11. CASE CancelDelete \/ UNCHANGED vars
  BY <1>11 DEF CancelDelete, vars
<1>12. CASE Restart
  BY <1>12 DEF Restart
<1> QED
  BY <1>1, <1>2, <1>3, <1>4, <1>5, <1>6, <1>7, <1>8, <1>9, <1>10, <1>11, <1>12
     DEF Next, OpStep, Working

\* A row that is processed is in the pipeline, whatever is queued twice,
\* cancelled, retried or lost with a restart.
THEOREM RowsHandled == Spec => []RowHandled
<1>1. Init => RowHandled
  BY NewOpType DEF Init, RowHandled
<1> QED
  BY <1>1, TypeInit, TypeStep, RowStep, PTL DEF Spec

(***************************************************************************)
(* The record, the encrypted files, and what the server and the recipient  *)
(* were given.                                                             *)
(***************************************************************************)

\* Nothing was done before there is a row.
Early == sender # "done" =>
  row = "absent" /\ queue = <<>> /\ op.pc \in {"idle", "loop"} /\ rec = "none"

\* What an operation relies on where it stands.
Phases ==
  /\ rec = "done" => server
  /\ op.pc = "keys" => rec = "none"
  /\ op.pc \in {"recover", "send"} => rec # "none"
  /\ op.pc = "upload" => rec = "keys"
  /\ op.pc \in {"clean", "done"} => rec = "keys" /\ server

Announced == rec = "done" /\ server /\ (notified \/ type = "gone")

\* An upload that goes well is recorded, and announced before it is reported.
Verdict ==
  op.verdict = "ok" =>
    /\ op.pc \in {"notify", "final", "finish"} /\ rec = "done"
    /\ op.pc # "notify" => Announced

Acknowledged == \A i \in DOMAIN acks : acks[i] = "ok" => Announced

\* Each upload that the server took is recorded, or about to be, or was
\* forgotten by a restart.
Counted == stored <= restarts + (IF Taken THEN 1 ELSE 0)

Data ==
  /\ Early /\ Phases /\ Verdict /\ Acknowledged /\ Counted
  /\ Resumable /\ ReleasedMeansAnnounced

\* What a step does not take back.
Kept ==
  /\ rec = "done" => rec' = "done"
  /\ server => server'
  /\ notified => notified'
  /\ type = "gone" => type' = "gone"
  /\ rec' = "keys" => temp' \/ (rec = "keys" /\ (temp => server'))

Counts ==
  \/ stored' = stored /\ (Taken => Taken')
  \/ stored' = stored + 1 /\ op.pc = "upload" /\ op'.pc = "clean"

LEMMA AnnouncedKept == Kept /\ Announced => Announced'
  BY Zenon DEF Kept, Announced

LEMMA WorkingData ==
  ASSUME TypeOK, Phases, Verdict, Working
  PROVE  Kept /\ Counts /\ Phases' /\ Verdict'
<1> USE DEF disk, past, At
<1>0. Moves /\ DiskType'
  BY WorkingMoves, WorkingDisk
<1>1. CASE Process
  <2>1. op.pc = "popped" /\ op'.verdict = op.verdict
        /\ ((op'.pc = "keys" /\ rec = "none") \/ (op'.pc = "recover" /\ rec # "none"))
    <3>1. CASE rec = "none"
      BY <1>1, <3>1, GoType DEF Process, TypeOK, PCs
    <3>2. CASE rec # "none"
      BY <1>1, <3>2, GoType DEF Process, TypeOK, PCs
    <3> QED
      BY <3>1, <3>2
  <2>2. UNCHANGED <<type, disk, past>>
    BY <1>1 DEF Process
  <2> QED
    BY <2>1, <2>2, Zenon DEF Kept, Counts, Taken, Phases, Verdict
<1>2. CASE Abort \/ Recover
  <2>1. op.pc \in {"recover", "keys", "send"}
        /\ (op'.pc = "finish" \/ (op.pc = "recover" /\ op'.pc = "send"))
        /\ (op'.verdict = op.verdict \/ op'.verdict = "drop")
    <3>1. CASE Abort
      BY <3>1, ReportType DEF Abort, TypeOK, Verdicts
    <3>2. CASE Recover
      BY <3>2, GoType, ReportType DEF Recover, TypeOK, PCs, Verdicts
    <3> QED
      BY <1>2, <3>1, <3>2
  <2>2. UNCHANGED <<disk, past>>
    BY <1>2 DEF Abort, Recover
  <2> QED
    BY <1>0, <2>1, <2>2 DEF Kept, Counts, Taken, Phases, Verdict, Moves
<1>3. CASE DeriveKeys
  <2>0. rec = "none"
    BY <1>3 DEF DeriveKeys, Phases
  <2>1. op.pc = "keys" /\ op'.pc \in {"send", "finish"}
        /\ (op'.verdict = op.verdict \/ op'.verdict \in {"drop", "retry"})
    BY <1>3, GoType, ReportType DEF DeriveKeys, TypeOK, PCs, Verdicts
  <2>2. UNCHANGED <<server, notified, past>>
        /\ ((rec' = "keys" /\ temp') \/ (op'.pc = "finish" /\ rec' = rec))
    <3>1. (rec' = "keys" /\ temp') \/ (rec' = rec /\ (Report("retry") \/ Report("drop")))
      BY <1>3, Zenon DEF DeriveKeys
    <3>2. UNCHANGED <<server, notified, past>>
      BY <1>3 DEF DeriveKeys
    <3>3. Report("retry") \/ Report("drop") => op'.pc = "finish"
      BY ReportType DEF TypeOK, Verdicts
    <3> QED
      BY <3>1, <3>2, <3>3, Zenon
  <2> QED
    BY <1>0, <2>0, <2>1, <2>2 DEF Kept, Counts, Taken, Phases, Verdict, Moves
<1>4. CASE Send
  <2>1. op.pc = "send" /\ op'.verdict = op.verdict
        /\ ((op'.pc = "notify" /\ rec = "done") \/ (op'.pc = "upload" /\ rec # "done"))
    <3>1. CASE rec = "done"
      BY <1>4, <3>1, GoType DEF Send, TypeOK, PCs
    <3>2. CASE rec # "done"
      BY <1>4, <3>2, GoType DEF Send, TypeOK, PCs
    <3> QED
      BY <3>1, <3>2
  <2>2. UNCHANGED <<disk, past>>
    BY <1>4 DEF Send
  <2>3. rec \in {"none", "keys", "done"}
    BY DEF TypeOK
  <2> QED
    BY <1>0, <2>1, <2>2, <2>3 DEF Kept, Counts, Taken, Phases, Verdict, Moves
<1>5. CASE Upload
  <2>1. op.pc = "upload" /\ op'.pc = "clean" /\ op'.verdict = op.verdict
    BY <1>5, GoType DEF Upload, TypeOK, PCs
  <2>2. rec' = rec /\ temp' = temp /\ notified' = notified /\ server' /\ stored' = stored + 1
    BY <1>5 DEF Upload
  <2> QED
    BY <1>0, <2>1, <2>2 DEF Kept, Counts, Taken, Phases, Verdict, Moves
<1>6. CASE UploadFails \/ UploadThrows
  <2>1. op.pc = "upload" /\ op'.pc \in {"finish", "notify"}
        /\ (op'.verdict = op.verdict \/ op'.verdict \in {"drop", "retry"})
    BY <1>6, GoType, ReportType DEF UploadFails, UploadThrows, TypeOK, PCs, Verdicts
  <2>2. UNCHANGED <<rec, temp, notified, past>> /\ (server => server')
    BY <1>6, Zenon DEF UploadFails, UploadThrows, MayArrive
  <2> QED
    BY <1>0, <2>1, <2>2 DEF Kept, Counts, Taken, Phases, Verdict, Moves
<1>7. CASE Clean
  <2>1. op.pc = "clean" /\ op'.pc = "done" /\ op'.verdict = op.verdict
    BY <1>7, GoType DEF Clean, TypeOK, PCs
  <2>2. UNCHANGED <<rec, server, notified, past>>
    BY <1>7 DEF Clean
  <2> QED
    BY <1>0, <2>1, <2>2 DEF Kept, Counts, Taken, Phases, Verdict, Moves
<1>8. CASE StoreDone
  <2>1. op.pc = "done" /\ op'.pc = "notify" /\ rec' = "done"
    BY <1>8 DEF StoreDone, TypeOK, Operations
  <2>2. UNCHANGED <<temp, server, notified, past>>
    BY <1>8 DEF StoreDone
  <2> QED
    BY <1>0, <2>1, <2>2 DEF Kept, Counts, Taken, Phases, Verdict, Moves
<1>9. CASE Notify
  <2>1. op.pc = "notify" /\ op'.pc = "final" /\ op'.verdict = op.verdict
    BY <1>9, GoType DEF Notify, TypeOK, PCs
  <2>2. UNCHANGED <<type, rec, temp, server, past>>
        /\ notified' = (notified \/ (type # "gone" /\ rec = "done"))
    BY <1>9 DEF Notify
  <2>3. Verdict'
    BY <2>1, <2>2, Zenon DEF Announced, Verdict, Phases
  <2> QED
    BY <1>0, <2>1, <2>2, <2>3 DEF Kept, Counts, Taken, Phases, Verdict, Moves
<1>10. CASE Final
  <2>1. op.pc = "final" /\ op'.pc = "finish" /\ op'.verdict = op.verdict
    BY <1>10, GoType DEF Final, TypeOK, PCs
  <2>2. UNCHANGED <<disk, past>>
    BY <1>10 DEF Final
  <2>3. Kept
    BY <1>0, <2>2 DEF Kept, Moves
  <2>4. Verdict'
    BY <2>1, <2>2, <2>3, AnnouncedKept DEF Verdict, Kept
  <2> QED
    BY <2>1, <2>2, <2>3, <2>4 DEF Counts, Taken, Phases
<1> QED
  BY <1>1, <1>2, <1>3, <1>4, <1>5, <1>6, <1>7, <1>8, <1>9, <1>10 DEF Working

LEMMA WorkingStep == TypeOK /\ Data /\ Working => Data'
<1> SUFFICES ASSUME TypeOK, Data, Working PROVE Data'
  OBVIOUS
<1>1. Moves /\ Kept /\ Counts /\ Phases' /\ Verdict'
  BY WorkingMoves, WorkingData DEF Data
<1>2. UNCHANGED <<sender, row, acks, gaveup, restarts>>
  BY <1>1 DEF Moves, Quiet
<1>3. Early'
  BY <1>1, <1>2 DEF Moves, Data, Early
<1>4. Acknowledged'
  BY <1>1, <1>2, AnnouncedKept DEF Data, Acknowledged
<1>5. Counted'
  <2>1. stored \in Nat /\ restarts \in Nat
    BY DEF TypeOK
  <2>2. CASE stored' = stored /\ (Taken => Taken')
    BY <2>1, <2>2, <1>2 DEF Data, Counted
  <2>3. CASE stored' = stored + 1 /\ op.pc = "upload" /\ op'.pc = "clean"
    <3>1. ~Taken /\ Taken'
      BY <2>3 DEF Data, Phases, Taken
    <3> QED
      BY <2>1, <2>3, <3>1, <1>2 DEF Data, Counted
  <2> QED
    BY <1>1, <2>2, <2>3 DEF Counts
<1>6. Resumable'
  BY <1>1, <1>2, Zenon DEF Data, Resumable, Kept
<1>7. ReleasedMeansAnnounced'
  BY <1>1, <1>2, Zenon DEF Data, ReleasedMeansAnnounced, Kept
<1> QED
  BY <1>1, <1>3, <1>4, <1>5, <1>6, <1>7 DEF Data

\* Every other step leaves what is stored alone, but for the encrypted files;
\* the operation stays where it is, or has no entry that it works on.
Aside ==
  /\ UNCHANGED <<rec, server, notified, stored, restarts>>
  /\ Announced => Announced'
  /\ \/ op'.pc = op.pc /\ op'.verdict = op.verdict
     \/ /\ op.pc \in {"idle", "loop", "popped", "finish"}
        /\ op'.pc \in {"idle", "loop", "popped"} /\ op'.verdict # "ok"

LEMMA AsideKeeps ==
  ASSUME Phases, Verdict, Counted, Aside
  PROVE  Phases' /\ Verdict' /\ Counted'
<1>1. Phases' /\ Verdict'
  BY DEF Aside, Phases, Verdict
<1>2. Taken <=> Taken'
  BY DEF Aside, Taken
<1>3. Counted'
  BY <1>2 DEF Aside, Counted
<1> QED
  BY <1>1, <1>3

\* The steps of the user, the sender and the check of the queue.
LEMMA OutsideStep ==
  ASSUME TypeOK, Data,
         \/ Save \/ Dispatch \/ Take \/ TakeOrphan \/ NoCertificate \/ CheckOld \/ Due
         \/ CancelInQueue \/ CancelNotify \/ CancelDelete \/ UNCHANGED vars
  PROVE  Data'
<1> USE DEF shown, disk, pool, user, past
<1>0. op' = op \/ CancelNotify
  BY DEF Save, Dispatch, Take, TakeOrphan, NoCertificate, CheckOld, Due, CancelInQueue,
     CancelDelete, vars
<1>1. op'.pc = op.pc /\ op'.verdict = op.verdict
  BY <1>0 DEF CancelNotify, TypeOK, Operations
<1>2. UNCHANGED <<disk, stored, restarts, acks>>
  BY DEF Save, Dispatch, Take, TakeOrphan, NoCertificate, CheckOld, Due, CancelInQueue,
     CancelNotify, CancelDelete, vars
<1>3. CASE Save
  <2>1. UNCHANGED <<row, queue, gaveup>> /\ sender = "idle" /\ sender' = "saved"
    BY <1>3 DEF Save
  <2>2. rec = "none"
    BY <2>1 DEF Data, Early
  <2>3. Aside
    BY <1>1, <1>2, <2>2 DEF Aside, Announced
  <2>4. Phases' /\ Verdict' /\ Counted'
    BY <2>3, AsideKeeps DEF Data
  <2>5. Early' /\ Acknowledged' /\ Resumable' /\ ReleasedMeansAnnounced'
    BY <1>1, <1>2, <2>1, <2>2, <2>3
       DEF Aside, Data, Early, Acknowledged, Resumable, ReleasedMeansAnnounced
  <2> QED
    BY <2>4, <2>5 DEF Data
<1>4. CASE ~Save
  <2>1. type' = type \/ type' = "gone"
    BY <1>4 DEF Dispatch, Take, TakeOrphan, NoCertificate, CheckOld, Due, CancelInQueue,
       CancelNotify, CancelDelete, vars
  <2>2. Aside
    BY <1>1, <1>2, <2>1 DEF Aside, Announced
  <2>3. Phases' /\ Verdict' /\ Counted'
    BY <2>2, AsideKeeps DEF Data
  <2>4. Acknowledged'
    BY <1>2, <2>2 DEF Aside, Data, Acknowledged
  <2>5. CASE Dispatch
    <3>1. rec = "none" /\ sender' = "done" /\ row' = "waiting"
      BY <2>5 DEF Dispatch, Data, Early
    <3> QED
      BY <1>2, <3>1, <2>3, <2>4 DEF Data, Early, Resumable, ReleasedMeansAnnounced
  <2>6. CASE UNCHANGED <<sender, row, queue, gaveup>>
    BY <1>1, <1>2, <2>1, <2>3, <2>4, <2>6 DEF Data, Early, Resumable, ReleasedMeansAnnounced
  <2>7. CASE NoCertificate
    <3>1. row = "waiting" /\ row' = "absent" /\ gaveup' /\ UNCHANGED <<sender, queue>>
      BY <2>7 DEF NoCertificate
    <3> QED
      BY <1>1, <1>2, <2>3, <2>4, <3>1 DEF Data, Early, Resumable, ReleasedMeansAnnounced
  <2>8. CASE Take \/ TakeOrphan \/ CheckOld \/ Due
    <3>1. row # "absent" /\ row' # "absent" /\ sender' = sender
      BY <2>8 DEF Take, TakeOrphan, CheckOld, Due
    <3> QED
      BY <1>1, <1>2, <2>3, <2>4, <3>1 DEF Data, Early, Resumable, ReleasedMeansAnnounced
  <2>9. CASE CancelInQueue
    <3>1. UNCHANGED <<sender, row, gaveup>> /\ (queue = <<>> => queue' = <<>>)
      BY <2>9 DEF CancelInQueue
    <3> QED
      BY <1>1, <1>2, <2>1, <2>3, <2>4, <3>1 DEF Data, Early, Resumable, ReleasedMeansAnnounced
  <2>10. CASE CancelNotify \/ CancelDelete \/ UNCHANGED vars
    BY <2>6, <2>10 DEF CancelNotify, CancelDelete, vars
  <2> QED
    BY <1>4, <2>5, <2>7, <2>8, <2>9, <2>10
<1> QED
  BY <1>3, <1>4

\* The steps of the operation between two entries.
LEMMA IdleStep == TypeOK /\ Data /\ (StartOp \/ Poll \/ Skip) => Data'
<1> SUFFICES ASSUME TypeOK, Data, StartOp \/ Poll \/ Skip PROVE Data'
  OBVIOUS
<1> USE DEF shown, disk, pool, user, past
<1>1. op.pc \in {"idle", "loop", "popped"}
      /\ op'.pc \in {"idle", "loop", "popped"} /\ op'.verdict # "ok"
  <2>1. CASE StartOp \/ Skip
    BY <2>1, NewOpType DEF StartOp, Skip, At
  <2>2. CASE Poll
    <3>1. CASE queue = <<>>
      <4>1. op.pc = "loop" /\ op.verdict # "ok"
        BY <2>2 DEF Poll, At, Data, Verdict
      <4> QED
        BY <2>2, <3>1, <4>1, GoType DEF Poll, TypeOK, PCs
    <3>2. CASE queue # <<>>
      <4>1. Head(queue) \in BOOLEAN
        BY <3>2, TailType, Zenon DEF TypeOK
      <4> QED
        BY <2>2, <3>2, <4>1, NewOpType DEF Poll, At
    <3> QED
      BY <3>1, <3>2
  <2> QED
    BY <2>1, <2>2
<1>2. UNCHANGED <<disk, sender, row, acks, gaveup, stored, restarts>>
  BY DEF StartOp, Poll, Skip, Quiet
<1>3. type' = type \/ type' = "gone"
  BY DEF StartOp, Poll, Skip
<1>4. Aside
  BY <1>1, <1>2, <1>3 DEF Aside, Announced
<1>5. Phases' /\ Verdict' /\ Counted'
  BY <1>4, AsideKeeps DEF Data
<1>6. Early'
  <2>1. sender # "done" => op'.pc \in {"idle", "loop"} /\ queue' = <<>>
    <3>1. CASE StartOp
      BY <3>1, NewOpType DEF StartOp, Data, Early
    <3>2. CASE Poll
      BY <3>2, GoType DEF Poll, TypeOK, PCs, Data, Early
    <3>3. CASE Skip
      BY <3>3 DEF Skip, At, Data, Early
    <3> QED
      BY <3>1, <3>2, <3>3
  <2> QED
    BY <1>2, <2>1 DEF Data, Early
<1>7. Acknowledged'
  BY <1>2, <1>4 DEF Aside, Data, Acknowledged
<1>8. Resumable' /\ ReleasedMeansAnnounced'
  BY <1>2, <1>3 DEF Data, Resumable, ReleasedMeansAnnounced
<1> QED
  BY <1>5, <1>6, <1>7, <1>8 DEF Data

\* The report, and what the message manager makes of it.
LEMMA ReportStep == TypeOK /\ Data /\ (Finish \/ TransferFinished) => Data'
<1> SUFFICES ASSUME TypeOK, Data, Finish \/ TransferFinished PROVE Data'
  OBVIOUS
<1> USE DEF shown, disk, pool, user, past
<1>1. CASE Finish
  <2>1. op.pc = "finish" /\ op.verdict \in Verdicts /\ op'.pc = "loop" /\ op'.verdict # "ok"
    BY <1>1, NewOpType DEF Finish, At, TypeOK, Operations
  <2>2. UNCHANGED <<type, disk, sender, row, queue, gaveup, stored, restarts>>
    BY <1>1 DEF Finish
  <2>3. Aside
    BY <2>1, <2>2 DEF Aside, Announced
  <2>4. Phases' /\ Verdict' /\ Counted'
    BY <2>3, AsideKeeps DEF Data
  <2>5. Acknowledged'
    <3>1. op.verdict = "ok" => Announced
      BY <2>1 DEF Data, Verdict
    <3>2. acks \in Seq(Verdicts) /\ acks' = Append(acks, op.verdict)
      BY <1>1 DEF Finish, TypeOK
    <3>3. \A i \in DOMAIN acks' : acks'[i] = op.verdict \/ (i \in DOMAIN acks /\ acks'[i] = acks[i])
      BY <2>1, <3>2, AppendType
    <3> QED
      BY <3>1, <3>3, <2>3 DEF Aside, Data, Acknowledged
  <2>6. Early' /\ Resumable' /\ ReleasedMeansAnnounced'
    BY <2>1, <2>2 DEF Data, Early, Resumable, ReleasedMeansAnnounced
  <2> QED
    BY <2>4, <2>5, <2>6 DEF Data
<1>2. CASE TransferFinished
  <2>1. UNCHANGED <<type, sender, rec, server, notified, queue, op, stored, restarts>>
    BY <1>2 DEF TransferFinished
  <2>2. Aside
    BY <2>1 DEF Aside, Announced
  <2>3. Phases' /\ Verdict' /\ Counted'
    BY <2>2, AsideKeeps DEF Data
  <2>4. acks \in Seq(Verdicts) /\ acks # <<>> /\ acks' = Tail(acks)
    BY <1>2 DEF TransferFinished, TypeOK
  <2>5. Acknowledged'
    <3>1. \A i \in DOMAIN acks' : i + 1 \in DOMAIN acks /\ acks'[i] = acks[i + 1]
      BY <2>4, TailType
    <3> QED
      BY <3>1, <2>2 DEF Aside, Data, Acknowledged
  <2>6. Head(acks) = "ok" => Announced
    BY <2>4, TailType DEF Data, Acknowledged
  <2>7. row = "absent" => row' = "absent" /\ (gaveup => gaveup')
    BY <1>2, Zenon DEF TransferFinished
  <2>8. Early'
    BY <2>1, <2>7 DEF Data, Early
  <2>9. Resumable'
    <3>1. row' # "absent" => row # "absent" /\ Head(acks) = "retry"
      BY <1>2, Zenon DEF TransferFinished
    <3>2. row # "absent" /\ Head(acks) = "retry" => temp' = temp
      BY <1>2 DEF TransferFinished, TypeOK
    <3> QED
      BY <2>1, <3>1, <3>2 DEF Data, Resumable
  <2>10. ReleasedMeansAnnounced'
    <3>1. row' = "absent" /\ ~gaveup' => ~gaveup /\ (row = "absent" \/ Head(acks) = "ok")
      BY <1>2 DEF TransferFinished
    <3> QED
      BY <2>1, <2>6, <3>1 DEF Data, ReleasedMeansAnnounced, Announced
  <2> QED
    BY <2>3, <2>5, <2>8, <2>9, <2>10 DEF Data
<1> QED
  BY <1>1, <1>2

LEMMA RestartStep == TypeOK /\ Data /\ Restart => Data'
<1> SUFFICES ASSUME TypeOK, Data, Restart PROVE Data'
  OBVIOUS
<1>1. op'.pc = "idle" /\ op'.verdict = "drop"
  BY NewOpType DEF Restart
<1>2. /\ UNCHANGED <<type, rec, temp, server, notified, gaveup, stored>>
      /\ queue' = <<>> /\ acks' = <<>> /\ restarts' = restarts + 1
      /\ (sender' = "done" => sender = "done") /\ (row' = "absent" <=> row = "absent")
      /\ (sender = "done" => sender' = "done")
  BY DEF Restart, disk
<1>3. Counted'
  <2>1. stored \in Nat /\ restarts \in Nat /\ stored <= restarts + 1
    BY DEF TypeOK, Data, Counted
  <2> QED
    BY <1>2, <2>1 DEF Counted
<1>4. Early' /\ Phases' /\ Verdict' /\ Acknowledged'
  BY <1>1, <1>2 DEF Data, Early, Phases, Verdict, Acknowledged
<1>5. Resumable' /\ ReleasedMeansAnnounced'
  BY <1>2 DEF Data, Resumable, ReleasedMeansAnnounced
<1> QED
  BY <1>3, <1>4, <1>5 DEF Data

LEMMA DataStep == TypeOK /\ Data /\ [Next]_vars => Data'
  BY WorkingStep, OutsideStep, IdleStep, ReportStep, RestartStep DEF Next, OpStep, Working

LEMMA DataInit == Init => Data
<1> SUFFICES ASSUME Init PROVE Data
  OBVIOUS
<1>1. op.pc = "idle" /\ op.verdict = "drop" /\ rec = "none" /\ row = "absent"
      /\ sender = "idle" /\ queue = <<>> /\ acks = <<>>
  BY NewOpType DEF Init
<1>2. Early /\ Phases /\ Verdict /\ Acknowledged
  BY <1>1 DEF Early, Phases, Verdict, Acknowledged
<1>3. Counted
  BY <1>1 DEF Init, Counted, Taken
<1>4. Resumable /\ ReleasedMeansAnnounced
  BY <1>1 DEF Resumable, ReleasedMeansAnnounced
<1> QED
  BY <1>2, <1>3, <1>4 DEF Data

LEMMA DataAlways == Spec => [](TypeOK /\ Data)
  BY TypeInit, DataInit, TypeStep, DataStep, PTL DEF Spec

\* The server takes the files at most once per run of the application.
THEOREM UploadedOnce == Spec => []StoredOnce
<1>1. TypeOK /\ Data => StoredOnce
  BY DEF TypeOK, Data, Counted, StoredOnce
<1> QED
  BY <1>1, DataAlways, PTL

\* What an attempt needs that derives no keys is there.
THEOREM Resumes == Spec => []Resumable
<1>1. TypeOK /\ Data => Resumable
  BY DEF Data
<1> QED
  BY <1>1, DataAlways, PTL

\* A row is released, unless for a failure, when the files are stored and
\* the recipient was told.
THEOREM AnnouncedWhenReleased == Spec => []ReleasedMeansAnnounced
<1>1. TypeOK /\ Data => ReleasedMeansAnnounced
  BY DEF Data
<1> QED
  BY <1>1, DataAlways, PTL

-----------------------------------------------------------------------------
(***************************************************************************)
(* The upload implements a delivery.                                       *)
(***************************************************************************)

DeliveryStep == [Transfer!Next]_(Transfer!vars)

Gone == type = "gone"

\* A step that the delivery does not see.
LEMMA Unseen ==
  ASSUME UNCHANGED <<Request, rec, server, Taken, notified, Gone>>
  PROVE  DeliveryStep
BY DEF DeliveryStep, Transfer!vars, Gone

\* A step of the operation leaves the request alone, and the message there.
LEMMA WorkingRequest ==
  ASSUME TypeOK, Data, Working
  PROVE  /\ UNCHANGED <<Request, Gone>>
         /\ Request # "none"
<1>1. Moves BY WorkingMoves
<1>2. UNCHANGED <<sender, row, gaveup>> /\ op.pc \notin {"idle", "loop"}
  BY <1>1 DEF Moves, Quiet
<1>3. sender = "done" BY <1>2 DEF Data, Early
<1>4. \A t \in Types \ {"gone"} : Show(t) => (type' = "gone" <=> type = "gone")
  BY DEF Show
<1>5. type' = type \/ \E t \in Types \ {"gone"} : Show(t)
  BY DEF Working, Process, Abort, Recover, DeriveKeys, Send, Upload, UploadFails, UploadThrows,
    Clean, StoreDone, Notify, Final, Types
<1>6. Gone' = Gone BY <1>4, <1>5 DEF Gone
<1> QED BY <1>2, <1>3, <1>6 DEF Request

LEMMA WorkingDelivers == ASSUME TypeOK, Data, Working PROVE DeliveryStep
<1> USE DEF disk, past, At
<1>0. Moves /\ UNCHANGED <<Request, Gone>> /\ Request # "none" /\ Phases
  BY WorkingMoves, WorkingRequest DEF Data
<1>1. CASE Process \/ Abort \/ Recover \/ Send \/ Final
  <2>1. UNCHANGED <<rec, server, notified>>
    BY <1>1 DEF Process, Abort, Recover, Send, Final
  <2>2. op.pc \notin {"clean", "done"}
    BY <1>1 DEF Process, Abort, Recover, Send, Final
  <2>3. op'.pc \notin {"clean", "done"}
    BY <1>1, GoType, ReportType DEF Process, Abort, Recover, Send, Final, TypeOK, PCs, Verdicts
  <2> QED BY <1>0, <2>1, <2>2, <2>3, Unseen DEF Taken
<1>2. CASE DeriveKeys
  <2>1. UNCHANGED <<server, notified>> /\ op.pc = "keys" /\ rec = "none"
    BY <1>0, <1>2 DEF DeriveKeys, Phases
  <2>2. op'.pc \in {"send", "finish"}
    BY <1>2, GoType, ReportType DEF DeriveKeys, TypeOK, PCs, Verdicts
  <2>3. rec' = "keys" \/ rec' = rec BY <1>2, Zenon DEF DeriveKeys
  <2>4. ~Taken /\ Taken' = Taken BY <2>1, <2>2, <2>3 DEF Taken
  <2>5. CASE rec' = "keys"
    <3>1. Transfer!Prepare BY <1>0, <2>1, <2>4, <2>5 DEF Transfer!Prepare, Gone
    <3> QED BY <3>1 DEF DeliveryStep, Transfer!Next
  <2>6. CASE rec' = rec BY <1>0, <2>1, <2>4, <2>6, Unseen
  <2> QED BY <2>3, <2>5, <2>6
<1>3. CASE Upload
  <2>1. op.pc = "upload" /\ op'.pc = "clean" BY <1>3, GoType DEF Upload, TypeOK, PCs
  <2>2. UNCHANGED <<rec, notified>> /\ server' = TRUE BY <1>3 DEF Upload
  <2>3. rec = "keys" BY <1>0, <2>1 DEF Phases
  <2>4. Transfer!Acknowledge
    BY <1>0, <2>1, <2>2, <2>3 DEF Transfer!Acknowledge, Taken, Gone
  <2> QED BY <2>4 DEF DeliveryStep, Transfer!Next
<1>4. CASE UploadFails \/ UploadThrows
  <2>1. op.pc = "upload" /\ op'.pc \in {"finish", "notify"}
    BY <1>4, GoType, ReportType DEF UploadFails, UploadThrows, TypeOK, PCs, Verdicts
  <2>2. UNCHANGED <<rec, notified>> BY <1>4 DEF UploadFails, UploadThrows
  <2>3. rec = "keys" BY <1>0, <2>1 DEF Phases
  <2>4. ~Taken /\ Taken' = Taken BY <2>1, <2>2, <2>3 DEF Taken
  <2>5. CASE server' = server BY <1>0, <2>2, <2>4, <2>5, Unseen DEF Taken
  <2>6. CASE server' # server
    <3>1. server' = (server \/ temp) BY <1>4, <2>6, Zenon DEF UploadFails, UploadThrows, MayArrive
    <3>2. server' BY <2>6, <3>1, Zenon DEF TypeOK
    <3>3. Transfer!Arrive BY <1>0, <2>2, <2>3, <2>4, <3>2 DEF Transfer!Arrive, Gone
    <3> QED BY <3>3 DEF DeliveryStep, Transfer!Next
  <2> QED BY <2>5, <2>6
<1>5. CASE Clean
  <2>1. op.pc = "clean" /\ op'.pc = "done" BY <1>5, GoType DEF Clean, TypeOK, PCs
  <2>2. UNCHANGED <<rec, server, notified>> BY <1>5 DEF Clean
  <2> QED BY <1>0, <2>1, <2>2, Unseen DEF Taken
<1>6. CASE StoreDone
  <2>1. op.pc = "done" /\ rec = "keys" BY <1>0, <1>6 DEF StoreDone, Phases
  <2>2. UNCHANGED <<server, notified>> /\ rec' = "done" BY <1>6 DEF StoreDone
  <2>3. Transfer!Record BY <1>0, <2>1, <2>2 DEF Transfer!Record, Taken, Gone
  <2> QED BY <2>3 DEF DeliveryStep, Transfer!Next
<1>7. CASE Notify
  <2>1. op.pc = "notify" /\ op'.pc = "final" BY <1>7, GoType DEF Notify, TypeOK, PCs
  <2>2. UNCHANGED <<rec, server>> /\ notified' = (notified \/ (type # "gone" /\ rec = "done"))
    BY <1>7 DEF Notify
  <2>3. Taken' = Taken BY <2>1, <2>2 DEF Taken
  <2>4. CASE type # "gone" /\ rec = "done"
    <3>1. Transfer!Announce BY <1>0, <2>2, <2>3, <2>4 DEF Transfer!Announce, Gone, Phases
    <3> QED BY <3>1 DEF DeliveryStep, Transfer!Next
  <2>5. CASE ~(type # "gone" /\ rec = "done")
    <3>1. notified' = notified BY <2>2, <2>5, Zenon DEF TypeOK
    <3> QED BY <1>0, <2>2, <2>3, <3>1, Unseen
  <2> QED BY <2>4, <2>5
<1> QED BY <1>1, <1>2, <1>3, <1>4, <1>5, <1>6, <1>7 DEF Working

\* Nothing is cancelled before the message is there.
Unsent == sender = "idle" => type = "none" /\ ui = "idle"

LEMMA UnsentInit == Init => Unsent
BY DEF Init, Unsent

LEMMA UnsentStep == TypeOK /\ Data /\ Unsent /\ [Next]_vars => Unsent'
<1> SUFFICES ASSUME TypeOK, Data, Unsent, [Next]_vars, sender' = "idle"
             PROVE  type' = "none" /\ ui' = "idle"
  BY DEF Unsent
<1> USE DEF shown, disk, pool, user, past, Quiet
<1>1. sender = "idle"
  BY WorkingMoves DEF Next, OpStep, Working, Moves, vars, Save, Dispatch, Take, TakeOrphan,
    NoCertificate, CheckOld, TransferFinished, Due, StartOp, Poll, Skip, Finish, CancelInQueue,
    CancelNotify, CancelDelete, Restart
<1>2. row = "absent" /\ op.pc \in {"idle", "loop"} /\ type = "none" /\ ui = "idle"
  BY <1>1 DEF Data, Early, Unsent
<1>3. ~Working BY <1>2, WorkingMoves DEF Moves
<1>4. ~Skip BY <1>2 DEF Skip, At
<1> QED
  BY <1>2, <1>3, <1>4 DEF Next, OpStep, Working, vars, Save, Dispatch, Take, TakeOrphan,
    NoCertificate, CheckOld, TransferFinished, Due, StartOp, Poll, Finish, CancelInQueue,
    CancelNotify, CancelDelete, Restart

\* The steps of the sender, the user and the message manager, and the others of
\* the operation.
LEMMA OthersDeliver ==
  ASSUME TypeOK, Data, Unsent,
         \/ Save \/ Dispatch \/ Take \/ TakeOrphan \/ NoCertificate \/ CheckOld \/ Due
         \/ StartOp \/ Poll \/ Skip \/ Finish
         \/ CancelInQueue \/ CancelNotify \/ CancelDelete \/ UNCHANGED vars
  PROVE  DeliveryStep
<1> USE DEF shown, disk, pool, user, past, Quiet
<1>1. UNCHANGED <<rec, server, notified>>
  BY DEF Save, Dispatch, Take, TakeOrphan, NoCertificate, CheckOld, Due, StartOp, Poll, Skip,
    Finish, CancelInQueue, CancelNotify, CancelDelete, vars
<1>2. Taken' = Taken
  <2>1. CASE StartOp \/ Skip \/ Finish
    BY <1>1, <2>1, NewOpType DEF StartOp, Skip, Finish, At, Taken
  <2>2. CASE Poll
    <3>1. CASE queue = <<>> BY <1>1, <2>2, <3>1, GoType DEF Poll, At, Taken, TypeOK, PCs
    <3>2. CASE queue # <<>>
      <4>1. Head(queue) \in BOOLEAN BY <3>2, TailType, Zenon DEF TypeOK
      <4> QED BY <1>1, <2>2, <3>2, <4>1, NewOpType DEF Poll, At, Taken
    <3> QED BY <3>1, <3>2
  <2>3. CASE CancelNotify
    <3>1. op'.pc = op.pc BY <2>3 DEF CancelNotify, TypeOK, Operations
    <3> QED BY <1>1, <3>1 DEF Taken
  <2>4. CASE \/ Save \/ Dispatch \/ Take \/ TakeOrphan \/ NoCertificate \/ CheckOld \/ Due
             \/ CancelInQueue \/ CancelDelete \/ UNCHANGED vars
    BY <1>1, <2>4 DEF Save, Dispatch, Take, TakeOrphan, NoCertificate, CheckOld, Due,
      CancelInQueue, CancelDelete, vars, Taken
  <2> QED BY <2>1, <2>2, <2>3, <2>4
<1>3. CASE Dispatch
  <2>1. Request = "none" /\ Request' = "open" /\ Gone' = Gone
    BY <1>3 DEF Dispatch, Request, Gone
  <2>2. Transfer!Open BY <1>1, <1>2, <2>1 DEF Transfer!Open, Gone
  <2> QED BY <2>2 DEF DeliveryStep, Transfer!Next
<1>4. CASE NoCertificate
  <2>1. Request = "open" /\ Request' = "failed" /\ Gone' = Gone
    BY <1>4 DEF NoCertificate, Request, Gone, Data, Early
  <2>2. Transfer!Fail BY <1>1, <1>2, <2>1 DEF Transfer!Fail, Gone
  <2> QED BY <2>2 DEF DeliveryStep, Transfer!Next
<1>5. CASE \/ Save \/ Take \/ TakeOrphan \/ CheckOld \/ Due \/ StartOp \/ Poll \/ Skip \/ Finish
           \/ CancelInQueue \/ CancelNotify \/ CancelDelete \/ UNCHANGED vars
  <2>1. Request' = Request
    <3>1. CASE Take \/ TakeOrphan \/ CheckOld \/ Due
      BY <3>1 DEF Take, TakeOrphan, CheckOld, Due, Request
    <3>2. CASE Save BY <3>2 DEF Save, Request
    <3>3. CASE \/ StartOp \/ Poll \/ Skip \/ Finish
               \/ CancelInQueue \/ CancelNotify \/ CancelDelete \/ UNCHANGED vars
      <4>1. UNCHANGED <<sender, row, gaveup>>
        BY <3>3 DEF StartOp, Poll, Skip, Finish, CancelInQueue, CancelNotify, CancelDelete, vars
      <4> QED BY <4>1 DEF Request
    <3> QED BY <1>5, <3>1, <3>2, <3>3
  <2>2. CASE Gone' = Gone BY <1>1, <1>2, <2>1, <2>2, Unseen
  <2>3. CASE Gone' # Gone
    <3>1. type' = "gone"
      <4>1. type' = type \/ type' = "gone" \/ Save
        BY <1>5 DEF Take, TakeOrphan, CheckOld, Due, StartOp, Poll, Skip, Finish,
          CancelInQueue, CancelNotify, CancelDelete, vars
      <4>2. CASE Save
        <5>1. type = "none" BY <4>2 DEF Save, Unsent
        <5> QED BY <4>2, <5>1, <2>3 DEF Save, Gone
      <4> QED BY <4>1, <4>2, <2>3 DEF Gone
    <3>2. Transfer!Withdraw BY <1>1, <1>2, <2>1, <3>1 DEF Transfer!Withdraw
    <3> QED BY <3>2 DEF DeliveryStep, Transfer!Next
  <2> QED BY <2>2, <2>3
<1> QED BY <1>3, <1>4, <1>5

\* A report closes the request only for an upload that was announced.
LEMMA ReportDelivers == ASSUME TypeOK, Data, TransferFinished PROVE DeliveryStep
<1>1. UNCHANGED <<type, sender, rec, server, notified, op>>
  BY DEF TransferFinished, shown
<1>2. Taken' = Taken /\ Gone' = Gone BY <1>1 DEF Taken, Gone
<1>3. acks \in Seq(Verdicts) /\ acks # <<>> BY DEF TransferFinished, TypeOK
<1>4. Head(acks) = "ok" => Announced BY <1>3, TailType DEF Data, Acknowledged
<1>5. CASE row = "absent"
  <2>1. row' = "absent" /\ gaveup' = gaveup
    BY <1>5, Zenon DEF TransferFinished, TypeOK
  <2> QED BY <1>1, <1>2, <1>5, <2>1, Unseen DEF Request
<1>6. CASE row # "absent"
  <2>1. sender = "done" BY <1>6 DEF Data, Early
  <2>2. CASE row' # "absent"
    BY <1>1, <1>2, <1>6, <2>1, <2>2, Unseen DEF Request
  <2>3. CASE row' = "absent"
    <3>1. Request = "open" /\ Request' \in {"failed", "closed"}
      BY <1>1, <1>6, <2>1, <2>3 DEF Request
    <3>2. CASE Request' = "failed"
      <4>1. Transfer!Fail BY <1>1, <1>2, <3>1, <3>2 DEF Transfer!Fail, Gone
      <4> QED BY <4>1 DEF DeliveryStep, Transfer!Next
    <3>3. CASE Request' = "closed"
      <4>1. ~gaveup' BY <1>1, <2>1, <2>3, <3>3 DEF Request
      <4>2. row' = "absent" => gaveup' = (gaveup \/ (row # "absent" /\ Head(acks) # "ok"))
        BY <1>6, Zenon DEF TransferFinished
      <4>3. Head(acks) = "ok" BY <1>6, <2>3, <4>1, <4>2, Zenon
      <4>4. Transfer!Close
        BY <1>1, <1>2, <1>4, <3>1, <3>3, <4>3 DEF Transfer!Close, Announced, Gone
      <4> QED BY <4>4 DEF DeliveryStep, Transfer!Next
    <3> QED BY <3>1, <3>2, <3>3
  <2> QED BY <2>2, <2>3
<1> QED BY <1>5, <1>6

LEMMA RestartDelivers == ASSUME TypeOK, Data, Restart PROVE DeliveryStep
<1>1. op'.pc = "idle" BY NewOpType DEF Restart
<1>2. UNCHANGED <<type, rec, server, notified, gaveup>> /\ (row' = "absent" <=> row = "absent")
  BY DEF Restart, disk
<1>3. sender' = "done" <=> sender = "done" BY DEF Restart
<1>4. Request' = Request /\ Gone' = Gone BY <1>2, <1>3 DEF Request, Gone
<1>5. Taken' = (rec = "done") BY <1>1, <1>2 DEF Taken
<1>6. Transfer!Forget BY <1>2, <1>4, <1>5 DEF Transfer!Forget, Gone
<1> QED BY <1>6 DEF DeliveryStep, Transfer!Next

LEMMA StepDelivers == TypeOK /\ Data /\ Unsent /\ [Next]_vars => [Transfer!Next]_(Transfer!vars)
BY WorkingDelivers, OthersDeliver, ReportDelivers, RestartDelivers
   DEF Next, OpStep, Working, DeliveryStep

LEMMA InitDelivers == Init => Transfer!Init
<1> SUFFICES ASSUME Init PROVE Transfer!Init
  OBVIOUS
<1>1. op.pc = "idle" /\ rec = "none" /\ sender = "idle" /\ type = "none"
      /\ server = FALSE /\ notified = FALSE
  BY NewOpType DEF Init
<1> QED BY <1>1 DEF Transfer!Init, Taken, Request

(***************************************************************************)
(* Whatever entries, reports and runs of the application overlap: files    *)
(* are stored, recorded, announced and released in this order, stored only *)
(* once unless a restart forgot it, and nothing of it is taken back.       *)
(***************************************************************************)
THEOREM Implements == Spec => ImplementsDelivery
BY InitDelivers, StepDelivers, DataAlways, UnsentInit, UnsentStep, PTL DEF Spec, ImplementsDelivery, Transfer!Spec
=============================================================================
