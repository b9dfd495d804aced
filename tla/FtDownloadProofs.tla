-------------------------- MODULE FtDownloadProofs --------------------------
(***************************************************************************)
(* Proofs about FtDownload, for any requests, retries, cancellations and   *)
(* crashes.                                                                *)
(***************************************************************************)
EXTENDS FtDownload, TLAPS

\* An operation that polled an entry works for a request.
OpEntry == op.pc \notin {"idle", "loop"} => op.cur.req \in Requests

\* The record that an operation changes is there.
Holding == {"delete", "deleteKey", "dropKey", "getMeta", "metaType", "decide",
            "getPack", "unpack", "packRecord", "packType", "clean"}
OpRecord == op.pc \in Holding => op.rec \in DOMAIN recs

Typed == TypeOK /\ OpEntry /\ OpRecord

(***************************************************************************)
(* Types                                                                   *)
(***************************************************************************)

LEMMA NewOpType == NewOp \in Operations /\ NewOp.pc = "idle" /\ NewOp.rec = 0
  BY DEF NewOp, Entry, Operations, PCs, Verdicts

LEMMA LoopType ==
  LET o == [NewOp EXCEPT !.pc = "loop"]
  IN o \in Operations /\ o.pc = "loop" /\ o.rec = 0
  BY DEF NewOp, Entry, Operations, PCs, Verdicts

LEMMA RecordTypes ==
  /\ \A b \in BOOLEAN : [NewRecord EXCEPT !.c = b] \in Records
  /\ \A r \in Records : /\ [r EXCEPT !.meta = TRUE] \in Records
                        /\ [r EXCEPT !.deleted = TRUE] \in Records
                        /\ [r EXCEPT !.pack = TRUE, !.c = FALSE] \in Records
  BY DEF Records, NewRecord

LEMMA TailType ==
  ASSUME NEW S, NEW s \in Seq(S), s # <<>>
  PROVE  Head(s) \in S /\ Tail(s) \in Seq(S)
  OBVIOUS

LEMMA AppendType ==
  ASSUME NEW S, NEW s \in Seq(S), NEW e \in S
  PROVE  Append(s, e) \in Seq(S)
  OBVIOUS

LEMMA AppendRecord ==
  ASSUME NEW s \in Seq(Records), NEW r \in Records
  PROVE  Append(s, r) \in Seq(Records) /\ Len(Append(s, r)) = Len(s) + 1
  OBVIOUS

LEMMA ChangeRecord ==
  ASSUME NEW s \in Seq(Records), NEW n \in DOMAIN s, NEW r \in Records
  PROVE  [s EXCEPT ![n] = r] \in Seq(Records) /\ Len([s EXCEPT ![n] = r]) = Len(s)
  OBVIOUS

\* Everything has its type at the start.
LEMMA TypeInit == Init => Typed
<1> SUFFICES ASSUME Init PROVE Typed
  OBVIOUS
<1>1. op \in Operations /\ op.rec = 0 /\ op.pc = "idle"
  BY NewOpType DEF Init
<1>2. key \in BOOLEAN /\ server \in BOOLEAN /\ file \in BOOLEAN /\ found \in BOOLEAN
      /\ orphaned \in BOOLEAN
  BY Zenon DEF Init
<1> QED
  BY <1>1, <1>2, DownloadAssumption DEF Init, Typed, TypeOK, OpEntry, OpRecord, Holding, Types

\* A step of an operation that works for an entry and goes on to.
OpMoves ==
  /\ op.pc \notin {"idle", "loop"} /\ op'.pc \notin {"idle", "loop"}
  /\ op' \in Operations /\ op'.cur = op.cur
  /\ recs' \in Seq(Records) /\ op'.rec <= Len(recs')
  /\ op'.pc \in Holding => op'.rec >= 1
  /\ type' \in Types
  /\ key' \in BOOLEAN /\ server' \in BOOLEAN /\ file' \in BOOLEAN
  /\ Quiet

\* Such a step keeps the types and the place of every row.
LEMMA MovesKeep ==
  ASSUME Typed, OpMoves
  PROVE  Typed' /\ (RowHandled => RowHandled')
<1> USE DEF OpMoves, Quiet, pool, user, past
<1>1. TypeOK'
  BY DEF Typed, TypeOK
<1>2. OpEntry'
  BY DEF Typed, OpEntry
<1>3. OpRecord'
  BY DEF Typed, OpRecord, Operations
<1>4. ASSUME RowHandled PROVE RowHandled'
  BY <1>4 DEF RowHandled, InQueue, InAcks, InOperation
<1> QED
  BY <1>1, <1>2, <1>3, <1>4 DEF Typed

\* The outcomes of a failure.
LEMMA FailureType ==
  ASSUME Typed, NEW o \in Operations,
         FailForNow(o) \/ \E t \in {"fail", "ready"} : FailForGood(o, t)
  PROVE  /\ op' \in Operations /\ op'.cur = o.cur /\ op'.rec = o.rec
         /\ op'.pc = "finish" /\ type' \in Types /\ server' \in BOOLEAN
<1>1. CASE FailForNow(o)
  <2>1. op' = [o EXCEPT !.pc = "finish", !.verdict = "retry"]
    BY <1>1 DEF FailForNow
  <2>2. server' \in BOOLEAN
    BY <1>1, Zenon DEF FailForNow, Typed, TypeOK
  <2>3. type' \in Types
    BY <1>1 DEF FailForNow, FinalOKType, Types
  <2> QED
    BY <2>1, <2>2, <2>3 DEF Operations, PCs, Verdicts
<1>2. ASSUME NEW t \in {"fail", "ready"}, FailForGood(o, t)
      PROVE  /\ op' \in Operations /\ op'.cur = o.cur /\ op'.rec = o.rec
             /\ op'.pc = "finish" /\ type' \in Types /\ server' \in BOOLEAN
  <2>1. PICK v \in Verdicts : op' = [o EXCEPT !.pc = "finish", !.verdict = v]
    <3>1. CASE o.deleted
      BY <1>2, <3>1, o.verdict \in Verdicts,
         op' = [o EXCEPT !.pc = "finish", !.verdict = o.verdict] DEF FailForGood, Operations
    <3>2. CASE ~o.deleted
      BY <1>2, <3>2 DEF FailForGood, Verdicts
    <3> QED
      BY <3>1, <3>2
  <2>2. server' \in BOOLEAN
    BY <1>2, Zenon DEF FailForGood, DeleteFromServer, Typed, TypeOK
  <2>3. type' \in Types
    BY <1>2 DEF FailForGood, Types
  <2> QED
    BY <2>1, <2>2, <2>3 DEF Operations, PCs
<1> QED
  BY <1>1, <1>2

\* The answer of the server.
LEMMA ServerType ==
  ASSUME Typed, NEW answer, DeleteFromServer(answer)
  PROVE  server' \in BOOLEAN
  BY Zenon DEF DeleteFromServer, Typed, TypeOK

\* A record that an operation changes.
LEMMA HeldRecord ==
  ASSUME Typed, op.pc \in Holding
  PROVE  /\ op.rec >= 1 /\ op.rec \in DOMAIN recs /\ recs[op.rec] \in Records
         /\ \A r \in Records : /\ [recs EXCEPT ![op.rec] = r] \in Seq(Records)
                               /\ Len([recs EXCEPT ![op.rec] = r]) = Len(recs)
<1>1. op.rec \in DOMAIN recs /\ recs \in Seq(Records)
  BY DEF Typed, TypeOK, OpRecord
<1> QED
  BY <1>1, ChangeRecord

\* Every step of an operation from the entry it polled up to the report.
Working ==
  \/ Process \/ Abort \/ Begin \/ DeleteOnly \/ DeleteKey \/ LoadStored \/ Store
  \/ DropKey \/ GetMeta \/ MetaType \/ Decide \/ GetPack \/ Unpack \/ PackRecord
  \/ PackType \/ Clean

LEMMA WorkingMoves ==
  ASSUME Typed, Working
  PROVE  OpMoves
<1> USE DEF OpMoves
<1>1. /\ op \in Operations /\ recs \in Seq(Records) /\ op.rec <= Len(recs)
      /\ type \in Types /\ op.rec \in Nat /\ op.pc \in PCs
      /\ key \in BOOLEAN /\ server \in BOOLEAN /\ file \in BOOLEAN
  BY DEF Typed, TypeOK, Operations
<1>2. op.pc \in Holding => op.rec >= 1
  BY HeldRecord
<1>3. CASE Process
  <2> DEFINE n == IF recs = <<>> THEN 0 ELSE 1
             o == [op EXCEPT !.pc = "begin", !.now = (asked[op.cur.req] = "accept"),
                             !.rec = n]
  <2>1. /\ o \in Operations /\ o.cur = op.cur /\ o.rec = n /\ o.pc = "begin"
        /\ n \in Nat /\ n <= Len(recs)
    <3>1. n \in Nat /\ n <= Len(recs)
      BY <1>1
    <3>2. (asked[op.cur.req] = "accept") \in BOOLEAN
      OBVIOUS
    <3> HIDE DEF n
    <3> QED
      BY <1>1, <3>1, <3>2 DEF Operations, PCs
  <2>2. UNCHANGED <<recs, key, file>> /\ Quiet /\ op.pc = "popped"
    BY <1>3 DEF Process, At
  <2> HIDE DEF n, o
  <2>3. CASE FailForGood(o, "ready")
    <3>1. /\ op' \in Operations /\ op'.cur = o.cur /\ op'.rec = o.rec
          /\ op'.pc = "finish" /\ type' \in Types /\ server' \in BOOLEAN
      BY <2>1, <2>3, FailureType
    <3> QED
      BY <1>1, <2>1, <2>2, <3>1 DEF Holding
  <2>4. CASE op' = [o EXCEPT !.deleted = recs # <<>> /\ recs[1].deleted]
             /\ UNCHANGED <<type, server>>
    <3>1. (recs # <<>> /\ recs[1].deleted) \in BOOLEAN
      OBVIOUS
    <3>2. op' \in Operations /\ op'.cur = o.cur /\ op'.rec = o.rec /\ op'.pc = "begin"
      BY <2>1, <2>4, <3>1 DEF Operations
    <3> QED
      BY <1>1, <2>1, <2>2, <2>4, <3>2 DEF Holding
  <2> QED
    BY <1>3, <2>3, <2>4 DEF Process, o, n
<1>4. CASE Abort
  BY <1>1, <1>4 DEF Abort, FinalOKType, Types, At, Operations, PCs, Holding
<1>5. CASE Begin
  <2>1. UNCHANGED <<key, server, file>> /\ Quiet /\ op.pc = "begin"
    BY <1>5 DEF Begin, At
  <2>2. CASE StoreRecord([NewRecord EXCEPT !.c = op.rec # 0 /\ recs[op.rec].c])
             /\ UNCHANGED type
    <3> DEFINE b == op.rec # 0 /\ recs[op.rec].c
               r == [NewRecord EXCEPT !.c = b]
    <3>1. r \in Records
      BY RecordTypes
    <3> HIDE DEF r
    <3>2. recs' \in Seq(Records) /\ Len(recs') = Len(recs) + 1
      BY <1>1, <2>2, <3>1, AppendRecord DEF StoreRecord, r
    <3>3. op' = [op EXCEPT !.rec = Len(recs) + 1, !.pc = "delete"]
      BY <2>1, <2>2 DEF StoreRecord, At
    <3>4. Len(recs) + 1 \in Nat
      BY <1>1
    <3>5. /\ op' \in Operations /\ op'.cur = op.cur /\ op'.rec = Len(recs) + 1
          /\ op'.pc = "delete"
      BY <1>1, <3>3, <3>4 DEF Operations, PCs
    <3> QED
      BY <1>1, <2>1, <2>2, <3>2, <3>4, <3>5
  <2>3. CASE /\ op.rec # 0
             /\ op' = [op EXCEPT !.pc = IF recs[op.rec].meta THEN "decide" ELSE "getMeta"]
             /\ UNCHANGED <<type, recs>>
    BY <1>1, <2>1, <2>3 DEF Operations, PCs
  <2>4. CASE op' = [op EXCEPT !.pc = "stored"] /\ type' = "downloadingMeta"
             /\ UNCHANGED recs
    BY <1>1, <2>1, <2>4 DEF Operations, PCs, Types, Downloading, Holding
  <2> QED
    BY <1>5, <2>2, <2>3, <2>4 DEF Begin
<1>6. CASE DeleteOnly
  <2>1. UNCHANGED <<key, file>> /\ Quiet /\ op.pc = "delete"
    BY <1>6 DEF DeleteOnly, At
  <2>2. PICK answer \in Answers :
          /\ DeleteFromServer(answer)
          /\ IF answer = "ok"
             THEN /\ type' = "rejected"
                  /\ recs' = [recs EXCEPT ![op.rec].deleted = TRUE]
             ELSE UNCHANGED <<type, recs>>
          /\ op' = [op EXCEPT !.pc = "deleteKey",
                              !.verdict = IF answer = "offline" THEN "retry" ELSE "drop"]
    BY <1>6 DEF DeleteOnly
  <2>3. op' \in Operations /\ op'.cur = op.cur /\ op'.rec = op.rec /\ op'.pc = "deleteKey"
    BY <1>1, <2>2 DEF Operations, PCs, Verdicts
  <2>4. recs' \in Seq(Records) /\ Len(recs') = Len(recs)
    <3>1. recs' = recs \/ recs' = [recs EXCEPT ![op.rec] = [recs[op.rec] EXCEPT !.deleted = TRUE]]
      BY <2>2
    <3>2. CASE recs' = recs
      BY <1>1, <3>2
    <3>3. CASE recs' = [recs EXCEPT ![op.rec] = [recs[op.rec] EXCEPT !.deleted = TRUE]]
      BY <2>1, <3>3, HeldRecord, RecordTypes DEF Holding
    <3> QED
      BY <3>1, <3>2, <3>3
  <2>5. server' \in BOOLEAN /\ type' \in Types
    BY <1>1, <2>2, ServerType DEF Types
  <2> QED
    BY <1>1, <1>2, <2>1, <2>3, <2>4, <2>5 DEF Holding
<1>7. CASE DeleteKey
  BY <1>1, <1>7 DEF DeleteKey, At, Operations, PCs, Holding
<1>8. CASE LoadStored
  <2>1. UNCHANGED <<recs, key, file>> /\ Quiet /\ op.pc = "stored"
    BY <1>8 DEF LoadStored, At
  <2>2. CASE op' = [op EXCEPT !.pc = "store"] /\ UNCHANGED <<type, server>>
    BY <1>1, <2>1, <2>2 DEF Operations, PCs, Holding
  <2>3. CASE FailForNow(op) \/ \E t \in {"fail", "ready"} : FailForGood(op, t)
    BY <1>1, <2>1, <2>3, FailureType DEF Holding
  <2> QED
    BY <1>8, <2>2, <2>3 DEF LoadStored
<1>9. CASE Store
  <2> DEFINE r == [NewRecord EXCEPT !.c = TRUE]
  <2>1. /\ UNCHANGED <<type, key, server, file>> /\ Quiet /\ op.pc = "store"
        /\ recs' = Append(recs, r) /\ op' = [op EXCEPT !.rec = Len(recs) + 1, !.pc = "dropKey"]
    BY <1>9 DEF Store, StoreRecord, At
  <2>2. r \in Records
    BY RecordTypes
  <2> HIDE DEF r
  <2>3. recs' \in Seq(Records) /\ Len(recs') = Len(recs) + 1
    BY <1>1, <2>1, <2>2, AppendRecord
  <2>4. Len(recs) + 1 \in Nat
    BY <1>1
  <2>5. /\ op' \in Operations /\ op'.cur = op.cur /\ op'.rec = Len(recs) + 1
        /\ op'.pc = "dropKey"
    BY <1>1, <2>1, <2>4 DEF Operations, PCs
  <2> QED
    BY <1>1, <2>1, <2>3, <2>4, <2>5
<1>10. CASE DropKey
  <2>1. key' \in BOOLEAN
    BY <1>10, Zenon DEF DropKey
  <2> QED
    BY <1>1, <1>2, <1>10, <2>1 DEF DropKey, At, Operations, PCs, Holding
<1>11. CASE GetMeta
  <2>1. UNCHANGED <<key, file>> /\ Quiet /\ op.pc = "getMeta"
    BY <1>11 DEF GetMeta, At
  <2>2. CASE /\ \E wifi \in BOOLEAN : op' = [op EXCEPT !.pc = "metaType", !.now = @ \/ wifi]
             /\ recs' = [recs EXCEPT ![op.rec].meta = TRUE]
             /\ UNCHANGED <<type, server>>
    <3>1. PICK b \in BOOLEAN : op' = [op EXCEPT !.pc = "metaType", !.now = b]
      <4>1. PICK wifi \in BOOLEAN : op' = [op EXCEPT !.pc = "metaType", !.now = @ \/ wifi]
        BY <2>2
      <4>2. (op.now \/ wifi) \in BOOLEAN
        OBVIOUS
      <4>3. op' = [op EXCEPT !.pc = "metaType", !.now = op.now \/ wifi]
        BY <1>1, <4>1
      <4> QED
        BY <4>2, <4>3
    <3>2. op' \in Operations /\ op'.cur = op.cur /\ op'.rec = op.rec /\ op'.pc = "metaType"
      BY <1>1, <3>1 DEF Operations, PCs
    <3>3. recs' \in Seq(Records) /\ Len(recs') = Len(recs)
      <4>1. recs' = [recs EXCEPT ![op.rec] = [recs[op.rec] EXCEPT !.meta = TRUE]]
        BY <2>2
      <4> QED
        BY <2>1, <4>1, HeldRecord, RecordTypes DEF Holding
    <3> QED
      BY <1>1, <1>2, <2>1, <2>2, <3>2, <3>3 DEF Holding
  <2>3. CASE TransferFails /\ UNCHANGED recs
    BY <1>1, <2>1, <2>3, FailureType DEF Holding, TransferFails
  <2> QED
    BY <1>11, <2>2, <2>3 DEF GetMeta
<1>12. CASE MetaType
  BY <1>1, <1>2, <1>12 DEF MetaType, Types, At, Operations, PCs, Holding
<1>13. CASE Decide
  <2>1. UNCHANGED <<recs, key, server, file>> /\ Quiet /\ op.pc = "decide"
    BY <1>13 DEF Decide, At
  <2>2. type' \in Types
    BY <1>1, <1>13 DEF Decide, FinalOKType, Types, Downloading
  <2>3. PICK v \in Verdicts, p \in {"clean", "finish", "getPack"} :
          op' = [op EXCEPT !.pc = p, !.verdict = v]
    <3>1. op.verdict \in Verdicts
      BY <1>1 DEF Operations
    <3>2. CASE op' = [op EXCEPT !.pc = "finish", !.verdict = "ok"]
      BY <3>2 DEF Verdicts
    <3>3. ASSUME NEW p \in {"clean", "getPack"}, op' = [op EXCEPT !.pc = p]
          PROVE  op' = [op EXCEPT !.pc = p, !.verdict = op.verdict]
      BY <1>1, <3>3 DEF Operations
    <3> QED
      BY <1>13, <3>1, <3>2, <3>3 DEF Decide
  <2> QED
    BY <1>1, <1>2, <2>1, <2>2, <2>3 DEF Operations, PCs, Holding
<1>14. CASE GetPack
  <2>1. UNCHANGED <<recs, key, file>> /\ Quiet /\ op.pc = "getPack"
    BY <1>14 DEF GetPack, At
  <2>2. CASE op' = [op EXCEPT !.pc = "unpack"] /\ UNCHANGED <<type, server>>
    BY <1>1, <1>2, <2>1, <2>2 DEF Operations, PCs, Holding
  <2>3. CASE TransferFails
    BY <1>1, <2>1, <2>3, FailureType DEF Holding, TransferFails
  <2> QED
    BY <1>14, <2>2, <2>3 DEF GetPack
<1>15. CASE Unpack
  <2>1. UNCHANGED <<recs, key>> /\ Quiet /\ op.pc = "unpack"
    BY <1>15 DEF Unpack, At
  <2>2. file' \in BOOLEAN
    BY <1>1, <1>15, Zenon DEF Unpack
  <2>3. CASE op' = [op EXCEPT !.pc = "packRecord"] /\ UNCHANGED <<type, server>>
    BY <1>1, <1>2, <2>1, <2>2, <2>3 DEF Operations, PCs, Holding
  <2>4. CASE FailForGood(op, "ready")
    BY <1>1, <2>1, <2>2, <2>4, FailureType DEF Holding
  <2> QED
    BY <1>15, <2>3, <2>4 DEF Unpack
<1>16. CASE PackRecord
  <2> DEFINE r == [recs[op.rec] EXCEPT !.pack = TRUE, !.c = FALSE]
  <2>1. op.pc = "packRecord" /\ recs' = [recs EXCEPT ![op.rec].pack = TRUE, ![op.rec].c = FALSE]
    BY <1>16 DEF PackRecord, At
  <2>2. r \in Records
    BY <2>1, HeldRecord, RecordTypes DEF Holding
  <2>3. recs' = [recs EXCEPT ![op.rec] = r]
    BY <1>1, <2>1, HeldRecord DEF Holding
  <2> HIDE DEF r
  <2>4. recs' \in Seq(Records) /\ Len(recs') = Len(recs)
    BY <2>1, <2>2, <2>3, HeldRecord DEF Holding
  <2> QED
    BY <1>1, <1>2, <1>16, <2>4 DEF PackRecord, At, Operations, PCs, Holding
<1>17. CASE PackType
  BY <1>1, <1>2, <1>17 DEF PackType, Types, At, Operations, PCs, Holding
<1>18. CASE Clean
  <2>1. UNCHANGED <<key, file>> /\ Quiet /\ op.pc = "clean"
    BY <1>18 DEF Clean, At
  <2>2. PICK answer \in Answers :
          /\ DeleteFromServer(answer)
          /\ IF answer = "ok"
             THEN /\ recs' = [recs EXCEPT ![op.rec].deleted = TRUE]
                  /\ type' = "downloaded"
             ELSE UNCHANGED <<type, recs>>
          /\ op' = [op EXCEPT !.pc = "finish", !.verdict = "ok"]
    BY <1>18 DEF Clean
  <2>3. op' \in Operations /\ op'.cur = op.cur /\ op'.rec = op.rec /\ op'.pc = "finish"
    BY <1>1, <2>2 DEF Operations, PCs, Verdicts
  <2>4. recs' \in Seq(Records) /\ Len(recs') = Len(recs)
    <3>1. recs' = recs \/ recs' = [recs EXCEPT ![op.rec] = [recs[op.rec] EXCEPT !.deleted = TRUE]]
      BY <2>2
    <3>2. CASE recs' = recs
      BY <1>1, <3>2
    <3>3. CASE recs' = [recs EXCEPT ![op.rec] = [recs[op.rec] EXCEPT !.deleted = TRUE]]
      BY <2>1, <3>3, HeldRecord, RecordTypes DEF Holding
    <3> QED
      BY <3>1, <3>2, <3>3
  <2>5. server' \in BOOLEAN /\ type' \in Types
    BY <1>1, <2>2, ServerType DEF Types
  <2> QED
    BY <1>1, <2>1, <2>3, <2>4, <2>5 DEF Holding
<1> QED
  BY <1>3, <1>4, <1>5, <1>6, <1>7, <1>8, <1>9, <1>10, <1>11, <1>12, <1>13, <1>14,
     <1>15, <1>16, <1>17, <1>18 DEF Working

\* What every other step does.
Requesting ==
  \/ \E r \in Requests, answer \in {"accept", "reject"} : Press(r, answer)
  \/ \E r \in Requests : Notify(r)
  \/ Confirm \/ InitProgress

RowStep ==
  \/ \E r \in Requests : Take(r) \/ NoCertificate(r) \/ Due(r)
  \/ TransferFinished

EntryStep == StartOp \/ Poll \/ Skip \/ Finish

UserStep == CancelInQueue \/ CancelNotify \/ CancelRead \/ CancelReady

LEMMA NextSteps ==
  ASSUME [Next]_vars
  PROVE  \/ Working \/ Requesting \/ RowStep \/ EntryStep \/ UserStep \/ Restart
         \/ UNCHANGED vars
  BY Zenon DEF Next, OpStep, Working, Requesting, RowStep, EntryStep, UserStep

\* Requests and their blocks keep the types.
LEMMA RequestingType ==
  ASSUME Typed, Requesting
  PROVE  Typed'
<1> USE DEF pool, user, past, db
<1>1. op' = op /\ recs' = recs
  BY DEF Requesting, Press, Notify, Confirm, InitProgress
<1>2. OpEntry' /\ OpRecord'
  BY <1>1 DEF Typed, OpEntry, OpRecord
<1>3. \A r \in Requests, d \in {"init", "confirm"} : [do |-> d, req |-> r] \in Blocks
  BY DEF Blocks
<1>4. ASSUME service # <<>>
      PROVE  Head(service).req \in Requests /\ Tail(service) \in Seq(Blocks)
  <2>1. Head(service) \in Blocks /\ Tail(service) \in Seq(Blocks)
    BY <1>4, TailType DEF Typed, TypeOK
  <2> QED
    BY <2>1 DEF Blocks
<1>5. ASSUME NEW r \in Requests, NEW answer \in {"accept", "reject"}, Press(r, answer)
      PROVE  TypeOK'
  <2>1. service' \in Seq(Blocks)
    BY <1>3, <1>5, AppendType DEF Press, Typed, TypeOK
  <2> QED
    BY <1>5, <2>1 DEF Press, Typed, TypeOK
<1>6. ASSUME NEW r \in Requests, Notify(r)
      PROVE  TypeOK'
  <2>1. service' \in Seq(Blocks)
    BY <1>3, <1>6, AppendType DEF Notify, Dispatch, Typed, TypeOK
  <2> QED
    BY <1>6, <2>1 DEF Notify, Dispatch, Typed, TypeOK, Types
<1>7. ASSUME Confirm
      PROVE  TypeOK'
  <2>1. Head(service).req \in Requests /\ Tail(service) \in Seq(Blocks)
    BY <1>4, <1>7 DEF Confirm
  <2>2. service' \in Seq(Blocks)
    BY <1>3, <1>7, <2>1, AppendType DEF Confirm, Dispatch
  <2> QED
    BY <1>7, <2>1, <2>2 DEF Confirm, Dispatch, Typed, TypeOK, Types
<1>8. ASSUME InitProgress
      PROVE  TypeOK'
  <2>1. orphaned' \in BOOLEAN
    BY <1>8, Zenon DEF InitProgress
  <2>2. service' \in Seq(Blocks)
    BY <1>4, <1>8 DEF InitProgress
  <2> QED
    BY <1>8, <2>1, <2>2 DEF InitProgress, Typed, TypeOK, Types, Downloading
<1> QED
  BY <1>2, <1>5, <1>6, <1>7, <1>8 DEF Requesting, Typed

\* So do the steps of the message manager.
LEMMA RowType ==
  ASSUME Typed, RowStep
  PROVE  Typed'
<1> USE DEF pool, user, past, db
<1>1. op' = op /\ recs' = recs
  BY DEF RowStep, Take, NoCertificate, Due, TransferFinished
<1>2. OpEntry' /\ OpRecord'
  BY <1>1 DEF Typed, OpEntry, OpRecord
<1>3. ASSUME NEW r \in Requests, Take(r)
      PROVE  TypeOK'
  <2>1. queue' \in Seq(Entries)
    BY <1>3, Entry(r) \in Entries, AppendType DEF Take, Entry, Entries, Typed, TypeOK
  <2> QED
    BY <1>3, <2>1 DEF Take, Typed, TypeOK
<1>4. ASSUME NEW r \in Requests, NoCertificate(r)
      PROVE  TypeOK'
  <2>1. orphaned' \in BOOLEAN
    BY <1>4, Zenon DEF NoCertificate
  <2> QED
    BY <1>4, <2>1 DEF NoCertificate, Typed, TypeOK
<1>5. ASSUME NEW r \in Requests, Due(r)
      PROVE  TypeOK'
  BY <1>5 DEF Due, Typed, TypeOK
<1>6. ASSUME TransferFinished
      PROVE  TypeOK'
  <2>1. Head(acks) \in Reports /\ Tail(acks) \in Seq(Reports)
    BY <1>6, TailType DEF TransferFinished, Typed, TypeOK
  <2>2. Head(acks).req \in Requests
    BY <2>1 DEF Reports
  <2>3. ASSUME NEW r \in Requests, NEW v, Finished(r, v)
        PROVE  /\ tries' \in [Requests -> 0 .. MaxResend]
               /\ row' \in [Requests -> {"absent", "waiting", "backoff", "processed"}]
    <3>1. tries \in [Requests -> 0 .. MaxResend] /\ tries[r] \in 0 .. MaxResend
      BY DEF Typed, TypeOK
    <3>2. 0 \in 0 .. MaxResend /\ (tries[r] < MaxResend => tries[r] + 1 \in 0 .. MaxResend)
      BY <3>1, DownloadAssumption
    <3>3. \/ tries' = [tries EXCEPT ![r] = 0]
          \/ tries[r] < MaxResend /\ tries' = [tries EXCEPT ![r] = tries[r] + 1]
      BY <2>3, <3>1, DownloadAssumption DEF Finished
    <3>4. tries' \in [Requests -> 0 .. MaxResend]
      BY <3>1, <3>2, <3>3
    <3>5. row' \in [Requests -> {"absent", "waiting", "backoff", "processed"}]
      BY <2>3 DEF Finished, Typed, TypeOK
    <3> QED
      BY <3>4, <3>5
  <2> QED
    BY <1>6, <2>1, <2>2, <2>3 DEF TransferFinished, Typed, TypeOK
<1> QED
  BY <1>2, <1>3, <1>4, <1>5, <1>6 DEF RowStep, Typed

\* So do the steps of an operation between two entries.
LEMMA EntryType ==
  ASSUME Typed, EntryStep
  PROVE  Typed'
<1> USE DEF pool, user, past, db
<1>1. op \in Operations /\ op.rec <= Len(recs) /\ recs \in Seq(Records)
  BY DEF Typed, TypeOK
<1>2. /\ op' \in Operations
      /\ op'.rec = 0 \/ op'.rec = op.rec
      /\ op'.pc \in {"idle", "loop", "popped"}
      /\ op'.pc = "popped" => op'.cur.req \in Requests
  <2>1. CASE StartOp \/ Skip \/ Finish
    BY <2>1, LoopType DEF StartOp, Skip, Finish
  <2>2. CASE Poll /\ queue = <<>>
    BY <1>1, <2>2 DEF Poll, Operations, PCs
  <2>3. CASE Poll /\ queue # <<>>
    <3>1. Head(queue) \in Entries
      BY <2>3, TailType DEF Typed, TypeOK
    <3>2. /\ Head(queue) \in [req : Requests \cup {none}, cancelled : BOOLEAN]
          /\ Head(queue).req \in Requests
      BY <3>1 DEF Entries
    <3>3. op' = [op EXCEPT !.pc = "popped", !.cur = Head(queue)]
      BY <2>3 DEF Poll
    <3> QED
      BY <1>1, <3>2, <3>3 DEF Operations, PCs
  <2> QED
    BY <2>1, <2>2, <2>3 DEF EntryStep
<1>3. recs' = recs
  BY DEF EntryStep, StartOp, Poll, Skip, Finish
<1>4. op'.rec <= Len(recs') /\ OpEntry' /\ OpRecord'
  BY <1>1, <1>2, <1>3 DEF OpEntry, OpRecord, Holding
<1>5. ASSUME StartOp
      PROVE  TypeOK'
  BY <1>2, <1>4, <1>5 DEF StartOp, Typed, TypeOK
<1>6. ASSUME Poll
      PROVE  TypeOK'
  <2>1. queue' \in Seq(Entries)
    <3>1. queue' = queue \/ (queue # <<>> /\ queue' = Tail(queue))
      BY <1>6 DEF Poll
    <3> QED
      BY <3>1, TailType DEF Typed, TypeOK
  <2> QED
    BY <1>2, <1>4, <1>6, <2>1 DEF Poll, Typed, TypeOK
<1>7. ASSUME Skip
      PROVE  TypeOK'
  <2>1. op.cur.req \in Requests
    BY <1>7 DEF Skip, At, Typed, OpEntry
  <2> QED
    BY <1>2, <1>4, <1>7, <2>1 DEF Skip, Typed, TypeOK, Types
<1>8. ASSUME Finish
      PROVE  TypeOK'
  <2>1. [req |-> op.cur.req, verdict |-> op.verdict] \in Reports
    BY <1>1, <1>8 DEF Finish, At, Typed, OpEntry, Operations, Reports
  <2>2. acks' \in Seq(Reports)
    BY <1>8, <2>1, AppendType DEF Finish, Typed, TypeOK
  <2> QED
    BY <1>2, <1>4, <1>8, <2>2 DEF Finish, Typed, TypeOK
<1> QED
  BY <1>4, <1>5, <1>6, <1>7, <1>8 DEF EntryStep, Typed

\* So does the thread that cancels.
LEMMA UserType ==
  ASSUME Typed, UserStep
  PROVE  Typed'
<1> USE DEF pool, user, past, db
<1>1. op \in Operations
  BY DEF Typed, TypeOK
<1>2. op' \in Operations /\ op'.pc = op.pc /\ op'.rec = op.rec /\ op'.cur.req = op.cur.req
  <2>1. CASE op' = op
    BY <1>1, <2>1
  <2>2. CASE op' = [op EXCEPT !.cur.cancelled = TRUE]
    BY <1>1, <2>2 DEF Operations
  <2> QED
    BY <2>1, <2>2 DEF UserStep, CancelInQueue, CancelNotify, CancelRead, CancelReady
<1>3. recs' = recs
  BY DEF UserStep, CancelInQueue, CancelNotify, CancelRead, CancelReady
<1>4. op'.rec <= Len(recs') /\ OpEntry' /\ OpRecord'
  BY <1>2, <1>3 DEF Typed, TypeOK, OpEntry, OpRecord
<1>5. found' \in BOOLEAN
  BY Zenon DEF UserStep, CancelInQueue, CancelNotify, CancelRead, CancelReady, Typed, TypeOK
<1>6. ASSUME CancelInQueue
      PROVE  TypeOK'
  <2>1. queue' \in Seq(Entries)
    <3>1. CASE queue = <<>>
      BY <1>6, <3>1 DEF CancelInQueue, Typed, TypeOK
    <3>2. CASE queue # <<>>
      <4>1. 1 \in DOMAIN queue /\ queue[1] \in Entries /\ queue \in Seq(Entries)
        BY <3>2 DEF Typed, TypeOK
      <4>2. [queue[1] EXCEPT !.cancelled = TRUE] \in Entries
        BY <4>1 DEF Entries
      <4>3. queue' = [queue EXCEPT ![1] = [queue[1] EXCEPT !.cancelled = TRUE]]
        BY <1>6, <3>2, <4>1 DEF CancelInQueue
      <4> QED
        BY <4>1, <4>2, <4>3
    <3> QED
      BY <3>1, <3>2
  <2>2. cancels' \in 0 .. MaxCancels
    BY <1>6, DownloadAssumption DEF CancelInQueue, Typed, TypeOK
  <2> QED
    BY <1>2, <1>4, <1>5, <1>6, <2>1, <2>2 DEF CancelInQueue, Typed, TypeOK
<1>7. ASSUME CancelNotify
      PROVE  TypeOK'
  BY <1>2, <1>4, <1>5, <1>7 DEF CancelNotify, Typed, TypeOK
<1>8. ASSUME CancelRead
      PROVE  TypeOK'
  BY <1>2, <1>4, <1>5, <1>8 DEF CancelRead, Typed, TypeOK
<1>9. ASSUME CancelReady
      PROVE  TypeOK'
  BY <1>2, <1>4, <1>5, <1>9 DEF CancelReady, Typed, TypeOK, Types
<1> QED
  BY <1>4, <1>6, <1>7, <1>8, <1>9 DEF UserStep, Typed

\* So does a restart.
LEMMA RestartType ==
  ASSUME Typed, Restart
  PROVE  Typed'
<1>1. op' = NewOp
  BY DEF Restart
<1>2. OpEntry' /\ OpRecord'
  BY <1>1, NewOpType DEF OpEntry, OpRecord, Holding
<1>3. found' \in BOOLEAN /\ orphaned' \in BOOLEAN
  BY Zenon DEF Restart
<1>4. TypeOK'
  BY <1>1, <1>3, NewOpType, DownloadAssumption DEF Restart, Typed, TypeOK
<1> QED
  BY <1>2, <1>4 DEF Typed

LEMMA TypeStep ==
  ASSUME Typed, [Next]_vars
  PROVE  Typed'
<1>1. CASE UNCHANGED vars
  BY <1>1 DEF vars, db, pool, user, past, Typed, TypeOK, OpEntry, OpRecord
<1> QED
  BY <1>1, NextSteps, WorkingMoves, MovesKeep, RequestingType, RowType, EntryType,
     UserType, RestartType

\* Every variable has its type, and the record an operation holds is there.
THEOREM TypeCorrect == Spec => []TypeOK
<1>1. Typed => TypeOK
  BY DEF Typed
<1> QED
  BY <1>1, TypeInit, TypeStep, PTL DEF Spec

(***************************************************************************)
(* Rows                                                                    *)
(***************************************************************************)

LEMMA AppendIndex ==
  ASSUME NEW S, NEW s \in Seq(S), NEW e \in S
  PROVE  /\ DOMAIN Append(s, e) = DOMAIN s \cup {Len(s) + 1}
         /\ Len(s) + 1 \notin DOMAIN s
         /\ \A i \in DOMAIN s : Append(s, e)[i] = s[i]
         /\ Append(s, e)[Len(s) + 1] = e
  OBVIOUS

LEMMA TailIndex ==
  ASSUME NEW S, NEW s \in Seq(S), s # <<>>
  PROVE  /\ 1 \in DOMAIN s /\ s[1] = Head(s)
         /\ \A i \in DOMAIN Tail(s) : i \in Nat /\ i + 1 \in DOMAIN s /\ Tail(s)[i] = s[i + 1]
         /\ \A i \in DOMAIN s : i # 1 => i - 1 \in DOMAIN Tail(s) /\ Tail(s)[i - 1] = s[i]
  OBVIOUS

\* The row of an entry that was cancelled in the queue stays as it is.
SkippedKept == \A r \in skipped : row[r] = "processed"

\* A request has no row before the block that inserts it ran, which runs once.
BlocksInOrder ==
  /\ \A r \in Requests : asked[r] = "none" =>
       row[r] = "absent" /\ \A i \in DOMAIN service : service[i].req # r
  /\ \A i \in DOMAIN service :
       service[i].do = "confirm" => row[service[i].req] = "absent"
  /\ \A i, j \in DOMAIN service :
       /\ service[i].do = "confirm" /\ service[j].do = "confirm"
       /\ service[i].req = service[j].req
       => i = j

RowInv == Typed /\ RowHandled /\ SkippedKept /\ BlocksInOrder

LEMMA RowInit == Init => RowInv
<1> SUFFICES ASSUME Init PROVE RowHandled /\ SkippedKept /\ BlocksInOrder
  BY TypeInit DEF RowInv
<1>1. op.pc = "idle" /\ queue = <<>> /\ acks = <<>> /\ service = <<>>
  BY NewOpType DEF Init
<1> QED
  BY <1>1 DEF Init, RowHandled, InQueue, InOperation, InAcks, SkippedKept, BlocksInOrder

\* Requests and their blocks.
LEMMA RequestingRow ==
  ASSUME RowInv, Requesting
  PROVE  RowHandled' /\ SkippedKept' /\ BlocksInOrder'
<1>1. /\ service \in Seq(Blocks) /\ row \in [Requests -> {"absent", "waiting", "backoff", "processed"}]
      /\ asked \in [Requests -> {"none", "meta", "accept", "reject"}]
  BY DEF RowInv, Typed, TypeOK
<1>2. UNCHANGED <<queue, acks, op, skipped>>
  BY DEF Requesting, Press, Notify, Confirm, InitProgress, pool, past
<1>3. ASSUME NEW r \in Requests, row[r] = "absent", row' = [row EXCEPT ![r] = "waiting"]
      PROVE  RowHandled' /\ SkippedKept'
  BY <1>1, <1>2, <1>3 DEF RowInv, RowHandled, InQueue, InOperation, InAcks, SkippedKept
<1>4. ASSUME row' = row
      PROVE  RowHandled' /\ SkippedKept'
  BY <1>2, <1>4 DEF RowInv, RowHandled, InQueue, InOperation, InAcks, SkippedKept
<1>5. ASSUME NEW r \in Requests, NEW answer \in {"accept", "reject"}, Press(r, answer)
      PROVE  RowHandled' /\ SkippedKept' /\ BlocksInOrder'
  <2> DEFINE b == [do |-> "confirm", req |-> r]
  <2>1. b \in Blocks /\ b.do = "confirm" /\ b.req = r
    BY DEF Blocks
  <2>2. row' = row /\ service' = Append(service, b) /\ asked' = [asked EXCEPT ![r] = answer]
        /\ asked[r] = "none"
    BY <1>5 DEF Press, db
  <2> HIDE DEF b
  <2>3. BlocksInOrder'
    BY <1>1, <2>1, <2>2, AppendIndex DEF RowInv, BlocksInOrder
  <2> QED
    BY <1>4, <2>2, <2>3
<1>6. ASSUME NEW r \in Requests, Notify(r)
      PROVE  RowHandled' /\ SkippedKept' /\ BlocksInOrder'
  <2> DEFINE b == [do |-> "init", req |-> r]
  <2>1. b \in Blocks /\ b.do = "init" /\ b.req = r
    BY DEF Blocks
  <2>2. row' = [row EXCEPT ![r] = "waiting"] /\ service' = Append(service, b)
        /\ asked' = [asked EXCEPT ![r] = "meta"] /\ asked[r] = "none"
    BY <1>6 DEF Notify, Dispatch
  <2> HIDE DEF b
  <2>3. BlocksInOrder'
    BY <1>1, <2>1, <2>2, AppendIndex DEF RowInv, BlocksInOrder
  <2>4. row[r] = "absent"
    BY <2>2 DEF RowInv, BlocksInOrder
  <2> QED
    BY <1>3, <2>2, <2>3, <2>4
<1>7. ASSUME service # <<>>
      PROVE  /\ Head(service) \in Blocks /\ Head(service).req \in Requests
             /\ Tail(service) \in Seq(Blocks)
  <2>1. Head(service) \in Blocks /\ Tail(service) \in Seq(Blocks)
    BY <1>1, <1>7, TailType
  <2> QED
    BY <2>1 DEF Blocks
<1>8. ASSUME Confirm
      PROVE  RowHandled' /\ SkippedKept' /\ BlocksInOrder'
  <2> DEFINE r == Head(service).req
             b == [do |-> "init", req |-> r]
             t == Tail(service)
  <2>1. service # <<>> /\ Head(service).do = "confirm"
    BY <1>8 DEF Confirm
  <2>2. b \in Blocks /\ b.do = "init" /\ b.req = r
    BY <1>7, <2>1 DEF Blocks
  <2>3. row' = [row EXCEPT ![r] = "waiting"] /\ service' = Append(t, b) /\ asked' = asked
    BY <1>8 DEF Confirm, Dispatch, past
  <2>4. r \in Requests /\ t \in Seq(Blocks) /\ row[r] = "absent"
    BY <1>1, <1>7, <2>1, TailIndex DEF RowInv, BlocksInOrder
  <2> HIDE DEF b
  <2>5. BlocksInOrder'
    <3>1. \A q \in Requests : asked'[q] = "none" =>
            row'[q] = "absent" /\ \A i \in DOMAIN service' : service'[i].req # q
      BY <1>1, <2>1, <2>2, <2>3, <2>4, AppendIndex, TailIndex DEF RowInv, BlocksInOrder
    <3>2. \A i \in DOMAIN service' : service'[i].do = "confirm" =>
            /\ i \in DOMAIN t /\ service'[i] = t[i]
            /\ service'[i] = service[i + 1] /\ i + 1 \in DOMAIN service /\ i \in Nat
      BY <1>1, <2>1, <2>2, <2>3, <2>4, AppendIndex, TailIndex
    <3>3. \A i \in DOMAIN service' : service'[i].do = "confirm" =>
            service'[i].req \in Requests /\ service'[i].req # r
            /\ row'[service'[i].req] = "absent"
      <4> SUFFICES ASSUME NEW i \in DOMAIN service', service'[i].do = "confirm"
                   PROVE  service'[i].req \in Requests /\ service'[i].req # r
                          /\ row'[service'[i].req] = "absent"
        OBVIOUS
      <4>1. i + 1 \in DOMAIN service /\ service'[i] = service[i + 1] /\ i \in Nat /\ i + 1 # 1
            /\ 1 \in DOMAIN service /\ service[1] = Head(service)
        BY <3>2, <1>1, <2>1, TailIndex
      <4>2. service[i + 1] \in Blocks
        BY <1>1, <4>1
      <4>3. service[i + 1].req # r /\ row[service[i + 1].req] = "absent"
        BY <2>1, <4>1 DEF RowInv, BlocksInOrder
      <4> QED
        BY <1>1, <2>3, <4>1, <4>2, <4>3 DEF Blocks
    <3>4. \A i, j \in DOMAIN service' :
            /\ service'[i].do = "confirm" /\ service'[j].do = "confirm"
            /\ service'[i].req = service'[j].req
            => i = j
      <4> SUFFICES ASSUME NEW i \in DOMAIN service', NEW j \in DOMAIN service',
                          service'[i].do = "confirm", service'[j].do = "confirm",
                          service'[i].req = service'[j].req
                   PROVE  i = j
        OBVIOUS
      <4>1. i + 1 = j + 1 /\ i \in Nat /\ j \in Nat
        BY <3>2 DEF RowInv, BlocksInOrder
      <4> QED
        BY <4>1
    <3> QED
      BY <3>1, <3>3, <3>4 DEF BlocksInOrder
  <2> QED
    BY <1>3, <2>3, <2>4, <2>5
<1>9. ASSUME InitProgress
      PROVE  RowHandled' /\ SkippedKept' /\ BlocksInOrder'
  <2>1. service # <<>> /\ service' = Tail(service) /\ row' = row /\ asked' = asked
    BY <1>9 DEF InitProgress
  <2>2. \A i \in DOMAIN service' :
          i \in Nat /\ i + 1 \in DOMAIN service /\ service'[i] = service[i + 1]
    BY <1>1, <2>1, TailIndex
  <2>3. \A i, j \in DOMAIN service' : i + 1 = j + 1 => i = j
    BY <2>2
  <2>4. BlocksInOrder'
    BY <2>1, <2>2, <2>3 DEF RowInv, BlocksInOrder
  <2> QED
    BY <1>4, <2>1, <2>4
<1> QED
  BY <1>5, <1>6, <1>8, <1>9 DEF Requesting

\* Rows that change without getting lost keep the order of the blocks.
LEMMA BlocksKept ==
  ASSUME RowInv, UNCHANGED <<service, asked>>,
         \A r \in Requests : row[r] = "absent" => row'[r] = "absent"
  PROVE  BlocksInOrder'
<1>1. \A i \in DOMAIN service : service[i] \in Blocks
  BY DEF RowInv, Typed, TypeOK
<1>2. \A i \in DOMAIN service : service[i].req \in Requests
  BY <1>1 DEF Blocks
<1> QED
  BY <1>2 DEF RowInv, BlocksInOrder

\* The steps of the message manager.
LEMMA RowStepRow ==
  ASSUME RowInv, RowStep
  PROVE  RowHandled' /\ SkippedKept' /\ BlocksInOrder'
<1>1. /\ row \in [Requests -> {"absent", "waiting", "backoff", "processed"}]
      /\ queue \in Seq(Entries) /\ acks \in Seq(Reports) /\ skipped \subseteq Requests
  BY DEF RowInv, Typed, TypeOK
<1>2. UNCHANGED <<service, asked, skipped, op>>
  BY DEF RowStep, Take, NoCertificate, Due, TransferFinished, pool, past
<1>3. ASSUME NEW r \in Requests, row[r] \in {"waiting", "backoff"},
             NEW v \in {"absent", "waiting"}, row' = [row EXCEPT ![r] = v],
             UNCHANGED <<queue, acks>>
      PROVE  RowHandled' /\ SkippedKept' /\ BlocksInOrder'
  <2>1. RowHandled' /\ SkippedKept'
    BY <1>1, <1>2, <1>3 DEF RowInv, RowHandled, InQueue, InOperation, InAcks, SkippedKept
  <2>2. BlocksInOrder'
    BY <1>1, <1>2, <1>3, BlocksKept
  <2> QED
    BY <2>1, <2>2
<1>4. ASSUME NEW r \in Requests, NoCertificate(r) \/ Due(r)
      PROVE  RowHandled' /\ SkippedKept' /\ BlocksInOrder'
  <2>1. row[r] \in {"waiting", "backoff"} /\ UNCHANGED <<queue, acks>>
    BY <1>4 DEF NoCertificate, Due, pool
  <2>2. row' = [row EXCEPT ![r] = "absent"] \/ row' = [row EXCEPT ![r] = "waiting"]
    BY <1>4 DEF NoCertificate, Due
  <2> QED
    BY <1>3, <2>1, <2>2
<1>5. ASSUME NEW r \in Requests, Take(r)
      PROVE  RowHandled' /\ SkippedKept' /\ BlocksInOrder'
  <2> DEFINE e == Entry(r)
  <2>1. e \in Entries /\ e.req = r
    BY DEF Entry, Entries
  <2>2. /\ row[r] = "waiting" /\ row' = [row EXCEPT ![r] = "processed"]
        /\ queue' = Append(queue, e) /\ acks' = acks
    BY <1>5 DEF Take
  <2> HIDE DEF e
  <2>3. r \notin skipped /\ ~InQueue(r) /\ ~InOperation(r) /\ ~InAcks(r)
    BY <2>2 DEF RowInv, SkippedKept, RowHandled
  <2>4. \A q : InQueue(q)' <=> InQueue(q) \/ q = r
    BY <1>1, <2>1, <2>2, AppendIndex DEF InQueue
  <2>5. \A q : (InAcks(q)' <=> InAcks(q)) /\ (InOperation(q)' <=> InOperation(q))
    BY <1>2, <2>2 DEF InAcks, InOperation
  <2>6. \A i, j \in DOMAIN queue' : queue'[i].req = queue'[j].req => i = j
    BY <1>1, <2>1, <2>2, <2>3, AppendIndex DEF RowInv, RowHandled, InQueue
  <2>7. RowHandled' /\ SkippedKept'
    BY <1>1, <1>2, <2>2, <2>3, <2>4, <2>5, <2>6 DEF RowInv, RowHandled, SkippedKept
  <2>8. BlocksInOrder'
    BY <1>1, <1>2, <2>2, BlocksKept
  <2> QED
    BY <2>7, <2>8
<1>6. ASSUME TransferFinished
      PROVE  RowHandled' /\ SkippedKept' /\ BlocksInOrder'
  <2> DEFINE r == Head(acks).req
  <2>1. acks # <<>> /\ acks' = Tail(acks) /\ queue' = queue
    BY <1>6 DEF TransferFinished, pool
  <2>2. r \in Requests
    <3>1. Head(acks) \in Reports
      BY <1>1, <2>1, TailType
    <3> QED
      BY <3>1 DEF Reports
  <2>3. 1 \in DOMAIN acks /\ acks[1].req = r
    BY <1>1, <2>1, TailIndex
  <2>4. /\ row[r] = "processed" /\ r \notin skipped
        /\ ~InQueue(r) /\ ~InOperation(r) /\ InAcks(r)
    BY <2>2, <2>3 DEF RowInv, RowHandled, InAcks
  <2>5. PICK v \in {"absent", "waiting", "backoff"} : row' = [row EXCEPT ![r] = v]
    BY <1>6, <2>4 DEF TransferFinished, Finished
  <2>6. \A i \in DOMAIN acks' : /\ i \in Nat /\ i + 1 \in DOMAIN acks /\ i + 1 # 1
                                /\ acks'[i] = acks[i + 1]
    BY <1>1, <2>1, TailIndex
  <2>7. \A i \in DOMAIN acks : i # 1 => i - 1 \in DOMAIN acks' /\ acks'[i - 1] = acks[i]
    BY <1>1, <2>1, TailIndex
  <2>8. \A q : InAcks(q)' <=> InAcks(q) /\ q # r
    <3>1. ASSUME NEW q, InAcks(q)'
          PROVE  InAcks(q) /\ q # r
      BY <2>3, <2>6, <3>1 DEF RowInv, RowHandled, InAcks
    <3>2. ASSUME NEW q, InAcks(q), q # r
          PROVE  InAcks(q)'
      BY <2>3, <2>7, <3>2 DEF InAcks
    <3> QED
      BY <3>1, <3>2
  <2>9. \A q : (InQueue(q)' <=> InQueue(q)) /\ (InOperation(q)' <=> InOperation(q))
    BY <1>2, <2>1 DEF InQueue, InOperation
  <2>10. \A i, j \in DOMAIN acks' : acks'[i].req = acks'[j].req => i = j
    <3> SUFFICES ASSUME NEW i \in DOMAIN acks', NEW j \in DOMAIN acks',
                        acks'[i].req = acks'[j].req
                 PROVE  i = j
      OBVIOUS
    <3>1. i + 1 = j + 1 /\ i \in Nat /\ j \in Nat
      BY <2>6 DEF RowInv, RowHandled
    <3> QED
      BY <3>1
  <2> HIDE DEF r
  <2>11. RowHandled' /\ SkippedKept'
    BY <1>1, <1>2, <2>1, <2>2, <2>4, <2>5, <2>8, <2>9, <2>10
    DEF RowInv, RowHandled, SkippedKept
  <2>12. BlocksInOrder'
    BY <1>1, <1>2, <2>2, <2>4, <2>5, BlocksKept
  <2> QED
    BY <2>11, <2>12
<1> QED
  BY <1>4, <1>5, <1>6 DEF RowStep

\* The steps of an operation between two entries.
LEMMA EntryRow ==
  ASSUME RowInv, EntryStep
  PROVE  RowHandled' /\ SkippedKept' /\ BlocksInOrder'
<1>1. /\ queue \in Seq(Entries) /\ acks \in Seq(Reports) /\ op \in Operations
      /\ skipped \subseteq Requests
  BY DEF RowInv, Typed, TypeOK
<1>2. UNCHANGED <<service, asked, row>>
  BY DEF EntryStep, StartOp, Poll, Skip, Finish, db, past
<1>3. BlocksInOrder'
  BY <1>2, BlocksKept
<1>4. ASSUME NEW o, o.pc = "loop", op' = o
      PROVE  \A q : ~InOperation(q)'
  BY <1>4 DEF InOperation
<1>5. CASE StartOp \/ (Poll /\ queue = <<>>)
  <2>1. UNCHANGED <<queue, acks, skipped>>
    BY <1>5 DEF StartOp, Poll, past
  <2>2. op.pc \in {"idle", "loop"} /\ op'.pc \in {"idle", "loop"}
    BY <1>1, <1>5, LoopType DEF StartOp, Poll, At, Operations
  <2> QED
    BY <1>2, <1>3, <2>1, <2>2
    DEF RowInv, RowHandled, InQueue, InOperation, InAcks, SkippedKept
<1>6. CASE Poll /\ queue # <<>>
  <2> DEFINE r == Head(queue).req
  <2>1. /\ op.pc = "loop" /\ op'.pc = "popped" /\ op'.cur.req = r
        /\ queue' = Tail(queue) /\ UNCHANGED <<acks, skipped>>
    BY <1>1, <1>6 DEF Poll, At, past, Operations
  <2>2. 1 \in DOMAIN queue /\ queue[1].req = r
    BY <1>1, <1>6, TailIndex
  <2>3. \A i \in DOMAIN queue' : /\ i \in Nat /\ i + 1 \in DOMAIN queue /\ i + 1 # 1
                                 /\ queue'[i] = queue[i + 1]
    BY <1>1, <1>6, <2>1, TailIndex
  <2>4. \A i \in DOMAIN queue : i # 1 => i - 1 \in DOMAIN queue' /\ queue'[i - 1] = queue[i]
    BY <1>1, <1>6, <2>1, TailIndex
  <2>5. \A q : InQueue(q)' <=> InQueue(q) /\ q # r
    <3>1. ASSUME NEW q, InQueue(q)'
          PROVE  InQueue(q) /\ q # r
      BY <2>2, <2>3, <3>1 DEF RowInv, RowHandled, InQueue
    <3>2. ASSUME NEW q, InQueue(q), q # r
          PROVE  InQueue(q)'
      BY <2>2, <2>4, <3>2 DEF InQueue
    <3> QED
      BY <3>1, <3>2
  <2>6. \A q : InOperation(q)' <=> q = r
    BY <2>1 DEF InOperation
  <2>7. \A q : ~InOperation(q) /\ (InAcks(q)' <=> InAcks(q))
    BY <2>1 DEF InOperation, InAcks
  <2>8. InQueue(r)
    BY <2>2 DEF InQueue
  <2>9. \A i, j \in DOMAIN queue' : queue'[i].req = queue'[j].req => i = j
    <3> SUFFICES ASSUME NEW i \in DOMAIN queue', NEW j \in DOMAIN queue',
                        queue'[i].req = queue'[j].req
                 PROVE  i = j
      OBVIOUS
    <3>1. i + 1 = j + 1 /\ i \in Nat /\ j \in Nat
      BY <2>3 DEF RowInv, RowHandled
    <3> QED
      BY <3>1
  <2> HIDE DEF r
  <2>10. RowHandled'
    BY <1>2, <2>1, <2>5, <2>6, <2>7, <2>8, <2>9 DEF RowInv, RowHandled
  <2>11. SkippedKept'
    BY <1>2, <2>1 DEF RowInv, SkippedKept
  <2> QED
    BY <1>3, <2>10, <2>11
<1>7. CASE Skip
  <2> DEFINE r == op.cur.req
  <2>1. /\ op.pc = "popped" /\ UNCHANGED <<queue, acks>> /\ skipped' = skipped \cup {r}
        /\ op'.pc = "loop"
    BY <1>7, LoopType DEF Skip, At, pool
  <2>2. r \in Requests
    BY <2>1 DEF RowInv, Typed, OpEntry
  <2>3. InOperation(r) /\ \A q : InOperation(q) => q = r
    BY <2>1 DEF InOperation
  <2>4. row[r] = "processed" /\ ~InQueue(r) /\ ~InAcks(r)
    BY <2>2, <2>3 DEF RowInv, RowHandled
  <2>5. \A q : /\ ~InOperation(q)' /\ (InAcks(q)' <=> InAcks(q))
               /\ (InQueue(q)' <=> InQueue(q))
    BY <2>1 DEF InOperation, InAcks, InQueue
  <2> HIDE DEF r
  <2>6. RowHandled'
    BY <1>2, <2>1, <2>3, <2>4, <2>5 DEF RowInv, RowHandled
  <2>7. SkippedKept'
    BY <1>2, <2>1, <2>4 DEF RowInv, SkippedKept
  <2> QED
    BY <1>3, <2>6, <2>7
<1>8. CASE Finish
  <2> DEFINE r == op.cur.req
             a == [req |-> r, verdict |-> op.verdict]
  <2>1. /\ op.pc = "finish" /\ UNCHANGED <<queue, skipped>>
        /\ acks' = Append(acks, a) /\ op'.pc = "loop"
    BY <1>8, LoopType DEF Finish, At, pool, past
  <2>2. r \in Requests
    BY <2>1 DEF RowInv, Typed, OpEntry
  <2>3. a \in Reports /\ a.req = r
    BY <1>1, <2>2 DEF Reports, Operations
  <2>4. InOperation(r) /\ \A q : InOperation(q) => q = r
    BY <2>1 DEF InOperation
  <2>5. row[r] = "processed" /\ r \notin skipped /\ ~InQueue(r) /\ ~InAcks(r)
    BY <2>2, <2>4 DEF RowInv, RowHandled
  <2> HIDE DEF r, a
  <2>6. \A q : InAcks(q)' <=> InAcks(q) \/ q = r
    BY <1>1, <2>1, <2>3, AppendIndex DEF InAcks
  <2>7. \A q : ~InOperation(q)' /\ (InQueue(q)' <=> InQueue(q))
    BY <2>1 DEF InOperation, InQueue
  <2>8. \A i, j \in DOMAIN acks' : acks'[i].req = acks'[j].req => i = j
    BY <1>1, <2>1, <2>3, <2>5, AppendIndex DEF RowInv, RowHandled, InAcks
  <2>9. RowHandled'
    BY <1>2, <2>1, <2>4, <2>5, <2>6, <2>7, <2>8 DEF RowInv, RowHandled
  <2>10. SkippedKept'
    BY <1>2, <2>1 DEF RowInv, SkippedKept
  <2> QED
    BY <1>3, <2>9, <2>10
<1> QED
  BY <1>5, <1>6, <1>7, <1>8 DEF EntryStep

\* A cancelled entry stays where it is.
LEMMA UserRow ==
  ASSUME RowInv, UserStep
  PROVE  RowHandled' /\ SkippedKept' /\ BlocksInOrder'
<1>1. op \in Operations /\ queue \in Seq(Entries)
  BY DEF RowInv, Typed, TypeOK
<1>2. UNCHANGED <<service, asked, row, acks, skipped>>
  BY DEF UserStep, CancelInQueue, CancelNotify, CancelRead, CancelReady, db, past
<1>3. op'.pc = op.pc /\ op'.cur.req = op.cur.req
  BY <1>1 DEF UserStep, CancelInQueue, CancelNotify, CancelRead, CancelReady, Operations
<1>4. DOMAIN queue' = DOMAIN queue /\ \A i \in DOMAIN queue : queue'[i].req = queue[i].req
  <2>1. CASE queue' = queue
    BY <2>1
  <2>2. CASE queue # <<>> /\ queue' = [queue EXCEPT ![1].cancelled = TRUE]
    <3>1. 1 \in DOMAIN queue /\ queue[1] \in Entries
      BY <1>1, <2>2
    <3>2. [queue[1] EXCEPT !.cancelled = TRUE].req = queue[1].req
      BY <3>1 DEF Entries
    <3>3. queue' = [queue EXCEPT ![1] = [queue[1] EXCEPT !.cancelled = TRUE]]
      BY <1>1, <2>2, <3>1
    <3> QED
      BY <1>1, <3>1, <3>2, <3>3
  <2> QED
    BY <2>1, <2>2 DEF UserStep, CancelInQueue, CancelNotify, CancelRead, CancelReady, pool
<1>5. BlocksInOrder'
  BY <1>2, BlocksKept
<1>6. \A q : /\ InOperation(q)' <=> InOperation(q)
             /\ InAcks(q)' <=> InAcks(q)
             /\ InQueue(q)' <=> InQueue(q)
  BY <1>2, <1>3, <1>4 DEF InOperation, InAcks, InQueue
<1>7. RowHandled' /\ SkippedKept'
  BY <1>2, <1>4, <1>6 DEF RowInv, RowHandled, SkippedKept
<1> QED
  BY <1>5, <1>7

\* A restart empties the pipeline and makes every row due.
LEMMA RestartRow ==
  ASSUME RowInv, Restart
  PROVE  RowHandled' /\ SkippedKept' /\ BlocksInOrder'
<1>1. /\ service' = <<>> /\ acks' = <<>> /\ queue' = <<>> /\ op'.pc = "idle"
      /\ skipped' = {} /\ asked' = asked
      /\ row' = [r \in Requests |-> IF row[r] = "processed" THEN "waiting" ELSE row[r]]
  BY NewOpType DEF Restart
<1> QED
  BY <1>1 DEF RowInv, RowHandled, InQueue, InOperation, InAcks, SkippedKept, BlocksInOrder

LEMMA RowNext ==
  ASSUME RowInv, [Next]_vars
  PROVE  RowInv'
<1>1. Typed'
  BY TypeStep DEF RowInv
<1>2. CASE Working
  <2>1. OpMoves /\ RowHandled'
    BY <1>2, WorkingMoves, MovesKeep DEF RowInv
  <2>2. SkippedKept' /\ BlocksInOrder'
    BY <2>1, BlocksKept DEF OpMoves, Quiet, past, RowInv, SkippedKept
  <2> QED
    BY <1>1, <2>1, <2>2 DEF RowInv
<1>3. CASE UNCHANGED vars
  BY <1>1, <1>3 DEF vars, db, pool, user, past, RowInv, RowHandled, InQueue, InOperation,
     InAcks, SkippedKept, BlocksInOrder
<1> QED
  BY <1>1, <1>2, <1>3, NextSteps, RequestingRow, RowStepRow, EntryRow, UserRow, RestartRow
  DEF RowInv

\* A row that is taken is in one place of the pipeline, or was cancelled in
\* the queue, and no other row is in it.
THEOREM RowsHandled == Spec => []RowHandled
<1>1. RowInv => RowHandled
  BY DEF RowInv
<1> QED
  BY <1>1, RowInit, RowNext, PTL DEF Spec

(***************************************************************************)
(* The record, the key and the file                                        *)
(***************************************************************************)

\* The record a new run takes up holds what is needed, until the file is there.
FirstRecord == recs # <<>> => recs[1].c \/ file \/ Rejected

\* The key is removed only when there is a record.
KeyOrRecord == key \/ recs # <<>>

\* The steps after the file was unpacked.
FileThere == op.pc \in {"packRecord", "packType", "clean"} => file

PackMeansFile == \A i \in DOMAIN recs : recs[i].pack => file

ShownMeansFile == type = "downloaded" => file

RecordFacts == FirstRecord /\ KeyOrRecord /\ PackMeansFile
FileInv == Typed /\ RecordFacts /\ FileThere /\ ShownMeansFile

LEMMA FileInit == Init => FileInv
<1> SUFFICES ASSUME Init PROVE RecordFacts /\ FileThere /\ ShownMeansFile
  BY TypeInit DEF FileInv
<1>1. op.pc = "idle" /\ recs = <<>> /\ key = TRUE /\ type = "none"
  BY NewOpType DEF Init
<1> QED
  BY <1>1 DEF RecordFacts, FirstRecord, KeyOrRecord, PackMeansFile, FileThere, ShownMeansFile

\* A record is stored for a file that can be decrypted or was rejected.
LEMMA StoredFacts ==
  ASSUME FileInv, NEW r \in Records, recs' = Append(recs, r), ~r.pack, r.c \/ Rejected,
         UNCHANGED <<asked, file>>
  PROVE  RecordFacts'
<1>1. recs \in Seq(Records) /\ (Rejected' <=> Rejected)
  BY DEF FileInv, Typed, TypeOK, Rejected
<1>2. /\ DOMAIN recs' = DOMAIN recs \cup {Len(recs) + 1}
      /\ \A i \in DOMAIN recs : recs'[i] = recs[i]
      /\ recs'[Len(recs) + 1] = r /\ recs' # <<>>
  BY <1>1, AppendIndex
<1>3. PackMeansFile'
  BY <1>2 DEF FileInv, RecordFacts, PackMeansFile
<1>4. FirstRecord'
  <2>1. CASE recs = <<>>
    <3>1. recs'[1] = r
      BY <1>2, <2>1
    <3> QED
      BY <1>1, <3>1 DEF FirstRecord
  <2>2. CASE recs # <<>>
    <3>1. recs'[1] = recs[1]
      BY <1>1, <1>2, <2>2
    <3> QED
      BY <1>1, <2>2, <3>1 DEF FileInv, RecordFacts, FirstRecord
  <2> QED
    BY <2>1, <2>2
<1> QED
  BY <1>2, <1>3, <1>4 DEF RecordFacts, KeyOrRecord

\* What is needed stays in a record that is changed before the file is there.
LEMMA ChangedFacts ==
  ASSUME FileInv, op.pc \in Holding, NEW r \in Records,
         recs' = [recs EXCEPT ![op.rec] = r],
         file \/ (r.c = recs[op.rec].c /\ r.pack = recs[op.rec].pack),
         UNCHANGED <<asked, file>>
  PROVE  RecordFacts'
<1>1. recs \in Seq(Records) /\ (Rejected' <=> Rejected) /\ op.rec \in DOMAIN recs
  BY HeldRecord DEF FileInv, Typed, TypeOK, Rejected
<1>2. /\ DOMAIN recs' = DOMAIN recs /\ recs' # <<>> /\ recs # <<>> /\ 1 \in DOMAIN recs
      /\ \A i \in DOMAIN recs : recs'[i] = IF i = op.rec THEN r ELSE recs[i]
  BY <1>1
<1>3. PackMeansFile'
  BY <1>2 DEF FileInv, RecordFacts, PackMeansFile
<1>4. FirstRecord'
  BY <1>1, <1>2 DEF FileInv, RecordFacts, FirstRecord
<1> QED
  BY <1>2, <1>3, <1>4 DEF RecordFacts, KeyOrRecord

LEMMA KeptFacts ==
  ASSUME FileInv, UNCHANGED <<recs, file>>, Rejected => Rejected', key => key' \/ recs # <<>>
  PROVE  RecordFacts'
BY DEF FileInv, RecordFacts, FirstRecord, KeyOrRecord, PackMeansFile

\* What a failure shows is never a file that was downloaded.
LEMMA FailureShown ==
  ASSUME NEW o, FailForNow(o) \/ \E t \in {"fail", "ready"} : FailForGood(o, t)
  PROVE  type' # "downloaded"
BY DEF FailForNow, FailForGood, FinalOKType

\* The steps of an operation that works for an entry.
LEMMA WorkingFile ==
  ASSUME FileInv, Working
  PROVE  RecordFacts' /\ FileThere' /\ ShownMeansFile'
<1>1. OpMoves
  BY WorkingMoves DEF FileInv
<1>2. UNCHANGED asked /\ (Rejected => Rejected')
  BY <1>1 DEF OpMoves, Quiet, past, Rejected
<1>3. op \in Operations /\ recs \in Seq(Records)
  BY DEF FileInv, Typed, TypeOK
<1>4. ASSUME UNCHANGED <<recs, file, key>>
      PROVE  RecordFacts'
  BY <1>2, <1>4, KeptFacts
<1>5. ASSUME NEW o \in Operations, UNCHANGED file,
             FailForNow(o) \/ \E t \in {"fail", "ready"} : FailForGood(o, t)
      PROVE  FileThere' /\ ShownMeansFile'
  BY <1>5, FailureType, FailureShown DEF FileInv, FileThere, ShownMeansFile
<1>6. CASE Process
  <2>1. UNCHANGED <<recs, file, key>>
    BY <1>6 DEF Process
  <2>2. op'.pc \in {"begin", "finish"} /\ (type' = type \/ type' # "downloaded")
    BY <1>3, <1>6 DEF Process, FailForGood, Operations
  <2> QED
    BY <1>4, <2>1, <2>2 DEF FileInv, FileThere, ShownMeansFile
<1>7. CASE Abort
  BY <1>3, <1>4, <1>7 DEF Abort, FinalOKType, Operations, FileThere, ShownMeansFile
<1>8. CASE Begin
  <2>1. op.pc = "begin" /\ UNCHANGED <<key, file>>
    BY <1>8 DEF Begin, At
  <2>2. op'.pc \notin {"packRecord", "packType", "clean"} /\ (type' = type \/ type' # "downloaded")
    BY <1>3, <1>8 DEF Begin, StoreRecord, Operations
  <2>3. CASE /\ asked[op.cur.req] = "reject"
             /\ StoreRecord([NewRecord EXCEPT !.c = op.rec # 0 /\ recs[op.rec].c])
    <3> DEFINE b == op.rec # 0 /\ recs[op.rec].c
               r == [NewRecord EXCEPT !.c = b]
    <3>1. r \in Records /\ ~r.pack
      BY RecordTypes DEF NewRecord
    <3>2. Rejected
      BY <2>1, <2>3 DEF FileInv, Typed, OpEntry, Rejected
    <3>3. recs' = Append(recs, r)
      BY <2>3 DEF StoreRecord
    <3> HIDE DEF r
    <3> QED
      BY <1>2, <2>1, <2>2, <3>1, <3>2, <3>3, StoredFacts
      DEF FileInv, FileThere, ShownMeansFile
  <2>4. CASE UNCHANGED recs
    BY <1>4, <2>1, <2>2, <2>4 DEF FileInv, FileThere, ShownMeansFile
  <2> QED
    BY <1>8, <2>3, <2>4 DEF Begin
<1>9. CASE DeleteOnly
  <2>1. op.pc = "delete" /\ UNCHANGED <<key, file>>
    BY <1>9 DEF DeleteOnly, At
  <2>2. op'.pc = "deleteKey" /\ (type' = type \/ type' # "downloaded")
    BY <1>3, <1>9 DEF DeleteOnly, Operations
  <2>3. CASE recs' = recs
    BY <1>4, <2>1, <2>2, <2>3 DEF FileInv, FileThere, ShownMeansFile
  <2>4. CASE recs' = [recs EXCEPT ![op.rec].deleted = TRUE]
    <3> DEFINE r == [recs[op.rec] EXCEPT !.deleted = TRUE]
    <3>1. r \in Records /\ r.c = recs[op.rec].c /\ r.pack = recs[op.rec].pack
      BY <2>1, HeldRecord, RecordTypes DEF FileInv, Holding, Records
    <3>2. recs' = [recs EXCEPT ![op.rec] = r]
      BY <2>4
    <3> HIDE DEF r
    <3>3. RecordFacts'
      BY <1>2, <2>1, <3>1, <3>2, ChangedFacts DEF Holding
    <3> QED
      BY <2>1, <2>2, <3>3 DEF FileInv, FileThere, ShownMeansFile
  <2> QED
    BY <1>9, <2>3, <2>4 DEF DeleteOnly
<1>10. CASE DeleteKey \/ DropKey
  <2>1. op.pc \in {"deleteKey", "dropKey"} /\ UNCHANGED <<recs, file, type>>
    BY <1>10 DEF DeleteKey, DropKey, At
  <2>2. recs # <<>>
    BY <1>3, <2>1, HeldRecord DEF FileInv, Holding
  <2>3. op'.pc \in {"finish", "getMeta"}
    BY <1>3, <1>10 DEF DeleteKey, DropKey, Operations
  <2>4. RecordFacts'
    BY <1>2, <2>1, <2>2, KeptFacts
  <2> QED
    BY <2>1, <2>3, <2>4 DEF FileInv, FileThere, ShownMeansFile
<1>11. CASE LoadStored
  <2>1. UNCHANGED <<recs, file, key>>
    BY <1>11 DEF LoadStored
  <2>2. CASE op' = [op EXCEPT !.pc = "store"] /\ UNCHANGED type
    BY <1>3, <1>4, <2>1, <2>2 DEF FileInv, FileThere, ShownMeansFile, Operations
  <2>3. CASE FailForNow(op) \/ \E t \in {"fail", "ready"} : FailForGood(op, t)
    BY <1>3, <1>4, <1>5, <2>1, <2>3
  <2> QED
    BY <1>11, <2>2, <2>3 DEF LoadStored
<1>12. CASE Store
  <2> DEFINE r == [NewRecord EXCEPT !.c = TRUE]
  <2>1. r \in Records /\ ~r.pack /\ r.c
    BY RecordTypes DEF NewRecord
  <2>2. recs' = Append(recs, r) /\ UNCHANGED <<type, file>>
    BY <1>12 DEF Store, StoreRecord
  <2>3. op'.pc = "dropKey"
    BY <1>3, <1>12 DEF Store, StoreRecord, At, Operations
  <2> HIDE DEF r
  <2>4. RecordFacts'
    BY <1>2, <2>1, <2>2, StoredFacts
  <2> QED
    BY <2>2, <2>3, <2>4 DEF FileInv, FileThere, ShownMeansFile
<1>13. CASE GetMeta
  <2>1. op.pc = "getMeta" /\ UNCHANGED <<key, file>>
    BY <1>13 DEF GetMeta, At
  <2>2. CASE recs' = [recs EXCEPT ![op.rec].meta = TRUE] /\ UNCHANGED type
             /\ \E wifi \in BOOLEAN : op' = [op EXCEPT !.pc = "metaType", !.now = @ \/ wifi]
    <3> DEFINE r == [recs[op.rec] EXCEPT !.meta = TRUE]
    <3>1. r \in Records /\ r.c = recs[op.rec].c /\ r.pack = recs[op.rec].pack
      BY <2>1, HeldRecord, RecordTypes DEF FileInv, Holding, Records
    <3>2. recs' = [recs EXCEPT ![op.rec] = r]
      BY <2>2
    <3> HIDE DEF r
    <3>3. RecordFacts'
      BY <1>2, <2>1, <3>1, <3>2, ChangedFacts DEF Holding
    <3>4. op'.pc = "metaType"
      BY <1>3, <2>2 DEF Operations
    <3> QED
      BY <2>1, <2>2, <3>3, <3>4 DEF FileInv, FileThere, ShownMeansFile
  <2>3. CASE TransferFails /\ UNCHANGED recs
    BY <1>3, <1>4, <1>5, <2>1, <2>3 DEF TransferFails
  <2> QED
    BY <1>13, <2>2, <2>3 DEF GetMeta
<1>14. CASE MetaType
  <2>1. op'.pc = "decide"
    BY <1>3, <1>14 DEF MetaType, Operations
  <2> QED
    BY <1>4, <1>14, <2>1 DEF MetaType, FileThere, ShownMeansFile
<1>15. CASE Decide
  <2>1. UNCHANGED <<recs, file, key>> /\ op.pc = "decide"
    BY <1>15 DEF Decide, At
  <2>2. type' = type \/ type' # "downloaded"
    BY <1>15 DEF Decide, FinalOKType
  <2>3. op'.pc = "clean" => recs[op.rec].pack
    BY <1>3, <1>15 DEF Decide, Operations
  <2>4. op'.pc \in {"clean", "finish", "getPack"}
    BY <1>3, <1>15 DEF Decide, Operations
  <2>5. op.rec \in DOMAIN recs
    BY <2>1, HeldRecord DEF FileInv, Holding
  <2>6. recs[op.rec].pack => file
    BY <2>5 DEF FileInv, RecordFacts, PackMeansFile
  <2> QED
    BY <1>4, <2>1, <2>2, <2>3, <2>4, <2>6 DEF FileInv, FileThere, ShownMeansFile
<1>16. CASE GetPack
  <2>1. UNCHANGED <<recs, file, key>>
    BY <1>16 DEF GetPack
  <2>2. CASE op' = [op EXCEPT !.pc = "unpack"] /\ UNCHANGED type
    BY <1>3, <1>4, <2>1, <2>2 DEF FileInv, FileThere, ShownMeansFile, Operations
  <2>3. CASE TransferFails
    BY <1>3, <1>4, <1>5, <2>1, <2>3 DEF TransferFails
  <2> QED
    BY <1>16, <2>2, <2>3 DEF GetPack
<1>17. CASE Unpack
  <2>1. UNCHANGED <<recs, key>>
    BY <1>17 DEF Unpack
  <2>2. CASE file' = TRUE
    BY <1>2, <2>1, <2>2
    DEF FileInv, RecordFacts, FirstRecord, KeyOrRecord, PackMeansFile, FileThere, ShownMeansFile
  <2>3. CASE FailForGood(op, "ready") /\ UNCHANGED file
    BY <1>3, <1>4, <1>5, <2>1, <2>3
  <2> QED
    BY <1>17, <2>2, <2>3 DEF Unpack
<1>18. CASE PackRecord
  <2> DEFINE r == [recs[op.rec] EXCEPT !.pack = TRUE, !.c = FALSE]
  <2>1. op.pc = "packRecord" /\ UNCHANGED <<type, key, file>>
    BY <1>18 DEF PackRecord, At
  <2>2. r \in Records
    BY <2>1, HeldRecord, RecordTypes DEF FileInv, Holding
  <2>3. recs' = [recs EXCEPT ![op.rec] = r]
    BY <1>3, <1>18, <2>1, HeldRecord DEF PackRecord, FileInv, Holding
  <2>4. file
    BY <2>1 DEF FileInv, FileThere
  <2> HIDE DEF r
  <2>5. RecordFacts'
    BY <1>2, <2>1, <2>2, <2>3, <2>4, ChangedFacts DEF Holding
  <2> QED
    BY <2>1, <2>4, <2>5 DEF FileThere, ShownMeansFile
<1>19. CASE PackType
  <2>1. file /\ UNCHANGED <<recs, key, file>>
    BY <1>19 DEF PackType, At, FileInv, FileThere
  <2> QED
    BY <1>4, <2>1 DEF FileThere, ShownMeansFile
<1>20. CASE Clean
  <2>1. op.pc = "clean" /\ file /\ UNCHANGED <<key, file>>
    BY <1>20 DEF Clean, At, FileInv, FileThere
  <2>2. CASE recs' = recs
    BY <1>4, <2>1, <2>2 DEF FileThere, ShownMeansFile
  <2>3. CASE recs' = [recs EXCEPT ![op.rec].deleted = TRUE]
    <3> DEFINE r == [recs[op.rec] EXCEPT !.deleted = TRUE]
    <3>1. r \in Records
      BY <2>1, HeldRecord, RecordTypes DEF FileInv, Holding
    <3>2. recs' = [recs EXCEPT ![op.rec] = r]
      BY <2>3
    <3> HIDE DEF r
    <3> QED
      BY <1>2, <2>1, <3>1, <3>2, ChangedFacts DEF Holding, FileThere, ShownMeansFile
  <2> QED
    BY <1>20, <2>2, <2>3 DEF Clean
<1> QED
  BY <1>6, <1>7, <1>8, <1>9, <1>10, <1>11, <1>12, <1>13, <1>14, <1>15, <1>16, <1>17,
     <1>18, <1>19, <1>20 DEF Working

\* Every other step leaves the record, the key and the file alone.
LEMMA OtherFile ==
  ASSUME FileInv, Requesting \/ RowStep \/ EntryStep \/ UserStep \/ Restart
  PROVE  RecordFacts' /\ FileThere' /\ ShownMeansFile'
<1> USE DEF pool, user, past, db
<1>1. UNCHANGED <<recs, file, key>>
  BY DEF Requesting, Press, Notify, Confirm, InitProgress, RowStep, Take, NoCertificate, Due,
     TransferFinished, EntryStep, StartOp, Poll, Skip, Finish, UserStep, CancelInQueue,
     CancelNotify, CancelRead, CancelReady, Restart
<1>2. type' = type \/ type' # "downloaded"
  BY DEF Requesting, Press, Notify, Confirm, InitProgress, RowStep, Take, NoCertificate, Due,
     TransferFinished, EntryStep, StartOp, Poll, Skip, Finish, UserStep, CancelInQueue,
     CancelNotify, CancelRead, CancelReady, Restart
<1>3. op \in Operations /\ asked \in [Requests -> {"none", "meta", "accept", "reject"}]
  BY DEF FileInv, Typed, TypeOK
<1>4. op'.pc = op.pc \/ op'.pc \in {"idle", "loop", "popped"}
  <2>1. CASE EntryStep
    BY <1>3, <2>1, LoopType DEF EntryStep, StartOp, Poll, Skip, Finish, Operations
  <2>2. CASE UserStep
    BY <1>3, <2>2 DEF UserStep, CancelInQueue, CancelNotify, CancelRead, CancelReady, Operations
  <2>3. CASE Requesting \/ RowStep
    BY <2>3 DEF Requesting, Press, Notify, Confirm, InitProgress, RowStep, Take, NoCertificate,
       Due, TransferFinished
  <2>4. CASE Restart
    BY <2>4, NewOpType DEF Restart
  <2> QED
    BY <2>1, <2>2, <2>3, <2>4
<1>5. \/ asked' = asked
      \/ \E r \in Requests : \E a : asked[r] = "none" /\ asked' = [asked EXCEPT ![r] = a]
  BY DEF Requesting, Press, Notify, Confirm, InitProgress, RowStep, Take, NoCertificate, Due,
     TransferFinished, EntryStep, StartOp, Poll, Skip, Finish, UserStep, CancelInQueue,
     CancelNotify, CancelRead, CancelReady, Restart
<1>6. Rejected => Rejected'
  BY <1>3, <1>5 DEF Rejected
<1>7. RecordFacts'
  BY <1>1, <1>6, KeptFacts
<1> QED
  BY <1>1, <1>2, <1>4, <1>7 DEF FileInv, FileThere, ShownMeansFile

LEMMA FileNext ==
  ASSUME FileInv, [Next]_vars
  PROVE  FileInv'
<1>1. Typed'
  BY TypeStep DEF FileInv
<1>2. CASE UNCHANGED vars
  BY <1>1, <1>2 DEF vars, db, pool, user, past, FileInv, RecordFacts, FirstRecord, KeyOrRecord,
     PackMeansFile, FileThere, ShownMeansFile, Rejected
<1> QED
  BY <1>1, <1>2, NextSteps, WorkingFile, OtherFile DEF FileInv

\* What is needed to decrypt the file is in the database until the file is
\* there or was rejected, whatever crashes, cancellations and retries do.
THEOREM StaysDecryptable == Spec => []Decryptable
<1>1. FileInv => Decryptable
  BY DEF FileInv, RecordFacts, FirstRecord, KeyOrRecord, Decryptable
<1> QED
  BY <1>1, FileInit, FileNext, PTL DEF Spec

\* A transfer that is recorded as done or shown as downloaded has its file.
THEOREM DoneIsThere == Spec => []DoneMeansFile
<1>1. FileInv => DoneMeansFile
  BY DEF FileInv, RecordFacts, PackMeansFile, ShownMeansFile, DoneMeansFile
<1> QED
  BY <1>1, FileInit, FileNext, PTL DEF Spec


(***************************************************************************)
(* What is shown as loading                                                *)
(***************************************************************************)

\* An operation that will not load anything any more.
Ending == {"delete", "deleteKey", "finish"}

\* An operation that loads, or is about to.
Loads == {"stored", "store", "dropKey", "getMeta", "metaType", "decide", "getPack"}

\* The file was deleted from the server by an earlier run: a rejection has
\* nothing left to delete and goes on like any other request.
DeletedBefore == recs # <<>> /\ recs[1].deleted

\* A request that will yet load the file, or change what is shown.
Pending(r) ==
  /\ row[r] # "absent" /\ ~InAcks(r)
  /\ ~(op.pc \in Ending /\ op.cur.req = r)
  /\ asked[r] = "reject" => DeletedBefore

Shown == type \in Downloading /\ ~file /\ ~orphaned
Loading == Shown => \E r \in Requests : Pending(r)

\* What an operation knows of the record when it begins, ...
Begun ==
  op.pc = "begin" =>
    /\ op.rec = 0 <=> recs = <<>>
    /\ op.rec # 0 => op.deleted = recs[1].deleted

\* ... and what it means that the operation of a rejection loads.
RejectionLoads ==
  op.pc \in Loads /\ asked[op.cur.req] = "reject" => DeletedBefore

LoadInv == RowInv /\ FileInv /\ Begun /\ RejectionLoads /\ Loading

LEMMA LoadInit == Init => LoadInv
<1> SUFFICES ASSUME Init PROVE Begun /\ RejectionLoads /\ Loading
  BY RowInit, FileInit DEF LoadInv
<1>1. op.pc = "idle" /\ type = "none"
  BY NewOpType DEF Init
<1> QED
  BY <1>1 DEF Begun, RejectionLoads, Loads, Loading, Shown, Downloading

\* It is enough that a step shows nothing new and keeps what is pending.
LEMMA StillLoading ==
  ASSUME Loading, Shown' => Shown, \A r \in Requests : Pending(r) => Pending(r)'
  PROVE  Loading'
BY DEF Loading

\* A record keeps its place and stays deleted, whatever an operation does.
LEMMA RecordsStay ==
  ASSUME Typed, Working
  PROVE  DeletedBefore => DeletedBefore'
<1> SUFFICES ASSUME DeletedBefore PROVE DeletedBefore'
  OBVIOUS
<1>1. recs \in Seq(Records) /\ recs # <<>> /\ recs[1].deleted /\ 1 \in DOMAIN recs
  BY DEF DeletedBefore, Typed, TypeOK
<1>2. CASE UNCHANGED recs
  BY <1>2 DEF DeletedBefore
<1>3. ASSUME NEW r \in Records, recs' = Append(recs, r)
      PROVE  DeletedBefore'
  BY <1>1, <1>3, AppendIndex DEF DeletedBefore
<1>4. ASSUME op.pc \in Holding, NEW r \in Records, recs' = [recs EXCEPT ![op.rec] = r],
             recs[op.rec].deleted => r.deleted
      PROVE  DeletedBefore'
  BY <1>1, <1>4, HeldRecord DEF DeletedBefore
<1>5. CASE Begin
  <2> DEFINE b == op.rec # 0 /\ recs[op.rec].c
             r == [NewRecord EXCEPT !.c = b]
  <2>1. r \in Records
    BY RecordTypes
  <2>2. recs' = Append(recs, r) \/ recs' = recs
    BY <1>5 DEF Begin, StoreRecord
  <2> HIDE DEF r
  <2> QED
    BY <1>2, <1>3, <2>1, <2>2
<1>6. CASE Store
  <2> DEFINE r == [NewRecord EXCEPT !.c = TRUE]
  <2>1. r \in Records
    BY RecordTypes
  <2>2. recs' = Append(recs, r)
    BY <1>6 DEF Store, StoreRecord
  <2> HIDE DEF r
  <2> QED
    BY <1>3, <2>1, <2>2
<1>7. CASE DeleteOnly \/ Clean
  <2> DEFINE r == [recs[op.rec] EXCEPT !.deleted = TRUE]
  <2>1. op.pc \in Holding
    BY <1>7 DEF DeleteOnly, Clean, At, Holding
  <2>2. r \in Records /\ r.deleted
    BY <2>1, HeldRecord, RecordTypes DEF Records
  <2>3. recs' = [recs EXCEPT ![op.rec] = r] \/ recs' = recs
    BY <1>7 DEF DeleteOnly, Clean
  <2> HIDE DEF r
  <2> QED
    BY <1>2, <1>4, <2>1, <2>2, <2>3
<1>8. CASE GetMeta
  <2> DEFINE r == [recs[op.rec] EXCEPT !.meta = TRUE]
  <2>1. op.pc \in Holding
    BY <1>8 DEF GetMeta, At, Holding
  <2>2. r \in Records /\ r.deleted = recs[op.rec].deleted
    BY <2>1, HeldRecord, RecordTypes DEF Records
  <2>3. recs' = [recs EXCEPT ![op.rec] = r] \/ recs' = recs
    BY <1>8 DEF GetMeta
  <2> HIDE DEF r
  <2> QED
    BY <1>2, <1>4, <2>1, <2>2, <2>3
<1>9. CASE PackRecord
  <2> DEFINE r == [recs[op.rec] EXCEPT !.pack = TRUE, !.c = FALSE]
  <2>1. op.pc \in Holding
    BY <1>9 DEF PackRecord, At, Holding
  <2>2. r \in Records /\ r.deleted = recs[op.rec].deleted
    BY <2>1, HeldRecord, RecordTypes DEF Records
  <2>3. recs' = [recs EXCEPT ![op.rec] = r]
    BY <1>1, <1>9, <2>1, HeldRecord DEF PackRecord
  <2> HIDE DEF r
  <2> QED
    BY <1>4, <2>1, <2>2, <2>3
<1>10. CASE \/ Process \/ Abort \/ DeleteKey \/ LoadStored \/ DropKey \/ MetaType
            \/ Decide \/ GetPack \/ Unpack \/ PackType
  BY <1>2, <1>10 DEF Process, Abort, DeleteKey, LoadStored, DropKey, MetaType, Decide, GetPack,
     Unpack, PackType
<1> QED
  BY <1>5, <1>6, <1>7, <1>8, <1>9, <1>10 DEF Working

\* An operation that goes on, or has ended already, takes nothing away.
LEMMA PendingStays ==
  ASSUME Typed, Working, op'.pc \in Ending => op.pc \in Ending
  PROVE  \A r \in Requests : Pending(r) => Pending(r)'
<1>1. op'.cur = op.cur /\ UNCHANGED <<row, acks, asked>>
  BY WorkingMoves DEF OpMoves, Quiet, past
<1> QED
  BY <1>1, RecordsStay DEF Pending, InAcks

\* The request of an operation that goes on is pending itself.
LEMMA OwnRequest ==
  ASSUME RowInv, Working, op'.pc \notin Ending,
         asked[op.cur.req] = "reject" => DeletedBefore
  PROVE  op.cur.req \in Requests /\ Pending(op.cur.req)'
<1>1. op.pc \notin {"idle", "loop"} /\ op'.cur = op.cur /\ UNCHANGED <<row, acks, asked>>
  BY WorkingMoves DEF RowInv, OpMoves, Quiet, past
<1>2. op.cur.req \in Requests
  BY <1>1 DEF RowInv, Typed, OpEntry
<1>3. row[op.cur.req] = "processed" /\ ~InAcks(op.cur.req)
  BY <1>1, <1>2 DEF RowInv, RowHandled, InOperation
<1> QED
  BY <1>1, <1>2, <1>3, RecordsStay DEF Pending, InAcks, RowInv

\* What a failure shows is not a file that is loaded.
LEMMA FailureEnds ==
  ASSUME NEW o, FailForNow(o) \/ \E t \in {"fail", "ready"} : FailForGood(o, t)
  PROVE  type' \notin Downloading
BY DEF FailForNow, FailForGood, FinalOKType, Downloading

\* The steps of an operation that works for an entry.
LEMMA WorkingLoads ==
  ASSUME LoadInv, Working
  PROVE  Begun' /\ RejectionLoads' /\ Loading'
<1>1. Typed /\ RowInv /\ OpMoves /\ (FileThere)'
  BY WorkingMoves, WorkingFile DEF LoadInv, RowInv
<1>2. op \in Operations /\ recs \in Seq(Records) /\ op'.cur = op.cur
      /\ UNCHANGED <<asked, orphaned>>
  BY <1>1 DEF Typed, TypeOK, OpMoves, Quiet, past
<1>3. DeletedBefore => DeletedBefore'
  BY <1>1, RecordsStay
<1>4. ASSUME op'.pc # "begin", op'.pc \in Loads => op.pc \in Loads
      PROVE  Begun' /\ RejectionLoads'
  BY <1>2, <1>3, <1>4 DEF LoadInv, Begun, RejectionLoads
<1>5. ASSUME type' \notin Downloading \/ file'
      PROVE  Loading'
  BY <1>5 DEF Loading, Shown
<1>6. ASSUME op'.pc \in Ending => op.pc \in Ending, UNCHANGED <<type, file>>
      PROVE  Loading'
  BY <1>1, <1>2, <1>6, PendingStays, StillLoading DEF LoadInv, Shown
<1>7. ASSUME NEW o \in Operations, FailForNow(o) \/ \E t \in {"fail", "ready"} : FailForGood(o, t)
      PROVE  Begun' /\ RejectionLoads' /\ Loading'
  <2>1. op'.pc = "finish" /\ type' \notin Downloading
    BY <1>1, <1>7, FailureType, FailureEnds
  <2> QED
    BY <1>4, <1>5, <2>1 DEF Loads
<1>8. CASE Process
  <2> DEFINE o == [op EXCEPT !.pc = "begin", !.now = (asked[op.cur.req] = "accept"),
                             !.rec = IF recs = <<>> THEN 0 ELSE 1]
  <2>1. recs' = recs /\ file' = file
    BY <1>8 DEF Process
  <2>2. CASE op' = [o EXCEPT !.deleted = recs # <<>> /\ recs[1].deleted] /\ UNCHANGED type
    <3>1. /\ op'.pc = "begin" /\ op'.rec = (IF recs = <<>> THEN 0 ELSE 1)
          /\ op'.deleted = (recs # <<>> /\ recs[1].deleted)
      BY <1>2, <2>2 DEF Operations
    <3>2. Begun'
      <4>1. CASE recs = <<>>
        BY <2>1, <3>1, <4>1 DEF Begun
      <4>2. CASE recs # <<>>
        <5>1. recs[1] \in Records
          BY <1>2, <4>2
        <5> QED
          BY <2>1, <3>1, <4>2, <5>1 DEF Begun, Records
      <4> QED
        BY <4>1, <4>2
    <3> QED
      BY <1>6, <2>1, <2>2, <3>1, <3>2 DEF RejectionLoads, Loads, Ending
  <2>3. CASE FailForGood(o, "ready")
    <3>1. op'.pc = "finish" /\ type' = "ready"
      BY <1>2, <2>3 DEF FailForGood, Operations
    <3> QED
      BY <1>4, <1>5, <3>1 DEF Loads, Downloading
  <2> QED
    BY <1>8, <2>2, <2>3 DEF Process
<1>9. CASE Abort
  <2>1. op'.pc = "finish" /\ type' \notin Downloading
    BY <1>2, <1>9 DEF Abort, FinalOKType, Downloading, Operations
  <2> QED
    BY <1>4, <1>5, <2>1 DEF Loads
<1>10. CASE Begin
  <2>1. op.pc = "begin" /\ file' = file
    BY <1>10 DEF Begin, At
  <2>2. CASE asked[op.cur.req] = "reject" /\ (op.rec = 0 \/ ~op.deleted)
    <3>1. op'.pc = "delete" /\ type' = type
      BY <1>2, <1>10, <2>1, <2>2 DEF Begin, StoreRecord, At, Operations
    <3>2. ~DeletedBefore
      BY <2>1, <2>2 DEF LoadInv, Begun, DeletedBefore
    <3>3. \A r \in Requests : Pending(r) => Pending(r)'
      <4>1. \A r \in Requests : Pending(r) => r # op.cur.req
        BY <2>2, <3>2 DEF Pending
      <4>2. UNCHANGED <<row, acks, asked>>
        BY <1>1 DEF OpMoves, Quiet, past
      <4> QED
        BY <1>2, <1>3, <4>1, <4>2 DEF Pending, InAcks
    <3>4. Loading'
      BY <1>2, <2>1, <3>1, <3>3, StillLoading DEF LoadInv, Shown
    <3> QED
      BY <1>4, <3>1, <3>4 DEF Loads
  <2>3. CASE ~(asked[op.cur.req] = "reject" /\ (op.rec = 0 \/ ~op.deleted))
    <3>1. op'.pc \in {"decide", "getMeta", "stored"}
      BY <1>2, <1>10, <2>3 DEF Begin, Operations
    <3>2. asked[op.cur.req] = "reject" => DeletedBefore
      BY <2>1, <2>3 DEF LoadInv, Begun, DeletedBefore
    <3>3. op.cur.req \in Requests /\ Pending(op.cur.req)'
      BY <1>1, <3>1, <3>2, OwnRequest DEF Ending
    <3>4. Loading'
      BY <1>2, <3>3 DEF Loading
    <3>5. Begun' /\ RejectionLoads'
      BY <1>2, <1>3, <3>1, <3>2 DEF Begun, RejectionLoads
    <3> QED
      BY <3>4, <3>5
  <2> QED
    BY <2>2, <2>3
<1>11. CASE DeleteOnly
  <2>1. op.pc = "delete" /\ op'.pc = "deleteKey" /\ file' = file
    BY <1>2, <1>11 DEF DeleteOnly, At, Operations
  <2>2. type' = "rejected" \/ type' = type
    BY <1>11 DEF DeleteOnly
  <2> QED
    BY <1>4, <1>5, <1>6, <2>1, <2>2 DEF Loads, Ending, Downloading
<1>12. CASE DeleteKey
  <2>1. op.pc = "deleteKey" /\ op'.pc = "finish" /\ UNCHANGED <<type, file>>
    BY <1>2, <1>12 DEF DeleteKey, At, Operations
  <2> QED
    BY <1>4, <1>6, <2>1 DEF Loads, Ending
<1>13. CASE LoadStored
  <2>1. CASE op' = [op EXCEPT !.pc = "store"] /\ UNCHANGED type
    <3>1. op.pc = "stored" /\ op'.pc = "store" /\ file' = file
      BY <1>2, <1>13, <2>1 DEF LoadStored, At, Operations
    <3> QED
      BY <1>4, <1>6, <2>1, <3>1 DEF Loads, Ending
  <2> QED
    BY <1>2, <1>7, <1>13, <2>1 DEF LoadStored
<1>14. CASE Store \/ DropKey
  <2>1. op.pc \in Loads /\ op'.pc \in {"dropKey", "getMeta"} /\ UNCHANGED <<type, file>>
    BY <1>2, <1>14 DEF Store, StoreRecord, DropKey, At, Operations, Loads
  <2> QED
    BY <1>4, <1>6, <2>1 DEF Ending
<1>15. CASE GetMeta
  <2>1. CASE /\ \E wifi \in BOOLEAN : op' = [op EXCEPT !.pc = "metaType", !.now = @ \/ wifi]
             /\ UNCHANGED type
    <3>1. op.pc = "getMeta" /\ op'.pc = "metaType" /\ file' = file
      BY <1>2, <1>15, <2>1 DEF GetMeta, At, Operations
    <3> QED
      BY <1>4, <1>6, <2>1, <3>1 DEF Loads, Ending
  <2> QED
    BY <1>2, <1>7, <1>15, <2>1 DEF GetMeta, TransferFails
<1>16. CASE MetaType
  <2>1. op.pc = "metaType" /\ op'.pc = "decide" /\ type' = "gotMeta"
    BY <1>2, <1>16 DEF MetaType, At, Operations
  <2> QED
    BY <1>4, <1>5, <2>1 DEF Loads, Downloading
<1>17. CASE Decide
  <2>1. op.pc = "decide"
    BY <1>17 DEF Decide, At
  <2>2. CASE op' = [op EXCEPT !.pc = "clean"]
    <3>1. op'.pc = "clean"
      BY <1>2, <2>2 DEF Operations
    <3>2. file'
      BY <1>1, <3>1 DEF FileThere
    <3> QED
      BY <1>4, <1>5, <3>1, <3>2 DEF Loads
  <2>3. CASE type' = FinalOKType /\ op' = [op EXCEPT !.pc = "finish", !.verdict = "ok"]
    <3>1. op'.pc = "finish" /\ type' \notin Downloading
      BY <1>2, <2>3 DEF FinalOKType, Downloading, Operations
    <3> QED
      BY <1>4, <1>5, <3>1 DEF Loads
  <2>4. CASE op' = [op EXCEPT !.pc = "getPack"]
    <3>1. op'.pc = "getPack"
      BY <1>2, <2>4 DEF Operations
    <3>2. asked[op.cur.req] = "reject" => DeletedBefore
      BY <2>1 DEF LoadInv, RejectionLoads, Loads
    <3>3. op.cur.req \in Requests /\ Pending(op.cur.req)'
      BY <1>1, <3>1, <3>2, OwnRequest DEF Ending
    <3>4. Loading'
      BY <1>2, <3>3 DEF Loading
    <3> QED
      BY <1>4, <2>1, <3>1, <3>4 DEF Loads
  <2> QED
    BY <1>17, <2>2, <2>3, <2>4 DEF Decide
<1>18. CASE GetPack
  <2>1. CASE op' = [op EXCEPT !.pc = "unpack"] /\ UNCHANGED type
    <3>1. op'.pc = "unpack" /\ file' = file
      BY <1>2, <1>18, <2>1 DEF GetPack, Operations
    <3> QED
      BY <1>4, <1>6, <2>1, <3>1 DEF Loads, Ending
  <2> QED
    BY <1>2, <1>7, <1>18, <2>1 DEF GetPack, TransferFails
<1>19. CASE Unpack
  <2>1. CASE file' = TRUE /\ op' = [op EXCEPT !.pc = "packRecord"]
    <3>1. op'.pc = "packRecord"
      BY <1>2, <2>1 DEF Operations
    <3> QED
      BY <1>4, <1>5, <2>1, <3>1 DEF Loads
  <2> QED
    BY <1>2, <1>7, <1>19, <2>1 DEF Unpack
<1>20. CASE PackRecord \/ PackType \/ Clean
  <2>1. file /\ file' = file /\ op'.pc \in {"packType", "clean", "finish"}
    BY <1>2, <1>20 DEF PackRecord, PackType, Clean, At, Operations, LoadInv, FileInv, FileThere
  <2> QED
    BY <1>4, <1>5, <2>1 DEF Loads
<1> QED
  BY <1>8, <1>9, <1>10, <1>11, <1>12, <1>13, <1>14, <1>15, <1>16, <1>17, <1>18, <1>19, <1>20
  DEF Working

\* Requests.
LEMMA RequestingLoads ==
  ASSUME LoadInv, Requesting
  PROVE  Begun' /\ RejectionLoads' /\ Loading'
<1>1. /\ UNCHANGED <<op, recs, acks, file>> /\ (orphaned => orphaned')
      /\ row \in [Requests -> {"absent", "waiting", "backoff", "processed"}]
      /\ asked \in [Requests -> {"none", "meta", "accept", "reject"}]
  BY DEF Requesting, Press, Notify, Confirm, InitProgress, pool, past, user, db, LoadInv, RowInv,
     Typed, TypeOK
<1>2. \A r \in Requests : asked[r] = "none" => row[r] = "absent"
  BY DEF LoadInv, RowInv, BlocksInOrder
<1>3. \A r \in Requests : row[r] # "absent" => asked'[r] = asked[r] /\ row'[r] # "absent"
  BY <1>1, <1>2 DEF Requesting, Press, Notify, Confirm, InitProgress, Dispatch, past, db
<1>4. op.pc \notin {"idle", "loop"} =>
        op.cur.req \in Requests /\ row[op.cur.req] = "processed"
  BY DEF LoadInv, RowInv, RowHandled, InOperation, Typed, OpEntry
<1>5. Begun' /\ RejectionLoads'
  BY <1>1, <1>3, <1>4 DEF LoadInv, Begun, RejectionLoads, Loads, DeletedBefore
<1>6. \A r \in Requests : Pending(r) => Pending(r)'
  BY <1>1, <1>3 DEF Pending, InAcks, DeletedBefore
<1>7. ASSUME type' = type
      PROVE  Loading'
  BY <1>1, <1>6, <1>7, StillLoading DEF LoadInv, Shown
<1>8. ASSUME type' \notin Downloading
      PROVE  Loading'
  BY <1>8 DEF Loading, Shown
<1>9. CASE InitProgress
  <2>1. PICK r \in Requests : r = Head(service).req
    <3>1. Head(service) \in Blocks
      BY <1>9, TailType DEF InitProgress, LoadInv, RowInv, Typed, TypeOK
    <3> QED
      BY <3>1 DEF Blocks
  <2>2. CASE asked[r] = "reject"
    BY <1>5, <1>8, <1>9, <2>1, <2>2 DEF InitProgress, Downloading
  <2>3. CASE asked[r] # "reject" /\ row[r] = "waiting"
    <3>1. ~InAcks(r) /\ ~(op.pc \in Ending /\ op.cur.req = r)
      BY <2>1, <2>3 DEF LoadInv, RowInv, RowHandled, InOperation, Ending
    <3>2. UNCHANGED <<row, asked>>
      BY <1>9 DEF InitProgress
    <3>3. Pending(r)'
      BY <1>1, <2>3, <3>1, <3>2 DEF Pending, InAcks
    <3> QED
      BY <1>5, <3>3 DEF Loading
  <2>4. CASE row[r] # "waiting"
    BY <1>5, <1>9, <2>1, <2>4 DEF InitProgress, Loading, Shown
  <2> QED
    BY <2>2, <2>3, <2>4
<1>10. CASE ~InitProgress
  <2>1. type' = type \/ type' \in {"ready", "rejected"}
    BY <1>10 DEF Requesting, Press, Notify, Confirm, db
  <2> QED
    BY <1>5, <1>7, <1>8, <2>1 DEF Downloading
<1> QED
  BY <1>5, <1>9, <1>10

NoCertificateStep == \E r \in Requests : NoCertificate(r)

\* The message manager, the entries, the user and a restart.
LEMMA OtherLoads ==
  ASSUME LoadInv, RowStep \/ EntryStep \/ UserStep \/ Restart
  PROVE  Begun' /\ RejectionLoads' /\ Loading'
<1> USE DEF pool, user, past, db
<1>1. UNCHANGED <<recs, file, asked>> /\ (orphaned => orphaned')
  <2>1. UNCHANGED <<recs, file, asked>>
    BY DEF RowStep, Take, NoCertificate, Due, TransferFinished, EntryStep, StartOp, Poll, Skip,
       Finish, UserStep, CancelInQueue, CancelNotify, CancelRead, CancelReady, Restart
  <2>2. orphaned' = orphaned \/ orphaned' = TRUE \/ orphaned' = (orphaned \/ service # <<>>)
    BY DEF RowStep, Take, NoCertificate, Due, TransferFinished, EntryStep, StartOp, Poll, Skip,
       Finish, UserStep, CancelInQueue, CancelNotify, CancelRead, CancelReady, Restart
  <2>3. orphaned => orphaned'
    BY <2>2, Zenon
  <2> QED
    BY <2>1, <2>3
<1>2. type' = type \/ type' = "ready"
  BY DEF RowStep, Take, NoCertificate, Due, TransferFinished, EntryStep, StartOp, Poll, Skip,
     Finish, UserStep, CancelInQueue, CancelNotify, CancelRead, CancelReady, Restart
<1>3. /\ op \in Operations /\ acks \in Seq(Reports)
      /\ row \in [Requests -> {"absent", "waiting", "backoff", "processed"}]
      /\ tries \in [Requests -> 0 .. MaxResend]
  BY DEF LoadInv, RowInv, Typed, TypeOK
<1>4. \/ op'.pc \in {"idle", "loop", "popped"}
      \/ op'.pc = op.pc /\ op'.cur.req = op.cur.req /\ op'.rec = op.rec /\ op'.deleted = op.deleted
  <2>1. CASE EntryStep
    BY <1>3, <2>1, LoopType DEF EntryStep, StartOp, Poll, Skip, Finish, Operations
  <2>2. CASE UserStep
    BY <1>3, <2>2 DEF UserStep, CancelInQueue, CancelNotify, CancelRead, CancelReady, Operations
  <2>3. CASE RowStep
    BY <2>3 DEF RowStep, Take, NoCertificate, Due, TransferFinished
  <2>4. CASE Restart
    BY <2>4, NewOpType DEF Restart
  <2> QED
    BY <2>1, <2>2, <2>3, <2>4
<1>5. Begun' /\ RejectionLoads'
  BY <1>1, <1>4 DEF LoadInv, Begun, RejectionLoads, Loads, DeletedBefore
<1>6. ASSUME \A r \in Requests : Pending(r) => row'[r] # "absent" /\ ~InAcks(r)'
      PROVE  Loading'
  <2>1. \A r \in Requests : Pending(r) => Pending(r)'
    BY <1>1, <1>4, <1>6 DEF Pending, Ending, DeletedBefore
  <2>2. Shown' => Shown
    BY <1>1, <1>2 DEF Shown, Downloading
  <2> QED
    BY <2>1, <2>2, StillLoading DEF LoadInv
<1>7. ASSUME row' = row, acks' = acks
      PROVE  Loading'
  BY <1>6, <1>7 DEF Pending, InAcks
<1>8. CASE NoCertificateStep
  BY <1>5, <1>8 DEF NoCertificateStep, NoCertificate, Loading, Shown
<1>9. CASE \E r \in Requests : Take(r) \/ Due(r)
  <2>1. acks' = acks /\ \A q \in Requests : row[q] # "absent" => row'[q] # "absent"
    BY <1>3, <1>9 DEF Take, Due
  <2> QED
    BY <1>5, <1>6, <2>1 DEF Pending, InAcks
<1>10. CASE TransferFinished
  <2>1. acks # <<>> /\ acks' = Tail(acks)
    BY <1>10 DEF TransferFinished
  <2>2. \A q \in Requests : ~InAcks(q) => q # Head(acks).req /\ ~InAcks(q)'
    BY <1>3, <2>1, TailIndex DEF InAcks
  <2>3. \A q \in Requests : q # Head(acks).req => row'[q] = row[q]
    BY <1>3, <1>10 DEF TransferFinished, Finished
  <2> QED
    BY <1>5, <1>6, <2>2, <2>3 DEF Pending
<1>11. CASE Finish
  <2> DEFINE a == [req |-> op.cur.req, verdict |-> op.verdict]
  <2>1. op.pc = "finish" /\ row' = row /\ acks' = Append(acks, a)
    BY <1>11 DEF Finish, At
  <2>2. a \in Reports /\ a.req = op.cur.req
    BY <1>3, <2>1 DEF LoadInv, RowInv, Typed, OpEntry, Reports, Operations
  <2> HIDE DEF a
  <2>3. \A q : InAcks(q)' => InAcks(q) \/ q = op.cur.req
    BY <1>3, <2>1, <2>2, AppendIndex DEF InAcks
  <2> QED
    BY <1>5, <1>6, <2>1, <2>3 DEF Pending, Ending
<1>12. CASE StartOp \/ Poll \/ Skip \/ UserStep
  <2>1. row' = row /\ acks' = acks
    BY <1>12 DEF StartOp, Poll, Skip, UserStep, CancelInQueue, CancelNotify, CancelRead, CancelReady
  <2> QED
    BY <1>5, <1>7, <2>1
<1>13. CASE Restart
  <2>1. acks' = <<>> /\ \A q \in Requests : row[q] # "absent" => row'[q] # "absent"
    BY <1>13 DEF Restart
  <2> QED
    BY <1>5, <1>6, <2>1 DEF Pending, InAcks
<1> QED
  BY <1>5, <1>8, <1>9, <1>10, <1>11, <1>12, <1>13 DEF RowStep, EntryStep, NoCertificateStep

LEMMA LoadNext ==
  ASSUME LoadInv, [Next]_vars
  PROVE  LoadInv'
<1>1. RowInv' /\ FileInv'
  BY RowNext, FileNext DEF LoadInv
<1>2. CASE UNCHANGED vars
  BY <1>1, <1>2 DEF vars, db, pool, user, past, LoadInv, Begun, RejectionLoads, Loading, Shown,
     Pending, InAcks, DeletedBefore
<1> QED
  BY <1>1, <1>2, NextSteps, WorkingLoads, RequestingLoads, OtherLoads DEF LoadInv

\* What is shown as loading has a row, unless the file was fetched, the type
\* was set late or the row dropped silently: whatever ends a request also
\* changes what is shown, or leaves it to another request.
THEOREM LoadingHasRow == Spec => []ShownMeansPending
<1>1. LoadInv => ShownMeansPending
  BY DEF LoadInv, Loading, Shown, Pending, ShownMeansPending
<1> QED
  BY <1>1, LoadInit, LoadNext, PTL DEF Spec

-----------------------------------------------------------------------------
(***************************************************************************)
(* The download implements a retrieval.                                    *)
(***************************************************************************)

\* Meta data are loaded with what decrypts them.
MetaKept == \A i \in DOMAIN recs : recs[i].meta => recs[i].c \/ recs[i].pack

\* What an operation knows at each of its steps.
Stage ==
  /\ op.pc \in {"dropKey", "getMeta", "metaType", "decide"} => recs[op.rec].c \/ recs[op.rec].pack
  /\ op.pc \in {"getPack", "unpack"} => recs[op.rec].c
  /\ op.pc = "unpack" => server
  /\ op.pc = "store" => key
  /\ op.pc \in {"packType", "clean"} => recs[op.rec].pack
  /\ op.pc \in {"delete", "deleteKey"} => asked[op.cur.req] = "reject"

RetrievalInv == FileInv /\ MetaKept /\ Stage

RetrieveStep == [Retrieve!Next]_(Retrieve!vars)

LEMMA RetrievalInit == Init => RetrievalInv /\ Retrieve!Init
<1> SUFFICES ASSUME Init PROVE MetaKept /\ Stage /\ Retrieve!Init
  BY FileInit DEF RetrievalInv
<1>1. op.pc = "idle" /\ recs = <<>> /\ type = "none" /\ ~Rejected
  BY NewOpType DEF Init, Rejected
<1>2. Readable = TRUE /\ Recorded = FALSE
  BY <1>1 DEF Init, Readable, Recorded
<1>3. SeenAs = "open"
  BY <1>1 DEF SeenAs, Downloading
<1> QED
  BY <1>1, <1>2, <1>3 DEF Init, MetaKept, Stage, Retrieve!Init

\* Steps that the retrieval does not see, or that only show something.
LEMMA Still ==
  ASSUME UNCHANGED <<Rejected, server, Readable, file, Recorded, SeenAs>>
  PROVE  RetrieveStep
BY DEF RetrieveStep, Retrieve!vars

LEMMA Shows ==
  ASSUME UNCHANGED <<Rejected, server, Readable, file, Recorded>>,
         type' = "downloaded" => Recorded, type' = "rejected" => Rejected
  PROVE  RetrieveStep
<1>1. /\ SeenAs' \in {"open", "loading", "failed", "refused", "done"}
      /\ SeenAs' = "done" => type' = "downloaded"
      /\ SeenAs' = "refused" => type' = "rejected"
  BY DEF SeenAs, Downloading
<1>2. Retrieve!Show
  BY <1>1 DEF Retrieve!Show
<1> QED
  BY <1>1, <1>2 DEF RetrieveStep, Retrieve!Next

\* The server is asked to delete the file.
LEMMA Discards ==
  ASSUME UNCHANGED <<Rejected, Readable, file, Recorded>>, server' = FALSE \/ server' = server,
         \/ Recorded /\ type' \in {type, "downloaded"}
         \/ Rejected /\ type' \in {type, "rejected"}
         \/ type' \in {"fail", "ready"}
  PROVE  RetrieveStep
<1>1. /\ type' = type => SeenAs' = SeenAs
      /\ type' = "downloaded" => SeenAs' = "done"
      /\ type' = "rejected" => SeenAs' = "refused"
      /\ type' = "fail" => SeenAs' = "failed"
      /\ type' = "ready" => SeenAs' = "open"
  BY DEF SeenAs, Downloading
<1>2. CASE server' = server
  <2>1. CASE type' = type
    BY <1>1, <1>2, <2>1, Still
  <2>2. CASE type' # type
    BY <1>2, <2>2, Shows
  <2> QED
    BY <2>1, <2>2
<1>3. CASE server' = FALSE
  <2>1. Retrieve!Discard
    BY <1>1, <1>3 DEF Retrieve!Discard
  <2> QED
    BY <2>1 DEF RetrieveStep, Retrieve!Next
<1> QED
  BY <1>2, <1>3

LEMMA FailureRetrieves ==
  ASSUME NEW o, FailForNow(o) \/ \E t \in {"fail", "ready"} : FailForGood(o, t),
         UNCHANGED <<Rejected, Readable, file, Recorded>>
  PROVE  RetrieveStep
<1>1. CASE FailForNow(o)
  <2>1. type' \notin {"downloaded", "rejected"} /\ server' = server
    BY <1>1 DEF FailForNow, FinalOKType
  <2> QED
    BY <2>1, Shows
<1>2. CASE \E t \in {"fail", "ready"} : FailForGood(o, t)
  <2>1. type' \in {"fail", "ready"}
    BY <1>2 DEF FailForGood
  <2>2. server' = server \/ \E answer : DeleteFromServer(answer)
    BY <1>2 DEF FailForGood
  <2>3. server' = FALSE \/ server' = server
    BY <2>2, Zenon DEF DeleteFromServer
  <2> QED
    BY <2>1, <2>3, Discards
<1> QED
  BY <1>1, <1>2

\* A record is stored, or changed where it says how far the transfer came.
LEMMA StoredKept ==
  ASSUME Typed, MetaKept, NEW r \in Records, recs' = Append(recs, r), ~r.pack, ~r.meta,
         r.c => Readable, UNCHANGED key
  PROVE  /\ MetaKept' /\ UNCHANGED <<Readable, Recorded>>
         /\ recs'[Len(recs) + 1] = r
<1>1. recs \in Seq(Records)
  BY DEF Typed, TypeOK
<1>2. /\ DOMAIN recs' = DOMAIN recs \cup {Len(recs) + 1}
      /\ \A i \in DOMAIN recs : recs'[i] = recs[i]
      /\ recs'[Len(recs) + 1] = r
  BY <1>1, AppendIndex
<1>3. Recorded' = Recorded
  BY <1>2 DEF Recorded
<1>4. Readable' <=> Readable
  BY <1>2 DEF Readable
<1>5. Readable' = Readable
  BY <1>4 DEF Readable
<1> QED
  BY <1>2, <1>3, <1>5 DEF MetaKept

LEMMA ChangedKept ==
  ASSUME Typed, MetaKept, op.pc \in Holding, NEW r \in Records,
         recs' = [recs EXCEPT ![op.rec] = r], r.meta => r.c \/ r.pack
  PROVE  /\ MetaKept' /\ op.rec \in DOMAIN recs
         /\ DOMAIN recs' = DOMAIN recs
         /\ \A i \in DOMAIN recs : recs'[i] = IF i = op.rec THEN r ELSE recs[i]
<1>1. recs \in Seq(Records) /\ op.rec \in DOMAIN recs
  BY HeldRecord DEF Typed, TypeOK
<1>2. /\ DOMAIN recs' = DOMAIN recs
      /\ \A i \in DOMAIN recs : recs'[i] = IF i = op.rec THEN r ELSE recs[i]
  BY <1>1
<1> QED
  BY <1>1, <1>2 DEF MetaKept

LEMMA MarkedKept ==
  ASSUME Typed, MetaKept, op.pc \in Holding, NEW r \in Records,
         recs' = [recs EXCEPT ![op.rec] = r], r.meta => r.c \/ r.pack,
         r.c = recs[op.rec].c, r.pack = recs[op.rec].pack, UNCHANGED key
  PROVE  /\ MetaKept' /\ UNCHANGED <<Readable, Recorded>>
         /\ recs'[op.rec].c = recs[op.rec].c /\ recs'[op.rec].pack = recs[op.rec].pack
<1>1. /\ MetaKept' /\ op.rec \in DOMAIN recs
      /\ DOMAIN recs' = DOMAIN recs
      /\ \A i \in DOMAIN recs : recs'[i] = IF i = op.rec THEN r ELSE recs[i]
  BY ChangedKept
<1>2. \A i \in DOMAIN recs : recs'[i].c = recs[i].c /\ recs'[i].pack = recs[i].pack
  BY <1>1
<1>3. Recorded' = Recorded
  BY <1>1, <1>2 DEF Recorded
<1>4. (\E i \in DOMAIN recs' : recs'[i].c) <=> (\E i \in DOMAIN recs : recs[i].c)
  BY <1>1, <1>2
<1>5. Readable' = Readable
  BY <1>4 DEF Readable
<1> QED
  BY <1>1, <1>2, <1>3, <1>5

LEMMA DeletedKept ==
  ASSUME Typed, MetaKept, op.pc \in {"delete", "clean"}, UNCHANGED key,
         recs' = recs \/ recs' = [recs EXCEPT ![op.rec].deleted = TRUE]
  PROVE  /\ MetaKept' /\ UNCHANGED <<Readable, Recorded>>
<1>1. CASE recs' = recs
  BY <1>1 DEF MetaKept, Readable, Recorded
<1>2. CASE recs' = [recs EXCEPT ![op.rec].deleted = TRUE]
  <2> DEFINE r == [recs[op.rec] EXCEPT !.deleted = TRUE]
  <2>1. op.rec \in DOMAIN recs /\ recs[op.rec] \in Records /\ r \in Records
    BY HeldRecord, RecordTypes DEF Holding
  <2>2. r.c = recs[op.rec].c /\ r.pack = recs[op.rec].pack /\ r.meta = recs[op.rec].meta
    BY <2>1 DEF Records
  <2>3. recs' = [recs EXCEPT ![op.rec] = r]
    BY <1>2
  <2>4. r.meta => r.c \/ r.pack
    BY <2>1, <2>2 DEF MetaKept
  <2> HIDE DEF r
  <2> QED
    BY <2>1, <2>2, <2>3, <2>4, MarkedKept DEF Holding
<1> QED
  BY <1>1, <1>2

\* The steps of an operation that works for an entry.
LEMMA WorkingRetrieves ==
  ASSUME RetrievalInv, Working
  PROVE  MetaKept' /\ Stage' /\ RetrieveStep
<1>1. Typed /\ OpMoves
  BY WorkingMoves DEF RetrievalInv, FileInv
<1>2. /\ op \in Operations /\ recs \in Seq(Records) /\ op.rec <= Len(recs)
      /\ op'.cur = op.cur /\ UNCHANGED asked
  BY <1>1 DEF Typed, TypeOK, OpMoves, Quiet, past
<1>3. Rejected' = Rejected
  BY <1>2 DEF Rejected
<1>4. ASSUME UNCHANGED <<recs, key>>
      PROVE  MetaKept' /\ UNCHANGED <<Readable, Recorded>>
  BY <1>4 DEF RetrievalInv, MetaKept, Readable, Recorded
<1>5. ASSUME op'.pc \in {"begin", "stored", "finish", "packRecord"}
      PROVE  Stage'
  BY <1>5 DEF Stage
<1>6. ASSUME NEW o \in Operations, UNCHANGED <<recs, key, file>>,
             FailForNow(o) \/ \E t \in {"fail", "ready"} : FailForGood(o, t)
      PROVE  MetaKept' /\ Stage' /\ RetrieveStep
  <2>1. op'.pc = "finish"
    BY <1>1, <1>6, FailureType
  <2>2. RetrieveStep
    BY <1>3, <1>4, <1>6, FailureRetrieves
  <2> QED
    BY <1>4, <1>5, <1>6, <2>1, <2>2
<1>7. ASSUME type' = type
      PROVE  SeenAs' = SeenAs
  BY <1>7 DEF SeenAs
<1>8. CASE Process
  <2> DEFINE o == [op EXCEPT !.pc = "begin", !.now = (asked[op.cur.req] = "accept"),
                             !.rec = IF recs = <<>> THEN 0 ELSE 1]
  <2>1. UNCHANGED <<recs, key, file>>
    BY <1>8 DEF Process
  <2>2. o \in Operations
    <3>1. (asked[op.cur.req] = "accept") \in BOOLEAN /\ (IF recs = <<>> THEN 0 ELSE 1) \in Nat
      OBVIOUS
    <3> QED
      BY <1>2, <3>1 DEF Operations, PCs
  <2>3. CASE op' = [o EXCEPT !.deleted = recs # <<>> /\ recs[1].deleted]
             /\ UNCHANGED <<type, server>>
    <3>1. op'.pc = "begin"
      BY <1>2, <2>3 DEF Operations
    <3> QED
      BY <1>3, <1>4, <1>5, <1>7, <2>1, <2>3, <3>1, Still
  <2> HIDE DEF o
  <2>4. CASE FailForGood(o, "ready")
    BY <1>6, <2>1, <2>2, <2>4
  <2> QED
    BY <1>8, <2>3, <2>4 DEF Process, o
<1>9. CASE Abort
  <2>1. UNCHANGED <<recs, key, server, file>> /\ op'.pc = "finish"
        /\ type' \notin {"downloaded", "rejected"}
    BY <1>2, <1>9 DEF Abort, FinalOKType, Operations
  <2> QED
    BY <1>3, <1>4, <1>5, <2>1, Shows
<1>10. CASE Begin
  <2>1. op.pc = "begin" /\ UNCHANGED <<key, server, file>>
    BY <1>10 DEF Begin, At
  <2>2. CASE /\ asked[op.cur.req] = "reject" /\ UNCHANGED type
             /\ StoreRecord([NewRecord EXCEPT !.c = op.rec # 0 /\ recs[op.rec].c])
    <3> DEFINE b == op.rec # 0 /\ recs[op.rec].c
               r == [NewRecord EXCEPT !.c = b]
    <3>1. r \in Records /\ ~r.pack /\ ~r.meta /\ r.c = b
      BY RecordTypes DEF NewRecord
    <3>2. op.rec # 0 => op.rec \in DOMAIN recs
      BY <1>2 DEF Operations
    <3>3. r.c => Readable
      BY <3>1, <3>2 DEF Readable
    <3>4. recs' = Append(recs, r) /\ op'.pc = "delete"
      BY <1>2, <2>1, <2>2 DEF StoreRecord, At, Operations
    <3> HIDE DEF r
    <3>5. MetaKept' /\ UNCHANGED <<Readable, Recorded>>
      BY <1>1, <2>1, <3>1, <3>3, <3>4, StoredKept DEF RetrievalInv
    <3>6. Stage'
      BY <1>2, <2>2, <3>4 DEF Stage
    <3> QED
      BY <1>3, <1>7, <2>1, <2>2, <3>5, <3>6, Still
  <2>3. CASE /\ op.rec # 0 /\ KeyComputingDone(recs[op.rec]) /\ UNCHANGED <<recs, type>>
             /\ op' = [op EXCEPT !.pc = IF recs[op.rec].meta THEN "decide" ELSE "getMeta"]
    <3>1. op.rec \in DOMAIN recs
      BY <1>2, <2>3 DEF Operations
    <3>2. recs[op.rec].c \/ recs[op.rec].pack
      BY <2>3, <3>1 DEF KeyComputingDone, RetrievalInv, MetaKept
    <3>3. op'.pc \in {"decide", "getMeta"} /\ op'.rec = op.rec
      BY <1>2, <2>3 DEF Operations
    <3>4. Stage'
      BY <2>3, <3>2, <3>3 DEF Stage
    <3> QED
      BY <1>3, <1>4, <1>7, <2>1, <2>3, <3>4, Still
  <2>4. CASE op' = [op EXCEPT !.pc = "stored"] /\ type' = "downloadingMeta" /\ UNCHANGED recs
    <3>1. op'.pc = "stored"
      BY <1>2, <2>4 DEF Operations
    <3> QED
      BY <1>3, <1>4, <1>5, <2>1, <2>4, <3>1, Shows
  <2> QED
    BY <1>10, <2>2, <2>3, <2>4 DEF Begin
<1>11. CASE DeleteOnly
  <2>1. op.pc = "delete" /\ UNCHANGED <<key, file>> /\ op'.pc = "deleteKey"
    BY <1>2, <1>11 DEF DeleteOnly, At, Operations
  <2>2. asked[op.cur.req] = "reject" /\ op.cur.req \in Requests
    BY <1>1, <2>1 DEF RetrievalInv, Stage, Typed, OpEntry
  <2>3. type' \in {type, "rejected"}
        /\ (recs' = recs \/ recs' = [recs EXCEPT ![op.rec].deleted = TRUE])
    BY <1>11 DEF DeleteOnly
  <2>4. \E answer : DeleteFromServer(answer)
    BY <1>11 DEF DeleteOnly
  <2>5. server' = FALSE \/ server' = server
    BY <2>4, Zenon DEF DeleteFromServer
  <2>6. MetaKept' /\ UNCHANGED <<Readable, Recorded>>
    BY <1>1, <2>1, <2>3, DeletedKept DEF RetrievalInv
  <2>7. Rejected
    BY <2>2 DEF Rejected
  <2>8. RetrieveStep
    BY <1>3, <2>1, <2>3, <2>5, <2>6, <2>7, Discards
  <2>9. Stage'
    BY <1>2, <2>1, <2>2 DEF Stage
  <2> QED
    BY <2>6, <2>8, <2>9
<1>12. CASE DeleteKey \/ DropKey
  <2>1. /\ op.pc \in {"deleteKey", "dropKey"} /\ key' = FALSE
        /\ UNCHANGED <<type, recs, server, file>>
    BY <1>12 DEF DeleteKey, DropKey, At
  <2>2. (Readable' => Readable) /\ Recorded' = Recorded /\ MetaKept'
    BY <2>1 DEF Readable, Recorded, MetaKept, RetrievalInv
  <2>3. ASSUME Rejected \/ file \/ Readable'
        PROVE  RetrieveStep
    <3>1. CASE Readable'
      <4>1. Readable' = Readable
        BY <2>2, <3>1 DEF Readable
      <4> QED
        BY <1>3, <1>7, <2>1, <2>2, <4>1, Still
    <3>2. CASE ~Readable'
      <4>1. Retrieve!Forget
        BY <1>3, <1>7, <2>1, <2>2, <2>3, <3>2 DEF Retrieve!Forget
      <4> QED
        BY <4>1 DEF RetrieveStep, Retrieve!Next
    <3> QED
      BY <3>1, <3>2
  <2>4. CASE DeleteKey
    <3>1. op.pc = "deleteKey" /\ op'.pc = "finish"
      BY <1>2, <2>4 DEF DeleteKey, At, Operations
    <3>2. Rejected
      BY <1>1, <3>1 DEF RetrievalInv, Stage, Typed, OpEntry, Rejected
    <3> QED
      BY <1>5, <2>2, <2>3, <3>1, <3>2
  <2>5. CASE DropKey
    <3>1. op.pc = "dropKey" /\ op'.pc = "getMeta" /\ op'.rec = op.rec
      BY <1>2, <2>5 DEF DropKey, At, Operations
    <3>2. op.rec \in DOMAIN recs /\ (recs[op.rec].c \/ recs[op.rec].pack)
      BY <1>1, <3>1, HeldRecord DEF RetrievalInv, Stage, Holding
    <3>3. file \/ Readable'
      BY <2>1, <3>2 DEF Readable, RetrievalInv, FileInv, RecordFacts, PackMeansFile
    <3>4. Stage'
      BY <2>1, <3>1, <3>2 DEF Stage
    <3> QED
      BY <2>2, <2>3, <3>3, <3>4
  <2> QED
    BY <1>12, <2>4, <2>5
<1>13. CASE LoadStored
  <2>1. UNCHANGED <<recs, key, file>>
    BY <1>13 DEF LoadStored
  <2>2. CASE key /\ op' = [op EXCEPT !.pc = "store"] /\ UNCHANGED <<type, server>>
    <3>1. op'.pc = "store"
      BY <1>2, <2>2 DEF Operations
    <3>2. Stage'
      BY <2>1, <2>2, <3>1 DEF Stage
    <3> QED
      BY <1>3, <1>4, <1>7, <2>1, <2>2, <3>2, Still
  <2>3. CASE FailForNow(op) \/ \E t \in {"fail", "ready"} : FailForGood(op, t)
    BY <1>2, <1>6, <2>1, <2>3
  <2> QED
    BY <1>13, <2>2, <2>3 DEF LoadStored
<1>14. CASE Store
  <2> DEFINE r == [NewRecord EXCEPT !.c = TRUE]
  <2>1. r \in Records /\ ~r.pack /\ ~r.meta /\ r.c
    BY RecordTypes DEF NewRecord
  <2>2. recs' = Append(recs, r) /\ UNCHANGED <<type, key, server, file>>
    BY <1>14 DEF Store, StoreRecord
  <2>3. op.pc = "store" /\ op'.pc = "dropKey" /\ op'.rec = Len(recs) + 1
    BY <1>2, <1>14 DEF Store, StoreRecord, At, Operations
  <2> HIDE DEF r
  <2>4. Readable
    BY <2>3 DEF Readable, RetrievalInv, Stage
  <2>5. MetaKept' /\ UNCHANGED <<Readable, Recorded>> /\ recs'[Len(recs) + 1] = r
    BY <1>1, <2>1, <2>2, <2>4, StoredKept DEF RetrievalInv
  <2>6. Stage'
    BY <2>1, <2>3, <2>5 DEF Stage
  <2> QED
    BY <1>3, <1>7, <2>2, <2>5, <2>6, Still
<1>15. CASE GetMeta
  <2>1. op.pc = "getMeta" /\ UNCHANGED <<key, file>>
    BY <1>15 DEF GetMeta, At
  <2>2. CASE /\ recs' = [recs EXCEPT ![op.rec].meta = TRUE] /\ UNCHANGED <<type, server>>
             /\ \E wifi \in BOOLEAN : op' = [op EXCEPT !.pc = "metaType", !.now = @ \/ wifi]
    <3> DEFINE r == [recs[op.rec] EXCEPT !.meta = TRUE]
    <3>1. r \in Records /\ r.c = recs[op.rec].c /\ r.pack = recs[op.rec].pack
      BY <1>1, <2>1, HeldRecord, RecordTypes DEF Holding, Records
    <3>2. recs[op.rec].c \/ recs[op.rec].pack
      BY <2>1 DEF RetrievalInv, Stage
    <3>3. recs' = [recs EXCEPT ![op.rec] = r]
      BY <2>2
    <3> HIDE DEF r
    <3>4. /\ MetaKept' /\ UNCHANGED <<Readable, Recorded>>
          /\ recs'[op.rec].c = recs[op.rec].c /\ recs'[op.rec].pack = recs[op.rec].pack
      BY <1>1, <2>1, <3>1, <3>2, <3>3, MarkedKept DEF RetrievalInv, Holding
    <3>5. op'.pc = "metaType" /\ op'.rec = op.rec
      BY <1>2, <2>2 DEF Operations
    <3>6. Stage'
      BY <3>2, <3>4, <3>5 DEF Stage
    <3> QED
      BY <1>3, <1>7, <2>1, <2>2, <3>4, <3>6, Still
  <2>3. CASE TransferFails /\ UNCHANGED recs
    BY <1>2, <1>6, <2>1, <2>3 DEF TransferFails
  <2> QED
    BY <1>15, <2>2, <2>3 DEF GetMeta
<1>16. CASE MetaType
  <2>1. /\ UNCHANGED <<recs, key, server, file>> /\ type' = "gotMeta"
        /\ op.pc = "metaType" /\ op'.pc = "decide" /\ op'.rec = op.rec
    BY <1>2, <1>16 DEF MetaType, At, Operations
  <2>2. Stage'
    BY <2>1 DEF RetrievalInv, Stage
  <2> QED
    BY <1>3, <1>4, <2>1, <2>2, Shows
<1>17. CASE Decide
  <2>1. UNCHANGED <<recs, key, server, file>> /\ op.pc = "decide"
    BY <1>17 DEF Decide, At
  <2>2. recs[op.rec].c \/ recs[op.rec].pack
    BY <2>1 DEF RetrievalInv, Stage
  <2>3. CASE recs[op.rec].pack /\ op' = [op EXCEPT !.pc = "clean"] /\ UNCHANGED type
    <3>1. op'.pc = "clean" /\ op'.rec = op.rec
      BY <1>2, <2>3 DEF Operations
    <3>2. Stage'
      BY <2>1, <2>3, <3>1 DEF Stage
    <3> QED
      BY <1>3, <1>4, <1>7, <2>1, <2>3, <3>2, Still
  <2>4. CASE type' = FinalOKType /\ op' = [op EXCEPT !.pc = "finish", !.verdict = "ok"]
    <3>1. op'.pc = "finish" /\ type' \notin {"downloaded", "rejected"}
      BY <1>2, <2>4 DEF FinalOKType, Operations
    <3> QED
      BY <1>3, <1>4, <1>5, <2>1, <3>1, Shows
  <2>5. CASE ~recs[op.rec].pack /\ op' = [op EXCEPT !.pc = "getPack"] /\ type' = "downloading"
    <3>1. op'.pc = "getPack" /\ op'.rec = op.rec
      BY <1>2, <2>5 DEF Operations
    <3>2. Stage'
      BY <2>1, <2>2, <2>5, <3>1 DEF Stage
    <3> QED
      BY <1>3, <1>4, <2>1, <2>5, <3>2, Shows
  <2> QED
    BY <1>17, <2>3, <2>4, <2>5 DEF Decide
<1>18. CASE GetPack
  <2>1. op.pc = "getPack" /\ UNCHANGED <<recs, key, file>>
    BY <1>18 DEF GetPack, At
  <2>2. CASE server /\ op' = [op EXCEPT !.pc = "unpack"] /\ UNCHANGED <<type, server>>
    <3>1. op'.pc = "unpack" /\ op'.rec = op.rec
      BY <1>2, <2>2 DEF Operations
    <3>2. Stage'
      BY <2>1, <2>2, <3>1 DEF RetrievalInv, Stage
    <3> QED
      BY <1>3, <1>4, <1>7, <2>1, <2>2, <3>2, Still
  <2>3. CASE TransferFails
    BY <1>2, <1>6, <2>1, <2>3 DEF TransferFails
  <2> QED
    BY <1>18, <2>2, <2>3 DEF GetPack
<1>19. CASE Unpack
  <2>1. op.pc = "unpack" /\ UNCHANGED <<recs, key>>
    BY <1>19 DEF Unpack, At
  <2>2. CASE file' = TRUE /\ op' = [op EXCEPT !.pc = "packRecord"] /\ UNCHANGED <<type, server>>
    <3>1. op'.pc = "packRecord"
      BY <1>2, <2>2 DEF Operations
    <3>2. server /\ Readable
      BY <1>1, <2>1, HeldRecord DEF RetrievalInv, Stage, Readable, Holding
    <3>3. Retrieve!Unpack
      BY <1>3, <1>4, <1>7, <2>1, <2>2, <3>2 DEF Retrieve!Unpack
    <3>4. RetrieveStep
      BY <3>3 DEF RetrieveStep, Retrieve!Next
    <3> QED
      BY <1>4, <1>5, <2>1, <3>1, <3>4
  <2>3. CASE FailForGood(op, "ready") /\ UNCHANGED file
    BY <1>2, <1>6, <2>1, <2>3
  <2> QED
    BY <1>19, <2>2, <2>3 DEF Unpack
<1>20. CASE PackRecord
  <2> DEFINE r == [recs[op.rec] EXCEPT !.pack = TRUE, !.c = FALSE]
  <2>1. op.pc = "packRecord" /\ UNCHANGED <<type, key, server, file>>
    BY <1>20 DEF PackRecord, At
  <2>2. r \in Records /\ r.pack /\ ~r.c
    BY <1>1, <2>1, HeldRecord, RecordTypes DEF Holding, Records
  <2>3. recs' = [recs EXCEPT ![op.rec] = r]
    BY <1>1, <1>2, <1>20, <2>1, HeldRecord DEF PackRecord, Holding
  <2>4. file /\ op'.pc = "packType" /\ op'.rec = op.rec
    BY <1>2, <1>20, <2>1 DEF PackRecord, RetrievalInv, FileInv, FileThere, Operations
  <2> HIDE DEF r
  <2>5. /\ MetaKept' /\ op.rec \in DOMAIN recs /\ DOMAIN recs' = DOMAIN recs
        /\ \A i \in DOMAIN recs : recs'[i] = IF i = op.rec THEN r ELSE recs[i]
    BY <1>1, <2>1, <2>2, <2>3, ChangedKept DEF RetrievalInv, Holding
  <2>6. Recorded' /\ (Readable' => Readable)
    BY <2>1, <2>2, <2>5 DEF Recorded, Readable
  <2>7. Retrieve!Record
    BY <1>3, <1>7, <2>1, <2>4, <2>6 DEF Retrieve!Record
  <2>8. RetrieveStep
    BY <2>7 DEF RetrieveStep, Retrieve!Next
  <2>9. Stage'
    BY <2>2, <2>4, <2>5 DEF Stage
  <2> QED
    BY <2>5, <2>8, <2>9
<1>21. CASE PackType
  <2>1. /\ UNCHANGED <<recs, key, server, file>> /\ type' = "downloaded"
        /\ op.pc = "packType" /\ op'.pc = "clean" /\ op'.rec = op.rec
    BY <1>2, <1>21 DEF PackType, At, Operations
  <2>2. Stage'
    BY <2>1 DEF RetrievalInv, Stage
  <2>3. Recorded
    BY <1>1, <2>1, HeldRecord DEF RetrievalInv, Stage, Recorded, Holding
  <2> QED
    BY <1>3, <1>4, <2>1, <2>2, <2>3, Shows
<1>22. CASE Clean
  <2>1. op.pc = "clean" /\ UNCHANGED <<key, file>> /\ op'.pc = "finish"
    BY <1>2, <1>22 DEF Clean, At, Operations
  <2>2. type' \in {type, "downloaded"}
        /\ (recs' = recs \/ recs' = [recs EXCEPT ![op.rec].deleted = TRUE])
    BY <1>22 DEF Clean
  <2>3. \E answer : DeleteFromServer(answer)
    BY <1>22 DEF Clean
  <2>4. server' = FALSE \/ server' = server
    BY <2>3, Zenon DEF DeleteFromServer
  <2>5. Recorded
    BY <1>1, <2>1, HeldRecord DEF RetrievalInv, Stage, Recorded, Holding
  <2>6. MetaKept' /\ UNCHANGED <<Readable, Recorded>>
    BY <1>1, <2>1, <2>2, DeletedKept DEF RetrievalInv
  <2>7. RetrieveStep
    BY <1>3, <2>1, <2>2, <2>4, <2>5, <2>6, Discards
  <2> QED
    BY <1>5, <2>1, <2>6, <2>7
<1> QED
  BY <1>8, <1>9, <1>10, <1>11, <1>12, <1>13, <1>14, <1>15, <1>16, <1>17, <1>18, <1>19, <1>20,
     <1>21, <1>22 DEF Working

\* Every other step leaves the file, its records and the server alone.
LEMMA OtherRetrieves ==
  ASSUME RetrievalInv, Requesting \/ RowStep \/ EntryStep \/ UserStep \/ Restart
  PROVE  MetaKept' /\ Stage' /\ RetrieveStep
<1> USE DEF pool, user, past, db
<1>1. UNCHANGED <<recs, file, key, server>>
  BY DEF Requesting, Press, Notify, Confirm, InitProgress, RowStep, Take, NoCertificate, Due,
     TransferFinished, EntryStep, StartOp, Poll, Skip, Finish, UserStep, CancelInQueue,
     CancelNotify, CancelRead, CancelReady, Restart
<1>2. op \in Operations /\ asked \in [Requests -> {"none", "meta", "accept", "reject"}]
      /\ service \in Seq(Blocks) /\ OpEntry
  BY DEF RetrievalInv, FileInv, Typed, TypeOK
<1>3. MetaKept' /\ UNCHANGED <<Readable, Recorded>>
  BY <1>1 DEF RetrievalInv, MetaKept, Readable, Recorded
<1>4. \/ op'.pc \in {"idle", "loop", "popped"}
      \/ op'.pc = op.pc /\ op'.cur.req = op.cur.req /\ op'.rec = op.rec
  <2>1. CASE EntryStep
    BY <1>2, <2>1, LoopType DEF EntryStep, StartOp, Poll, Skip, Finish, Operations
  <2>2. CASE UserStep
    BY <1>2, <2>2 DEF UserStep, CancelInQueue, CancelNotify, CancelRead, CancelReady, Operations
  <2>3. CASE Requesting \/ RowStep
    BY <2>3 DEF Requesting, Press, Notify, Confirm, InitProgress, RowStep, Take, NoCertificate,
       Due, TransferFinished
  <2>4. CASE Restart
    BY <2>4, NewOpType DEF Restart
  <2> QED
    BY <2>1, <2>2, <2>3, <2>4
<1>5. \/ asked' = asked
      \/ \E r \in Requests : \E a : asked[r] = "none" /\ asked' = [asked EXCEPT ![r] = a]
  BY DEF Requesting, Press, Notify, Confirm, InitProgress, RowStep, Take, NoCertificate, Due,
     TransferFinished, EntryStep, StartOp, Poll, Skip, Finish, UserStep, CancelInQueue,
     CancelNotify, CancelRead, CancelReady, Restart
<1>6. /\ \A r \in Requests : asked[r] = "reject" => asked'[r] = "reject"
      /\ Rejected => Rejected'
  BY <1>2, <1>5 DEF Rejected
<1>7. Stage'
  BY <1>1, <1>2, <1>4, <1>6 DEF RetrievalInv, Stage, OpEntry
<1>8. CASE type' = type
  <2>1. SeenAs' = SeenAs
    BY <1>8 DEF SeenAs
  <2>2. CASE Rejected' = Rejected
    BY <1>1, <1>3, <1>7, <2>1, <2>2, Still
  <2>3. CASE Rejected' # Rejected
    <3>1. Rejected'
      BY <1>6, <2>3 DEF Rejected
    <3>2. Retrieve!Refuse
      BY <1>1, <1>3, <2>1, <3>1 DEF Retrieve!Refuse
    <3> QED
      BY <1>3, <1>7, <3>2 DEF RetrieveStep, Retrieve!Next
  <2> QED
    BY <2>2, <2>3
<1>9. CASE type' # type
  <2>1. type' # "downloaded" /\ (type' = "rejected" => Confirm \/ InitProgress)
    BY <1>9 DEF Requesting, Press, Notify, Confirm, InitProgress, RowStep, Take, NoCertificate,
       Due, TransferFinished, EntryStep, StartOp, Poll, Skip, Finish, UserStep, CancelInQueue,
       CancelNotify, CancelRead, CancelReady, Restart
  <2>2. type' = "rejected" => Rejected
    <3>1. ASSUME type' = "rejected" PROVE Head(service).req \in Requests
      <4>1. Head(service) \in Blocks
        BY <1>2, <2>1, <3>1, TailType DEF Confirm, InitProgress
      <4> QED
        BY <4>1 DEF Blocks
    <3>2. ASSUME type' = "rejected" PROVE asked[Head(service).req] = "reject"
      BY <1>9, <2>1, <3>2 DEF Confirm, InitProgress
    <3> QED
      BY <3>1, <3>2 DEF Rejected
  <2>3. \/ asked' = asked
        \/ \E r \in Requests : asked[r] = "none" /\ asked' = [asked EXCEPT ![r] = "meta"]
    BY <1>9 DEF Requesting, Press, Notify, Confirm, InitProgress, RowStep, Take, NoCertificate,
       Due, TransferFinished, EntryStep, StartOp, Poll, Skip, Finish, UserStep, CancelInQueue,
       CancelNotify, CancelRead, CancelReady, Restart
  <2>4. \A r \in Requests : asked'[r] = "reject" <=> asked[r] = "reject"
    BY <1>2, <2>3
  <2>5. Rejected' = Rejected
    BY <2>4 DEF Rejected
  <2> QED
    BY <1>1, <1>3, <1>7, <2>1, <2>2, <2>5, Shows
<1> QED
  BY <1>8, <1>9

LEMMA RetrievalNext ==
  ASSUME RetrievalInv, [Next]_vars
  PROVE  RetrievalInv' /\ [Retrieve!Next]_(Retrieve!vars)
<1>1. FileInv'
  BY FileNext DEF RetrievalInv
<1>2. CASE UNCHANGED vars
  <2>1. UNCHANGED <<Rejected, server, Readable, file, Recorded, SeenAs>>
    BY <1>2 DEF vars, db, past, Rejected, Readable, Recorded, SeenAs
  <2>2. MetaKept' /\ Stage'
    BY <1>2 DEF vars, db, past, RetrievalInv, MetaKept, Stage
  <2> QED
    BY <1>1, <2>1, <2>2, Still DEF RetrievalInv, RetrieveStep
<1> QED
  BY <1>1, <1>2, NextSteps, WorkingRetrieves, OtherRetrieves DEF RetrievalInv, RetrieveStep

(***************************************************************************)
(* The download implements a retrieval: nothing needed for the file is     *)
(* given up before it is there or refused, it comes from the server, and   *)
(* what the user sees and the record says is true, whatever requests,      *)
(* cancellations and runs of the application overlap.                      *)
(***************************************************************************)
THEOREM Implements == Spec => ImplementsRetrieval
BY RetrievalInit, RetrievalNext, PTL DEF Spec, ImplementsRetrieval, Retrieve!Spec

=============================================================================
