------------------------- MODULE ZrtpTransportProofs -------------------------
(***************************************************************************)
(* Theorems of ZrtpTransport, for any number of senders and any offers.    *)
(***************************************************************************)
EXTENDS ZrtpTransport, TLAPS

LEMMA NoneIsNoThread == none \notin Threads
BY ZrtpAssumption DEF Threads

LEMMA InitType == Init => TypeOK
<1> SUFFICES ASSUME Init PROVE TypeOK
  OBVIOUS
<1>1. offers \in 0..MaxOffers BY ZrtpAssumption DEF Init
<1>2. pc \in [Threads -> Labels] BY DEF Init, Labels
<1>3. /\ started \in BOOLEAN /\ starting \in BOOLEAN
      /\ negotFailed \in BOOLEAN /\ iceBusy \in BOOLEAN
      /\ zrtpCn \in BOOLEAN /\ postponed \in BOOLEAN /\ helloSeen \in BOOLEAN
      /\ secure \in BOOLEAN /\ notSupp \in BOOLEAN /\ raced \in BOOLEAN
  BY Zenon DEF Init
<1> QED BY <1>1, <1>2, <1>3 DEF Init, TypeOK

LEMMA NextType == TypeOK /\ [Next]_vars => TypeOK'
<1> SUFFICES ASSUME TypeOK, [Next]_vars PROVE TypeOK'
  OBVIOUS
<1> USE ZrtpAssumption, NoneIsNoThread DEF TypeOK, Labels, Started, Failing, Goto, start, count, hash, told, lib, control
<1>1. ASSUME NEW t \in Threads, StartStep(t) PROVE TypeOK'
  <2>1. CASE TryLock(t) BY <2>1 DEF TryLock
  <2>2. CASE LockBusy(t) BY <2>2 DEF LockBusy
  <2>3. CASE MarkStarting(t) BY <2>3 DEF MarkStarting
  <2>4. CASE WaitForIce(t) BY <2>4 DEF WaitForIce
  <2>5. CASE Begin(t)
    <3>1. iceBusy' \in BOOLEAN /\ negotFailed' \in BOOLEAN BY <2>5, Zenon DEF Begin
    <3> QED BY <2>5, <3>1 DEF Begin
  <2>6. CASE StartFailed(t)
    <3>1. started' \in BOOLEAN BY <2>6, Zenon DEF StartFailed
    <3> QED BY <2>6, <3>1 DEF StartFailed
  <2>7. CASE StartPassed(t) BY <2>7 DEF StartPassed
  <2>8. CASE SetStarted(t) BY <2>8 DEF SetStarted
  <2>9. CASE ResetStarting(t)
    <3>1. starting' \in BOOLEAN BY <2>9, Zenon DEF ResetStarting
    <3> QED BY <2>9, <3>1 DEF ResetStarting
  <2>10. CASE Unlock(t) BY <2>10 DEF Unlock
  <2>11. CASE ClearStarting(t)
    <3>1. starting' \in BOOLEAN BY <2>11, Zenon DEF ClearStarting
    <3> QED BY <2>11, <3>1 DEF ClearStarting
  <2> QED BY <1>1, <2>1, <2>2, <2>3, <2>4, <2>5, <2>6, <2>7, <2>8, <2>9, <2>10, <2>11 DEF StartStep
<1>2. ASSUME NEW t \in Threads, PacketStep(t) PROVE TypeOK'
  <2>1. CASE IgnoreZrtp(t) BY <2>1 DEF IgnoreZrtp
  <2>2. CASE AcceptZrtp(t) BY <2>2 DEF AcceptZrtp, CheckStarted
  <2>3. CASE IceIsBusy(t) BY <2>3 DEF IceIsBusy
  <2>4. CASE ToEngine(t) BY <2>4 DEF ToEngine
  <2>5. CASE Processed(t) BY <2>5 DEF Processed
  <2> QED BY <1>2, <2>1, <2>2, <2>3, <2>4, <2>5 DEF PacketStep
<1>3. ASSUME NEW t \in Threads, CallbackStep(t) PROVE TypeOK'
  <2>1. CASE SecretsOn(t)
    <3>1. postponed' \in BOOLEAN BY <2>1, Zenon DEF SecretsOn, Verdict
    <3> QED BY <2>1, <3>1 DEF SecretsOn, Verdict
  <2>2. CASE Fail(t)
    <3>1. started' \in BOOLEAN BY <2>2, Zenon DEF Fail
    <3> QED BY <2>2, <3>1 DEF Fail
  <2>3. CASE Report(t) BY <2>3 DEF Report
  <2>4. CASE Refail(t)
    <3>1. started' \in BOOLEAN BY <2>4, Zenon DEF Refail
    <3> QED BY <2>4, <3>1 DEF Refail
  <2>5. CASE Failed(t) BY <2>5 DEF Failed
  <2>6. CASE Retry(t) BY <2>6 DEF Retry
  <2>7. CASE NotSupported(t) BY <2>7 DEF NotSupported
  <2>8. ASSUME NEW part \in {"send", "receive"}, SecretsReady(t, part) PROVE TypeOK'
    BY <2>8 DEF SecretsReady, Other
  <2>9. ASSUME NEW part \in {"send", "receive"}, SecretsOff(t, part) PROVE TypeOK'
    <3>1. secure' \in BOOLEAN BY <2>9, Zenon DEF SecretsOff
    <3> QED BY <2>9, <3>1 DEF SecretsOff
  <2>10. ASSUME NEW part \in {"send", "receive"}, SecretsRefused(t, part) PROVE TypeOK'
    BY <2>10 DEF SecretsRefused, Other
  <2> QED BY <1>3, <2>1, <2>2, <2>3, <2>4, <2>5, <2>6, <2>7, <2>8, <2>9, <2>10 DEF CallbackStep
<1>4. ASSUME NEW t \in Threads, RtpIn(t) \/ SendRtp(t) \/ ZrtpIn(t) PROVE TypeOK'
  <2>1. CASE RtpIn(t) BY <2>1 DEF RtpIn, CheckStarted
  <2>2. CASE SendRtp(t) BY <2>2 DEF SendRtp, CheckStarted
  <2>3. CASE ZrtpIn(t) BY <2>3 DEF ZrtpIn
  <2> QED BY <1>4, <2>1, <2>2, <2>3
<1>5. ASSUME NEW t \in Threads, EngineStarts(t) \/ Agree(t) \/ NotAnswered(t) PROVE TypeOK'
  <2>1. CASE EngineStarts(t) BY <2>1 DEF EngineStarts
  <2>2. CASE Agree(t) BY <2>2 DEF Agree
  <2>3. CASE NotAnswered(t) BY <2>3 DEF NotAnswered
  <2> QED BY <1>5, <2>1, <2>2, <2>3
<1>6. ASSUME NEW t \in Threads, EngineFails(t) PROVE TypeOK'
  BY <1>6 DEF EngineFails
<1>7. ASSUME NEW S \in Offers, MediaStart(S) PROVE TypeOK'
  BY <1>7 DEF MediaStart, Verdict
<1>8. CASE IceDone BY <1>8 DEF IceDone
<1>9. CASE UNCHANGED vars BY <1>9 DEF vars
<1> QED BY <1>1, <1>2, <1>3, <1>4, <1>5, <1>6, <1>7, <1>8, <1>9 DEF Next, Packet, Step

(***************************************************************************)
(* Every variable keeps its type; the counter of unanswered attempts that  *)
(* decides on a retry stays within its limit.                              *)
(***************************************************************************)
THEOREM TypeCorrect == Spec => []TypeOK
BY InitType, NextType, PTL DEF Spec

-----------------------------------------------------------------------------
(***************************************************************************)
(* The start mutex: its owner is in startZrtp, or in a callback of the     *)
(* engine it started, and the flag is down again before the mutex is free. *)
(***************************************************************************)
StartLocked ==
  /\ \A t \in Threads : pc[t] \in Started => startLock = t
  /\ startLock # none => pc[startLock] \in Started \cup Failing
  /\ starting => startLock # none /\ pc[startLock] # "unlock"

LEMMA InitLocked == Init => StartLocked
BY DEF Init, StartLocked, Started

LEMMA NextLocked == TypeOK /\ StartLocked /\ [Next]_vars => StartLocked'
<1> SUFFICES ASSUME TypeOK, StartLocked, [Next]_vars PROVE StartLocked'
  OBVIOUS
<1> USE ZrtpAssumption, NoneIsNoThread DEF TypeOK, StartLocked, Labels, Started, Failing, Goto, start, count, hash, told, lib, control
<1>1. ASSUME NEW t \in Threads, StartStep(t) PROVE StartLocked'
  <2>1. CASE TryLock(t) BY <2>1 DEF TryLock
  <2>2. CASE LockBusy(t) BY <2>2 DEF LockBusy
  <2>3. CASE MarkStarting(t) BY <2>3 DEF MarkStarting
  <2>4. CASE WaitForIce(t) BY <2>4 DEF WaitForIce
  <2>5. CASE Begin(t) BY <2>5 DEF Begin
  <2>6. CASE StartFailed(t) BY <2>6 DEF StartFailed
  <2>7. CASE StartPassed(t) BY <2>7 DEF StartPassed
  <2>8. CASE SetStarted(t) BY <2>8 DEF SetStarted
  <2>9. CASE ResetStarting(t) BY <2>9 DEF ResetStarting
  <2>10. CASE Unlock(t) BY <2>10 DEF Unlock
  <2>11. CASE ClearStarting(t) BY <2>11 DEF ClearStarting
  <2> QED BY <1>1, <2>1, <2>2, <2>3, <2>4, <2>5, <2>6, <2>7, <2>8, <2>9, <2>10, <2>11 DEF StartStep
<1>2. ASSUME NEW t \in Threads, PacketStep(t) PROVE StartLocked'
  <2>1. CASE IgnoreZrtp(t) BY <2>1 DEF IgnoreZrtp
  <2>2. CASE AcceptZrtp(t) BY <2>2 DEF AcceptZrtp, CheckStarted
  <2>3. CASE IceIsBusy(t) BY <2>3 DEF IceIsBusy
  <2>4. CASE ToEngine(t) BY <2>4 DEF ToEngine
  <2>5. CASE Processed(t) BY <2>5 DEF Processed
  <2> QED BY <1>2, <2>1, <2>2, <2>3, <2>4, <2>5 DEF PacketStep
<1>3. ASSUME NEW t \in Threads, CallbackStep(t) PROVE StartLocked'
  <2>1. CASE SecretsOn(t) BY <2>1 DEF SecretsOn, Verdict
  <2>2. CASE Fail(t) BY <2>2 DEF Fail
  <2>3. CASE Report(t) BY <2>3 DEF Report
  <2>4. CASE Refail(t) BY <2>4 DEF Refail
  <2>5. CASE Failed(t) BY <2>5 DEF Failed
  <2>6. CASE Retry(t) BY <2>6 DEF Retry
  <2>7. CASE NotSupported(t) BY <2>7 DEF NotSupported
  <2>8. ASSUME NEW part \in {"send", "receive"}, SecretsReady(t, part) PROVE StartLocked'
    BY <2>8 DEF SecretsReady, Other
  <2>9. ASSUME NEW part \in {"send", "receive"}, SecretsOff(t, part) PROVE StartLocked'
    BY <2>9 DEF SecretsOff
  <2>10. ASSUME NEW part \in {"send", "receive"}, SecretsRefused(t, part) PROVE StartLocked'
    BY <2>10 DEF SecretsRefused, Other
  <2> QED BY <1>3, <2>1, <2>2, <2>3, <2>4, <2>5, <2>6, <2>7, <2>8, <2>9, <2>10 DEF CallbackStep
<1>4. ASSUME NEW t \in Threads, RtpIn(t) \/ SendRtp(t) \/ ZrtpIn(t) PROVE StartLocked'
  <2>1. CASE RtpIn(t) BY <2>1 DEF RtpIn, CheckStarted
  <2>2. CASE SendRtp(t) BY <2>2 DEF SendRtp, CheckStarted
  <2>3. CASE ZrtpIn(t) BY <2>3 DEF ZrtpIn
  <2> QED BY <1>4, <2>1, <2>2, <2>3
<1>5. ASSUME NEW t \in Threads, EngineStarts(t) \/ Agree(t) \/ NotAnswered(t) PROVE StartLocked'
  <2>1. CASE EngineStarts(t) BY <2>1 DEF EngineStarts
  <2>2. CASE Agree(t) BY <2>2 DEF Agree
  <2>3. CASE NotAnswered(t) BY <2>3 DEF NotAnswered
  <2> QED BY <1>5, <2>1, <2>2, <2>3
<1>6. ASSUME NEW t \in Threads, EngineFails(t) PROVE StartLocked'
  BY <1>6 DEF EngineFails
<1>7. ASSUME NEW S \in Offers, MediaStart(S) PROVE StartLocked'
  BY <1>7 DEF MediaStart, Verdict
<1>8. CASE IceDone BY <1>8 DEF IceDone
<1>9. CASE UNCHANGED vars BY <1>9 DEF vars
<1> QED BY <1>1, <1>2, <1>3, <1>4, <1>5, <1>6, <1>7, <1>8, <1>9 DEF Next, Packet, Step

(***************************************************************************)
(* starting, which makes the worker drop ZRTP packets, is never left set   *)
(* behind, although it is cleared once more outside the mutex.             *)
(***************************************************************************)
THEOREM FlagHeld == Spec => []StartingHeld
<1>1. StartLocked => StartingHeld BY DEF StartLocked, StartingHeld
<1> QED BY <1>1, InitType, NextType, InitLocked, NextLocked, PTL DEF Spec

-----------------------------------------------------------------------------
(***************************************************************************)
(* The mutex of the engine, and what its owner has done to the contexts.   *)
(***************************************************************************)
Calling == Failing \cup {"keys", "send", "receive", "on", "notsupp"}

EngineLocked ==
  /\ \A t \in Threads : pc[t] \in Calling <=> engineLock = t
  /\ engineLock = none => (secure <=> engine = "Secure")

Keyed ==
  /\ SecureMeansKeyed
  /\ \A t \in Threads :
       /\ pc[t] \in Failing \cup {"notsupp"} => engine = "Initial"
       /\ pc[t] \in {"keys", "send", "receive", "on"} => engine = "Detect" /\ ~secure
       /\ pc[t] = "receive" => "send" \in srtp
       /\ pc[t] = "send" => "receive" \in srtp
       /\ pc[t] = "on" => srtp = {"send", "receive"}
       /\ pc[t] \in {"report", "refail", "failed", "notsupp"} => ~secure

KeyInv == EngineLocked /\ Keyed

LEMMA InitKeys == Init => KeyInv
BY ZrtpAssumption DEF Init, KeyInv, EngineLocked, Keyed, SecureMeansKeyed, Calling, Failing, Threads

LEMMA NextKeys == TypeOK /\ KeyInv /\ [Next]_vars => KeyInv'
<1> SUFFICES ASSUME TypeOK, KeyInv, [Next]_vars PROVE KeyInv'
  OBVIOUS
<1> USE ZrtpAssumption, NoneIsNoThread DEF TypeOK, KeyInv, EngineLocked, Keyed, SecureMeansKeyed, Calling, Labels, Started, Failing, Goto, start, count, hash, told, lib, control
<1>1. ASSUME NEW t \in Threads, StartStep(t) PROVE KeyInv'
  <2>1. CASE TryLock(t) BY <2>1 DEF TryLock
  <2>2. CASE LockBusy(t) BY <2>2 DEF LockBusy
  <2>3. CASE MarkStarting(t) BY <2>3 DEF MarkStarting
  <2>4. CASE WaitForIce(t) BY <2>4 DEF WaitForIce
  <2>5. CASE Begin(t) BY <2>5 DEF Begin
  <2>6. CASE StartFailed(t) BY <2>6 DEF StartFailed
  <2>7. CASE StartPassed(t) BY <2>7 DEF StartPassed
  <2>8. CASE SetStarted(t) BY <2>8 DEF SetStarted
  <2>9. CASE ResetStarting(t) BY <2>9 DEF ResetStarting
  <2>10. CASE Unlock(t) BY <2>10 DEF Unlock
  <2>11. CASE ClearStarting(t) BY <2>11 DEF ClearStarting
  <2> QED BY <1>1, <2>1, <2>2, <2>3, <2>4, <2>5, <2>6, <2>7, <2>8, <2>9, <2>10, <2>11 DEF StartStep
<1>2. ASSUME NEW t \in Threads, PacketStep(t) PROVE KeyInv'
  <2>1. CASE IgnoreZrtp(t) BY <2>1 DEF IgnoreZrtp
  <2>2. CASE AcceptZrtp(t) BY <2>2 DEF AcceptZrtp, CheckStarted
  <2>3. CASE IceIsBusy(t) BY <2>3 DEF IceIsBusy
  <2>4. CASE ToEngine(t) BY <2>4 DEF ToEngine
  <2>5. CASE Processed(t) BY <2>5 DEF Processed
  <2> QED BY <1>2, <2>1, <2>2, <2>3, <2>4, <2>5 DEF PacketStep
<1>3. ASSUME NEW t \in Threads, CallbackStep(t) PROVE KeyInv'
  <2>1. CASE SecretsOn(t) BY <2>1 DEF SecretsOn, Verdict
  <2>2. CASE Fail(t) BY <2>2 DEF Fail
  <2>3. CASE Report(t) BY <2>3 DEF Report
  <2>4. CASE Refail(t) BY <2>4 DEF Refail
  <2>5. CASE Failed(t) BY <2>5 DEF Failed
  <2>6. CASE Retry(t) BY <2>6 DEF Retry
  <2>7. CASE NotSupported(t) BY <2>7 DEF NotSupported
  <2>8. ASSUME NEW part \in {"send", "receive"}, SecretsReady(t, part) PROVE KeyInv'
    <3>1. CASE Goto(t, "keys", Other(part))
      <4>1. part \in srtp' BY <2>8 DEF SecretsReady
      <4> QED BY <2>8, <3>1, <4>1 DEF SecretsReady, Other
    <3>2. CASE Goto(t, part, "on")
      <4>1. Other(part) \in srtp BY <3>2 DEF Other
      <4>2. srtp' = {"send", "receive"} BY <2>8, <4>1 DEF SecretsReady, Other
      <4> QED BY <2>8, <3>2, <4>2 DEF SecretsReady
    <3> QED BY <2>8, <3>1, <3>2 DEF SecretsReady
  <2>9. ASSUME NEW part \in {"send", "receive"}, SecretsOff(t, part) PROVE KeyInv'
    BY <2>9 DEF SecretsOff
  <2>10. ASSUME NEW part \in {"send", "receive"}, SecretsRefused(t, part) PROVE KeyInv'
    BY <2>10 DEF SecretsRefused, Other
  <2> QED BY <1>3, <2>1, <2>2, <2>3, <2>4, <2>5, <2>6, <2>7, <2>8, <2>9, <2>10 DEF CallbackStep
<1>4. ASSUME NEW t \in Threads, RtpIn(t) \/ SendRtp(t) \/ ZrtpIn(t) PROVE KeyInv'
  <2>1. CASE RtpIn(t) BY <2>1 DEF RtpIn, CheckStarted
  <2>2. CASE SendRtp(t) BY <2>2 DEF SendRtp, CheckStarted
  <2>3. CASE ZrtpIn(t) BY <2>3 DEF ZrtpIn
  <2> QED BY <1>4, <2>1, <2>2, <2>3
<1>5. ASSUME NEW t \in Threads, EngineStarts(t) \/ Agree(t) \/ NotAnswered(t) PROVE KeyInv'
  <2>1. CASE EngineStarts(t) BY <2>1 DEF EngineStarts
  <2>2. CASE Agree(t) BY <2>2 DEF Agree
  <2>3. CASE NotAnswered(t) BY <2>3 DEF NotAnswered
  <2> QED BY <1>5, <2>1, <2>2, <2>3
<1>6. ASSUME NEW t \in Threads, EngineFails(t) PROVE KeyInv'
  BY <1>6 DEF EngineFails
<1>7. ASSUME NEW S \in Offers, MediaStart(S) PROVE KeyInv'
  BY <1>7 DEF MediaStart, Verdict
<1>8. CASE IceDone BY <1>8 DEF IceDone
<1>9. CASE UNCHANGED vars BY <1>9 DEF vars
<1> QED BY <1>1, <1>2, <1>3, <1>4, <1>5, <1>6, <1>7, <1>8, <1>9 DEF Next, Packet, Step

(***************************************************************************)
(* A call shown as secure is encrypted both ways: whichever context could  *)
(* not be made, whatever an earlier agreement left behind, and in whatever *)
(* order the engine asked for the two.                                     *)
(***************************************************************************)
THEOREM KeyedWhenSecure == Spec => []SecureMeansKeyed
<1>1. KeyInv => SecureMeansKeyed BY DEF KeyInv, Keyed
<1> QED BY <1>1, InitType, NextType, InitKeys, NextKeys, PTL DEF Spec

-----------------------------------------------------------------------------
(***************************************************************************)
(* The check of the zrtp-hash: made, or postponed with the hashes of the   *)
(* last SDP until the engine is secure.                                    *)
(***************************************************************************)
Judged ==
  /\ offers > 0 => hashMatch = Verdict(sdp) \/ postponed
  /\ postponed => peerSDPZrtpHash = sdp
  /\ secure => helloSeen /\ ~postponed
  /\ engine # "Initial" \/ secure => offers > 0
  /\ \A t \in Threads : (pc[t] # "idle" => offers > 0) /\ (pc[t] \in {"keys", "send", "receive", "on"} => helloSeen)

LEMMA InitJudged == Init => Judged
BY DEF Init, Judged

LEMMA NextJudged == TypeOK /\ Judged /\ [Next]_vars => Judged'
<1> SUFFICES ASSUME TypeOK, Judged, [Next]_vars PROVE Judged'
  OBVIOUS
<1> USE ZrtpAssumption, NoneIsNoThread DEF TypeOK, Judged, Labels, Started, Failing, Goto, start, count, hash, told, lib, control
<1>1. ASSUME NEW t \in Threads, StartStep(t) PROVE Judged'
  <2>1. CASE TryLock(t) BY <2>1 DEF TryLock
  <2>2. CASE LockBusy(t) BY <2>2 DEF LockBusy
  <2>3. CASE MarkStarting(t) BY <2>3 DEF MarkStarting
  <2>4. CASE WaitForIce(t) BY <2>4 DEF WaitForIce
  <2>5. CASE Begin(t) BY <2>5 DEF Begin
  <2>6. CASE StartFailed(t) BY <2>6 DEF StartFailed
  <2>7. CASE StartPassed(t) BY <2>7 DEF StartPassed
  <2>8. CASE SetStarted(t) BY <2>8 DEF SetStarted
  <2>9. CASE ResetStarting(t) BY <2>9 DEF ResetStarting
  <2>10. CASE Unlock(t) BY <2>10 DEF Unlock
  <2>11. CASE ClearStarting(t) BY <2>11 DEF ClearStarting
  <2> QED BY <1>1, <2>1, <2>2, <2>3, <2>4, <2>5, <2>6, <2>7, <2>8, <2>9, <2>10, <2>11 DEF StartStep
<1>2. ASSUME NEW t \in Threads, PacketStep(t) PROVE Judged'
  <2>1. CASE IgnoreZrtp(t) BY <2>1 DEF IgnoreZrtp
  <2>2. CASE AcceptZrtp(t) BY <2>2 DEF AcceptZrtp, CheckStarted
  <2>3. CASE IceIsBusy(t) BY <2>3 DEF IceIsBusy
  <2>4. CASE ToEngine(t) BY <2>4 DEF ToEngine
  <2>5. CASE Processed(t) BY <2>5 DEF Processed
  <2> QED BY <1>2, <2>1, <2>2, <2>3, <2>4, <2>5 DEF PacketStep
<1>3. ASSUME NEW t \in Threads, CallbackStep(t) PROVE Judged'
  <2>1. CASE SecretsOn(t) BY <2>1 DEF SecretsOn, Verdict
  <2>2. CASE Fail(t) BY <2>2 DEF Fail
  <2>3. CASE Report(t) BY <2>3 DEF Report
  <2>4. CASE Refail(t) BY <2>4 DEF Refail
  <2>5. CASE Failed(t) BY <2>5 DEF Failed
  <2>6. CASE Retry(t) BY <2>6 DEF Retry
  <2>7. CASE NotSupported(t) BY <2>7 DEF NotSupported
  <2>8. ASSUME NEW part \in {"send", "receive"}, SecretsReady(t, part) PROVE Judged'
    BY <2>8 DEF SecretsReady, Other
  <2>9. ASSUME NEW part \in {"send", "receive"}, SecretsOff(t, part) PROVE Judged'
    BY <2>9 DEF SecretsOff
  <2>10. ASSUME NEW part \in {"send", "receive"}, SecretsRefused(t, part) PROVE Judged'
    BY <2>10 DEF SecretsRefused, Other
  <2> QED BY <1>3, <2>1, <2>2, <2>3, <2>4, <2>5, <2>6, <2>7, <2>8, <2>9, <2>10 DEF CallbackStep
<1>4. ASSUME NEW t \in Threads, RtpIn(t) \/ SendRtp(t) \/ ZrtpIn(t) PROVE Judged'
  <2>1. CASE RtpIn(t) BY <2>1 DEF RtpIn, CheckStarted
  <2>2. CASE SendRtp(t) BY <2>2 DEF SendRtp, CheckStarted
  <2>3. CASE ZrtpIn(t) BY <2>3 DEF ZrtpIn
  <2> QED BY <1>4, <2>1, <2>2, <2>3
<1>5. ASSUME NEW t \in Threads, EngineStarts(t) \/ Agree(t) \/ NotAnswered(t) PROVE Judged'
  <2>1. CASE EngineStarts(t) BY <2>1 DEF EngineStarts
  <2>2. CASE Agree(t) BY <2>2 DEF Agree
  <2>3. CASE NotAnswered(t) BY <2>3 DEF NotAnswered
  <2> QED BY <1>5, <2>1, <2>2, <2>3
<1>6. ASSUME NEW t \in Threads, EngineFails(t) PROVE Judged'
  BY <1>6 DEF EngineFails
<1>7. ASSUME NEW S \in Offers, MediaStart(S) PROVE Judged'
  BY <1>7 DEF MediaStart, Verdict
<1>8. CASE IceDone BY <1>8 DEF IceDone
<1>9. CASE UNCHANGED vars BY <1>9 DEF vars
<1> QED BY <1>1, <1>2, <1>3, <1>4, <1>5, <1>6, <1>7, <1>8, <1>9 DEF Next, Packet, Step

(***************************************************************************)
(* A call shown as secure carries the verdict on the last SDP.             *)
(***************************************************************************)
THEOREM HashJudged == Spec => []HashVerdict
<1>1. Judged => HashVerdict BY DEF Judged, HashVerdict
<1> QED BY <1>1, InitType, NextType, InitJudged, NextJudged, PTL DEF Spec
-----------------------------------------------------------------------------
(***************************************************************************)
(* The user is told when ZRTP will not be tried any more.                  *)
(***************************************************************************)
Told == started /\ engine = "Initial" => notSupp \/ raced \/ WillTell

\* A step that neither starts nor stops anything, and ends no callback that
\* is about to clear started.
LEMMA NothingGivenUp ==
  ASSUME TypeOK, Told, NEW t \in Threads, NEW l \in Labels,
         pc' = pc \/ pc' = [pc EXCEPT ![t] = l],
         pc[t] \notin {"fail", "report", "refail", "notsupp"},
         started' = started \/ started' = FALSE,
         engine' = engine \/ engine' # "Initial",
         UNCHANGED <<notSupp, raced>>
  PROVE  Told'
<1>1. WillTell => WillTell'
  BY DEF TypeOK, WillTell
<1> QED
  BY <1>1 DEF Told

LEMMA InitTold == Init => Told
BY DEF Init, Told

LEMMA NextTold == TypeOK /\ Told /\ [Next]_vars => Told'
<1> SUFFICES ASSUME TypeOK, Told, [Next]_vars PROVE Told'
  OBVIOUS
<1> USE DEF Goto, start, count, hash, told, lib, control
<1>1. pc \in [Threads -> Labels] /\ \A t \in Threads : back[t] \in Labels
  BY DEF TypeOK, Labels
<1>2. {"idle", "zrtp", "received", "process", "trylock", "locked", "starting", "engine", "test",
       "passed", "reset", "unlock", "unlocked", "keys", "send", "receive", "on", "fail",
       "report", "refail", "failed", "notsupp"} \subseteq Labels
  BY DEF Labels, Started, Failing
<1> HIDE DEF Labels
<1>3. ASSUME NEW t \in Threads, StartStep(t), ~SetStarted(t) PROVE Told'
  BY <1>1, <1>2, <1>3, NothingGivenUp
  DEF StartStep, TryLock, LockBusy, MarkStarting, WaitForIce, Begin, StartFailed, StartPassed,
      ResetStarting, Unlock, ClearStarting
<1>4. ASSUME NEW t \in Threads, SetStarted(t) PROVE Told'
  <2>1. engine' = engine /\ notSupp' = notSupp
    BY <1>4 DEF SetStarted
  <2>2. raced' = (raced \/ (engine = "Initial" /\ ~WillTell))
    BY <1>4 DEF SetStarted
  <2>3. WillTell => WillTell'
    BY <1>1, <1>4 DEF SetStarted, WillTell
  <2>4. engine = "Initial" => raced' \/ WillTell
    BY <2>2, Zenon
  <2> QED
    BY <2>1, <2>3, <2>4 DEF Told
<1>5. ASSUME NEW t \in Threads, PacketStep(t) \/ RtpIn(t) \/ SendRtp(t) \/ ZrtpIn(t) PROVE Told'
  BY <1>1, <1>2, <1>5, NothingGivenUp
  DEF PacketStep, IgnoreZrtp, AcceptZrtp, CheckStarted, IceIsBusy, ToEngine, Processed,
      RtpIn, SendRtp, ZrtpIn
<1>6. ASSUME NEW t \in Threads, EngineStarts(t) \/ Agree(t) PROVE Told'
  BY <1>1, <1>2, <1>6, NothingGivenUp DEF EngineStarts, Agree
<1>7. ASSUME NEW t \in Threads, EngineFails(t) \/ NotAnswered(t) PROVE Told'
  <2>1. pc'[t] \in {"fail", "notsupp"}
    BY <1>1, <1>7 DEF EngineFails, NotAnswered
  <2> QED
    BY <2>1 DEF Told, WillTell
<1>8. ASSUME NEW t \in Threads, CallbackStep(t) PROVE Told'
  <2>1. ASSUME NEW part \in {"send", "receive"}, SecretsReady(t, part) PROVE Told'
    BY <1>1, <1>2, <2>1, NothingGivenUp DEF SecretsReady, Other
  <2>8. ASSUME NEW part \in {"send", "receive"}, SecretsRefused(t, part) PROVE Told'
    <3>1. pc'[t] = "fail"
      BY <1>1, <2>8 DEF SecretsRefused
    <3> QED
      BY <3>1 DEF Told, WillTell
  <2>2. CASE SecretsOn(t)
    BY <2>2 DEF SecretsOn, Told
  <2>3. ASSUME NEW part \in {"send", "receive"}, SecretsOff(t, part) PROVE Told'
    BY <2>3 DEF SecretsOff, Told, WillTell
  <2>4. CASE Fail(t) \/ Refail(t)
    <3>1. ~started'
      BY <2>4, Zenon DEF Fail, Refail
    <3> QED
      BY <3>1 DEF Told
  <2>5. CASE Report(t) \/ Retry(t)
    <3>1. pc'[t] = "refail"
      BY <1>1, <2>5 DEF Report, Retry
    <3> QED
      BY <3>1 DEF Told, WillTell
  <2>6. CASE Failed(t)
    BY <1>1, <1>2, <2>6, NothingGivenUp DEF Failed
  <2>7. CASE NotSupported(t)
    <3>1. notSupp'
      BY <2>7, Zenon DEF NotSupported
    <3> QED
      BY <3>1 DEF Told
  <2> QED BY <1>8, <2>1, <2>2, <2>3, <2>4, <2>5, <2>6, <2>7, <2>8 DEF CallbackStep
<1>9. ASSUME NEW S, MediaStart(S) PROVE Told'
  BY <1>9 DEF MediaStart, Told, WillTell
<1>10. CASE IceDone \/ UNCHANGED vars
  BY <1>10 DEF IceDone, vars, Told, WillTell
<1> QED BY <1>3, <1>4, <1>5, <1>6, <1>7, <1>8, <1>9, <1>10 DEF Next, Packet, Step

(***************************************************************************)
(* When the engine gave up for good the user was told, or it gave up just  *)
(* before started was set: no other order of the callbacks, the retries    *)
(* and the threads that start it ends in silence.                          *)
(***************************************************************************)
THEOREM NoneEndsSilently == Spec => []NoSilentEnd
<1>1. Told => NoSilentEnd
  BY DEF Told, NoSilentEnd, AtRest, WillTell
<1> QED BY <1>1, InitType, NextType, InitTold, NextTold, PTL DEF Spec
=============================================================================
