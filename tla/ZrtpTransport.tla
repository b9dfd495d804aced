--------------------------- MODULE ZrtpTransport ---------------------------
(***************************************************************************)
(* The ZRTP transport of a call (PEXPjZrtpTransport.c): between a stream   *)
(* and its socket it runs the key agreement and turns RTP into SRTP.       *)
(*                                                                         *)
(* Threads: the worker of pjsip, which receives packets, fires the timer   *)
(* and applies SDP, and the senders, the threads that give RTP to the      *)
(* transport.  Each of them may find that the engine is to be started.     *)
(* The engine itself is a library: what it may do is left open.            *)
(***************************************************************************)
EXTENDS Naturals

CONSTANTS
  worker,     \* the thread of pjsip
  Senders,    \* threads that send RTP
  none,
  Offers,     \* sets of zrtp-hash values an SDP may carry
  peerHash,   \* zrtp-hash of the Hello the peer sends
  MaxOffers   \* bound: SDP negotiations of a call

ASSUME ZrtpAssumption ==
  /\ worker \notin Senders /\ none \notin Senders \cup {worker}
  /\ MaxOffers \in Nat

Threads == Senders \cup {worker}

VARIABLES
  started, starting, negotFailed, iceBusy,
  startLock,            \* owner of zrtpStartingMutex
  notSupportedCounter,
  zrtpCn,               \* zrtpCn > 0
  srtp,                 \* the contexts there are: "send", "receive"
  postponed,            \* zrtpHashCheckPostponed
  peerSDPZrtpHash,      \* the hashes kept for the postponed check
  engine,               \* state of the engine
  engineLock,           \* owner of zrtpMutex
  helloSeen,            \* the engine knows the hash of the peer's Hello
  ice,                  \* state of the ICE transport below
  pc,
  back,                 \* what a thread does after startZrtp; "idle" outside it
  secure,               \* told by zrtp_secureOn and zrtp_secureOff
  notSupp,              \* history: the user was told that the peer has no ZRTP
  hashMatch,            \* zrtp_hash_match
  sdp, offers,          \* history: hashes of the last SDP, number of SDPs
  raced                 \* history: started was set after the engine gave up

start   == <<started, starting, negotFailed, iceBusy, startLock>>
hash    == <<postponed, peerSDPZrtpHash, hashMatch, sdp, offers>>
control == <<pc, back>>
told    == <<secure, notSupp>>
lib     == <<engine, engineLock, helloSeen>>
count   == <<notSupportedCounter, zrtpCn>>
vars == <<start, count, srtp, hash, lib, ice, control, told, raced>>

Init ==
  /\ started = FALSE /\ starting = FALSE /\ negotFailed = FALSE
  /\ iceBusy = FALSE /\ startLock = none
  /\ notSupportedCounter = 0 /\ zrtpCn = FALSE
  /\ srtp = {}
  /\ postponed = FALSE /\ peerSDPZrtpHash = {} /\ hashMatch = "none"
  /\ sdp = {} /\ offers = 0
  /\ engine = "Initial" /\ engineLock = none /\ helloSeen = FALSE
  /\ ice = "nego"
  /\ pc = [t \in Threads |-> "idle"]
  /\ back = [t \in Threads |-> "idle"]
  /\ secure = FALSE /\ notSupp = FALSE
  /\ raced = FALSE

Goto(t, from, to) == pc[t] = from /\ pc' = [pc EXCEPT ![t] = to]

(***************************************************************************)
(* Packets.  The stream is attached once SDP was applied.                  *)
(***************************************************************************)

\* A packet that finds the engine not started starts it first.
CheckStarted(t, from, then) ==
  /\ Goto(t, from, IF started THEN then ELSE "trylock")
  /\ back' = [back EXCEPT ![t] = IF started THEN "idle" ELSE then]

\* transport_rtp_cb with RTP, which goes to the stream first.
RtpIn(t) ==
  /\ t = worker /\ offers > 0
  /\ CheckStarted(t, "idle", "idle")
  /\ UNCHANGED <<start, count, srtp, hash, lib, ice, told, raced>>

\* transport_rtp_cb with a ZRTP packet.
ZrtpIn(t) ==
  /\ t = worker /\ offers > 0
  /\ Goto(t, "idle", "zrtp")
  /\ zrtpCn' = TRUE
  /\ UNCHANGED <<start, notSupportedCounter, srtp, hash, lib, ice, back, told, raced>>

\* "ZRTP start in progress. Ignoring ZRTP packet", or the packet is not valid.
IgnoreZrtp(t) ==
  /\ Goto(t, "zrtp", "idle")
  /\ UNCHANGED <<start, count, srtp, hash, lib, ice, back, told, raced>>

AcceptZrtp(t) ==
  /\ ~starting
  /\ CheckStarted(t, "zrtp", "received")
  /\ UNCHANGED <<start, count, srtp, hash, lib, ice, told, raced>>

\* "ICE is busy, cannot react on this ZRTP packet, ignoring it"
IceIsBusy(t) ==
  /\ iceBusy /\ Goto(t, "received", "idle")
  /\ UNCHANGED <<start, count, srtp, hash, lib, ice, back, told, raced>>

ToEngine(t) ==
  /\ ~iceBusy /\ Goto(t, "received", "process")
  /\ UNCHANGED <<start, count, srtp, hash, lib, ice, back, told, raced>>

\* pj_zrtp_transport_send_rtp; the packet leaves protected if srtpSend is there.
SendRtp(t) ==
  /\ t \in Senders /\ offers > 0
  /\ CheckStarted(t, "idle", "idle")
  /\ UNCHANGED <<start, count, srtp, hash, lib, ice, told, raced>>

(***************************************************************************)
(* pjmedia_transport_zrtp_startZrtp: the callers looked at started before  *)
(* they came here, and nobody looks again.                                 *)
(***************************************************************************)

TryLock(t) ==
  /\ startLock = none /\ Goto(t, "trylock", "locked")
  /\ startLock' = t
  /\ UNCHANGED <<started, starting, negotFailed, iceBusy, count, srtp, hash,
                 lib, ice, back, told, raced>>

\* "ZRTP start in progress. Exiting this attempt"
LockBusy(t) ==
  /\ startLock # none /\ Goto(t, "trylock", back[t])
  /\ back' = [back EXCEPT ![t] = "idle"]
  /\ UNCHANGED <<start, count, srtp, hash, lib, ice, told, raced>>

MarkStarting(t) ==
  /\ Goto(t, "locked", "starting")
  /\ starting' = TRUE
  /\ UNCHANGED <<started, negotFailed, iceBusy, startLock, count, srtp, hash,
                 lib, ice, back, told, raced>>

\* Mutant: the early return forgets the mutex.
LeakLock(t) ==
  /\ ice = "nego" /\ Goto(t, "starting", back[t])
  /\ iceBusy' = TRUE
  /\ starting' = FALSE
  /\ UNCHANGED <<started, negotFailed, startLock, count, srtp, hash,
                 lib, ice, back, told, raced>>

\* PJ_ICE_STRANS_STATE_NEGO
WaitForIce(t) ==
  /\ ice = "nego" /\ Goto(t, "starting", "reset")
  /\ iceBusy' = TRUE
  /\ UNCHANGED <<started, starting, negotFailed, startLock, count, srtp, hash,
                 lib, ice, back, told, raced>>

Begin(t) ==
  /\ ice # "nego" /\ Goto(t, "starting", "engine")
  /\ iceBusy' = FALSE
  /\ negotFailed' = FALSE
  /\ UNCHANGED <<started, starting, startLock, count, srtp, hash,
                 lib, ice, back, told, raced>>

\* zrtp->negotFailed is read once the engine was started.
StartFailed(t) ==
  /\ negotFailed /\ Goto(t, "test", "reset")
  /\ started' = FALSE
  /\ UNCHANGED <<starting, negotFailed, iceBusy, startLock, count, srtp, hash,
                 lib, ice, back, told, raced>>

StartPassed(t) ==
  /\ ~negotFailed /\ Goto(t, "test", "passed")
  /\ UNCHANGED <<start, count, srtp, hash, lib, ice, back, told, raced>>

\* The engine has given up and has still to clear started or to tell the user.
WillTell == \E t \in Threads : pc[t] \in {"fail", "report", "refail", "notsupp"}

SetStarted(t) ==
  /\ Goto(t, "passed", "reset")
  /\ started' = TRUE
  /\ raced' = (raced \/ (engine = "Initial" /\ ~WillTell))
  /\ UNCHANGED <<starting, negotFailed, iceBusy, startLock, count, srtp, hash,
                 lib, ice, back, told>>

\* Mutant: starting is left to zrtp_start_unlock.
NoReset(t) ==
  /\ Goto(t, "reset", "unlock")
  /\ UNCHANGED <<start, count, srtp, hash, lib, ice, back, told, raced>>

\* zrtp_reset_isstarting
ResetStarting(t) ==
  /\ Goto(t, "reset", "unlock")
  /\ starting' = FALSE
  /\ UNCHANGED <<started, negotFailed, iceBusy, startLock, count, srtp, hash,
                 lib, ice, back, told, raced>>

\* zrtp_start_unlock: the mutex first, ...
Unlock(t) ==
  /\ Goto(t, "unlock", "unlocked")
  /\ startLock' = none
  /\ UNCHANGED <<started, starting, negotFailed, iceBusy, count, srtp, hash,
                 lib, ice, back, told, raced>>

\* ... then the flag, which may be another thread's by now.
ClearStarting(t) ==
  /\ Goto(t, "unlocked", back[t])
  /\ starting' = FALSE
  /\ back' = [back EXCEPT ![t] = "idle"]
  /\ UNCHANGED <<started, negotFailed, iceBusy, startLock, count, srtp, hash,
                 lib, ice, told, raced>>

(***************************************************************************)
(* The engine and what it calls.  It works under zrtpMutex (zrtp_synchEnter *)
(* and zrtp_synchLeave); it may be started in state Initial, which it      *)
(* comes back to when it gives up.  Starting it in another state has no    *)
(* effect or is a protocol error.                                          *)
(***************************************************************************)

EngineStarts(t) ==
  /\ engineLock = none /\ Goto(t, "engine", "test")
  /\ engine' = IF engine = "Initial" THEN "Detect" ELSE engine
  /\ UNCHANGED <<start, count, srtp, hash, engineLock, helloSeen, ice, back, told, raced>>

\* An error while it starts or while it processes a message.
EngineFails(t) ==
  /\ engineLock = none
  /\ \/ Goto(t, "engine", "fail")
     \/ engine = "Detect" /\ Goto(t, "process", "fail")
     \/ engine = "Detect" /\ t = worker /\ Goto(t, "idle", "fail")
  /\ engineLock' = t
  /\ engine' = "Initial"
  /\ UNCHANGED <<start, count, srtp, hash, helloSeen, ice, back, told, raced>>

\* The message changes nothing here.
Processed(t) ==
  /\ engineLock = none /\ Goto(t, "process", "idle")
  /\ helloSeen' = (helloSeen \/ engine = "Detect")
  /\ UNCHANGED <<start, count, srtp, hash, engine, engineLock, ice, back, told, raced>>

\* The last messages of the agreement.
Agree(t) ==
  /\ engine = "Detect" /\ helloSeen
  /\ engineLock = none /\ Goto(t, "process", "keys")
  /\ engineLock' = t
  /\ UNCHANGED <<start, count, srtp, hash, engine, helloSeen, ice, back, told, raced>>

\* The engine asks for the contexts of both directions, in the order of its role;
\* a thread is at "keys" while both are to come, then at the one that is.
Other(part) == IF part = "send" THEN "receive" ELSE "send"

\* zrtp_srtpSecretsReady; a context left over from an earlier agreement is replaced.
SecretsReady(t, part) ==
  /\ Goto(t, "keys", Other(part)) \/ Goto(t, part, "on")
  /\ srtp' = srtp \cup {part}
  /\ UNCHANGED <<start, count, hash, lib, ice, back, told, raced>>

\* Mutant: it returns 1 although the context could not be made.
SecretsMissing(t, part) ==
  /\ Goto(t, "keys", Other(part)) \/ Goto(t, part, "on")
  /\ UNCHANGED <<start, count, srtp, hash, lib, ice, back, told, raced>>

\* It returns 0 when the context cannot be made: the engine gives up, and what was
\* made for the other direction may stay.
SecretsRefused(t, part) ==
  /\ Goto(t, "keys", "fail") \/ Goto(t, part, "fail")
  /\ engine' = "Initial"
  /\ UNCHANGED <<start, count, srtp, hash, engineLock, helloSeen, ice, back, told, raced>>

\* At least one hash has to match.
Verdict(S) == IF S = {} THEN "noSdp" ELSE IF peerHash \in S THEN "match" ELSE "mismatch"

\* zrtp_srtpSecretsOn, with the check media_start postponed.
SecretsOn(t) ==
  /\ Goto(t, "on", "idle")
  /\ engine' = "Secure" /\ engineLock' = none
  /\ secure' = TRUE
  /\ hashMatch' = IF postponed THEN Verdict(peerSDPZrtpHash) ELSE hashMatch
  /\ postponed' = FALSE
  /\ UNCHANGED <<start, count, srtp, peerSDPZrtpHash, sdp, offers, helloSeen, ice,
                 back, notSupp, raced>>

\* zrtp_srtpSecretsOff, before the engine reports why. An engine that was secure
\* turns off at least one direction; a failed agreement need not clean up.
SecretsOff(t, part) ==
  /\ part \in srtp /\ pc[t] = "fail"
  /\ srtp' = srtp \ {part}
  /\ secure' = FALSE
  /\ UNCHANGED <<start, count, hash, lib, ice, control, notSupp, raced>>

\* zrtp_zrtpNegotiationFailed: started, ...
Fail(t) ==
  /\ ~secure /\ Goto(t, "fail", "report")
  /\ started' = FALSE
  /\ UNCHANGED <<starting, negotFailed, iceBusy, startLock, count, srtp, hash,
                 lib, ice, back, told, raced>>

\* ... negotFailed and the callback, ...
Report(t) ==
  /\ Goto(t, "report", "refail")
  /\ negotFailed' = TRUE
  /\ UNCHANGED <<started, starting, iceBusy, startLock, count, srtp, hash,
                 lib, ice, back, told, raced>>

\* ... and both again.
Refail(t) ==
  /\ Goto(t, "refail", "failed")
  /\ started' = FALSE
  /\ UNCHANGED <<starting, negotFailed, iceBusy, startLock, count, srtp, hash,
                 lib, ice, back, told, raced>>

\* It returns to startZrtp or, for a packet or the timer, to the worker's loop.
Failed(t) ==
  /\ Goto(t, "failed", IF startLock = t THEN "test" ELSE "idle")
  /\ negotFailed' = TRUE
  /\ engineLock' = none
  /\ UNCHANGED <<started, starting, iceBusy, startLock, count, srtp, hash,
                 engine, helloSeen, ice, back, told, raced>>

\* timer_callback: the last Hello was not answered.
NotAnswered(t) ==
  /\ t = worker /\ engine = "Detect"
  /\ engineLock = none /\ Goto(t, "idle", "notsupp")
  /\ engineLock' = t
  /\ engine' = "Initial"
  /\ UNCHANGED <<start, count, srtp, hash, helloSeen, ice, back, told, raced>>

\* Mutant: nothing is retried.
RetryForgotten(t) ==
  /\ notSupportedCounter < 2 /\ zrtpCn
  /\ Goto(t, "notsupp", "idle")
  /\ notSupportedCounter' = notSupportedCounter + 1
  /\ engineLock' = none
  /\ UNCHANGED <<start, zrtpCn, srtp, hash, engine, helloSeen, ice, back, told, raced>>

\* Mutant: there is no limit to the retries.
RetryAlways(t) ==
  /\ zrtpCn
  /\ Goto(t, "notsupp", "refail")
  /\ notSupportedCounter' = notSupportedCounter + 1
  /\ UNCHANGED <<start, zrtpCn, srtp, hash, lib, ice, back, told, raced>>

\* zrtp_zrtpNotSuppOther: try again twice, if the peer ever sent ZRTP.
Retry(t) ==
  /\ notSupportedCounter < 2 /\ zrtpCn
  /\ Goto(t, "notsupp", "refail")
  /\ notSupportedCounter' = notSupportedCounter + 1
  /\ UNCHANGED <<start, zrtpCn, srtp, hash, lib, ice, back, told, raced>>

\* The counter is not looked at once it is 3.
NotSupported(t) ==
  /\ notSupportedCounter >= 2 \/ ~zrtpCn
  /\ Goto(t, "notsupp", "idle")
  /\ notSupportedCounter' = IF notSupportedCounter < 3 THEN notSupportedCounter + 1 ELSE 3
  /\ notSupp' = TRUE
  /\ engineLock' = none
  /\ UNCHANGED <<start, zrtpCn, srtp, hash, engine, helloSeen, ice, back, secure, raced>>

(***************************************************************************)
(* SDP.  media_start runs on the worker, for every negotiated SDP.         *)
(***************************************************************************)

\* Mutant: a check that is not to be made any more stays postponed.
MediaStartStale(S) ==
  /\ pc[worker] = "idle" /\ offers < MaxOffers
  /\ offers' = offers + 1
  /\ sdp' = S
  /\ postponed' = (postponed \/ (S # {} /\ ~helloSeen))
  /\ peerSDPZrtpHash' = IF S # {} /\ ~helloSeen THEN S ELSE peerSDPZrtpHash
  /\ hashMatch' = IF S # {} /\ ~helloSeen THEN hashMatch ELSE Verdict(S)
  /\ UNCHANGED <<start, count, srtp, lib, ice, control, told, raced>>

MediaStart(S) ==
  /\ pc[worker] = "idle" /\ offers < MaxOffers
  /\ offers' = offers + 1
  /\ sdp' = S
  /\ postponed' = (S # {} /\ ~helloSeen)
  /\ peerSDPZrtpHash' = IF postponed' THEN S ELSE peerSDPZrtpHash
  /\ hashMatch' = IF postponed' THEN hashMatch ELSE Verdict(S)
  /\ UNCHANGED <<start, count, srtp, lib, ice, control, told, raced>>

\* The ICE transport below ends its negotiation, with success or without.
IceDone ==
  /\ ice = "nego" /\ ice' = "done"
  /\ UNCHANGED <<start, count, srtp, hash, lib, control, told, raced>>

-----------------------------------------------------------------------------
Packet(t) == RtpIn(t) \/ SendRtp(t)

StartStep(t) ==
  \/ TryLock(t) \/ LockBusy(t) \/ MarkStarting(t) \/ WaitForIce(t) \/ Begin(t)
  \/ StartFailed(t) \/ StartPassed(t) \/ SetStarted(t)
  \/ ResetStarting(t) \/ Unlock(t) \/ ClearStarting(t)

PacketStep(t) ==
  \/ IgnoreZrtp(t) \/ AcceptZrtp(t) \/ IceIsBusy(t) \/ ToEngine(t) \/ Processed(t)

CallbackStep(t) ==
  \/ \E part \in {"send", "receive"} :
       SecretsReady(t, part) \/ SecretsRefused(t, part) \/ SecretsOff(t, part)
  \/ SecretsOn(t) \/ Fail(t) \/ Report(t) \/ Refail(t) \/ Failed(t)
  \/ Retry(t) \/ NotSupported(t)

Step(t) == StartStep(t) \/ EngineStarts(t) \/ PacketStep(t) \/ CallbackStep(t)

Next ==
  \/ \E t \in Threads :
       Packet(t) \/ ZrtpIn(t) \/ Step(t) \/ EngineFails(t) \/ Agree(t) \/ NotAnswered(t)
  \/ \E S \in Offers : MediaStart(S)
  \/ IceDone

\* Threads run, senders send (the microphone is always on), ICE ends, and the
\* worker polls its timers.  That the peer answers is not assumed.
Fairness ==
  /\ \A t \in Threads : WF_vars(Step(t))
  /\ \A t \in Senders : WF_vars(SendRtp(t))
  /\ WF_vars(IceDone)
  /\ SF_vars(NotAnswered(worker))

Spec == Init /\ [][Next]_vars /\ Fairness
-----------------------------------------------------------------------------
\* Between trylock and the release of the mutex.
Started == {"locked", "starting", "engine", "test", "passed", "reset", "unlock"}
Failing == {"fail", "report", "refail", "failed"}
Labels ==
  {"idle", "zrtp", "received", "process", "trylock", "locked", "starting", "engine",
   "test", "passed", "reset", "unlock", "unlocked", "keys", "send", "receive", "on",
   "notsupp", "fail", "report", "refail", "failed"}

\* The types.
TypeOK ==
  /\ started \in BOOLEAN /\ starting \in BOOLEAN
  /\ negotFailed \in BOOLEAN /\ iceBusy \in BOOLEAN
  /\ startLock \in Threads \cup {none}
  /\ notSupportedCounter \in 0..3 /\ zrtpCn \in BOOLEAN
  /\ srtp \subseteq {"send", "receive"}
  /\ postponed \in BOOLEAN /\ peerSDPZrtpHash \in Offers \cup {{}}
  /\ hashMatch \in {"none", "noSdp", "match", "mismatch"}
  /\ sdp \in Offers \cup {{}} /\ offers \in 0..MaxOffers
  /\ engine \in {"Initial", "Detect", "Secure"}
  /\ engineLock \in Threads \cup {none}
  /\ helloSeen \in BOOLEAN
  /\ ice \in {"nego", "done"}
  /\ pc \in [Threads -> Labels]
  /\ back \in [Threads -> {"idle", "received"}]
  /\ secure \in BOOLEAN /\ notSupp \in BOOLEAN /\ raced \in BOOLEAN

AtRest == \A t \in Threads : pc[t] = "idle"

\* ZRTP packets are dropped while starting is set, so it must not stay set: it
\* is set only while the thread that set it holds the mutex, although it is
\* cleared once more after the release, when another thread may have set it.
StartingHeld ==
  starting => startLock # none /\ pc[startLock] \in Started \cup Failing

\* Nothing starts the engine while started is set: if it gave up nevertheless,
\* the user was told that there will be no ZRTP.  (Or it gave up between the
\* test of negotFailed and started = 1, which loses the restart.)
NoSilentEnd ==
  AtRest /\ started /\ engine = "Initial" => notSupp \/ raced

\* A call shown as secure carries the verdict on the zrtp-hash of the last SDP,
\* whether it came before or after the Hello and how often it was negotiated.
HashVerdict == secure => hashMatch = Verdict(sdp)

\* Shown as secure means that both directions are encrypted, although the engine
\* asks for the contexts one by one, either may not be made, and what an earlier
\* agreement left behind is used again.
SecureMeansKeyed == secure => srtp = {"send", "receive"}

\* A negotiated call gets secure or the user hears that it does not.
Settles ==
  offers > 0 ~> (secure \/ notSupp \/ raced \/ \E t \in Threads : pc[t] = "report")
=============================================================================
