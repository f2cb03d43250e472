-------------------------------- MODULE Call --------------------------------
(***************************************************************************)
(* One call (call.go, the audio part of media.go, the call handling of     *)
(* xphone.go), from the INVITE to Ended: the goroutine that sets it up, the *)
(* media goroutine, the RTP reader, the callback dispatcher, the session   *)
(* timer and the requests of the user and of the peer.                     *)
(*                                                                         *)
(* An action is one critical section of c.mu: Hold, Resume and End keep    *)
(* c.mu during their SIP transaction.  An event that is found by a lookup  *)
(* in p.calls, or by a timer, and applied under c.mu later is two actions. *)
(* One user callback is registered for every event.                        *)
(***************************************************************************)
EXTENDS Integers, Sequences, FiniteSets

CONSTANTS
  Ops,           \* what the user, the peer and the clocks do, of AllOps
  EarlyMedia,    \* opts.EarlyMedia
  SessionTimer,  \* does the INVITE carry Session-Expires?
  QueueCap,      \* capacity of callbackCh, 16 in the code
  MaxHolds       \* bound: how often the call is put on hold or resumed

AllOps == {"Reject", "End", "Hold", "Suspend", "Refresh", "ReInvite", "Bye",
           "Cancel", "RTP", "Timeout", "Transfer"}

ASSUME CallOpsAssumption == Ops \subseteq AllOps
ASSUME OptionsAssumption == EarlyMedia \in BOOLEAN /\ SessionTimer \in BOOLEAN
ASSUME QueueCapAssumption == QueueCap \in Nat
ASSUME MaxHoldsAssumption == MaxHolds \in Nat

VARIABLES
  direction,  \* c.direction
  state,      \* c.state
  task,       \* where the goroutine that sets the call up is
  answered,   \* has the INVITE been answered with 200?
  timer,      \* c.sessionTimer
  mediaDone,  \* c.mediaDone: nil, open or closed
  rtp,        \* c.rtpConn
  rtcp,       \* c.rtcpConn
  media,      \* the media goroutine
  armed,      \* the timeout its mediaTimer was last reset to
  reset,      \* c.mediaTimerReset: nil, empty or the value in it
  reader,     \* the RTP reader goroutine
  out,        \* the output channels rtpReader, rtpRawReader and pcmReader
  tracked,    \* is the call in p.calls?
  queue,      \* c.callbackCh
  qClosed,    \* is it closed?
  loose,      \* how many callbacks run in goroutines of their own
  spilled,    \* was there ever one?
  seen,       \* the state last passed to OnState
  holds,      \* how often the call was put on hold or resumed
  bye,        \* has a BYE found the call, and not yet been applied?
  gone,       \* has the peer sent BYE?
  cancelled,  \* has the peer sent CANCEL?
  crashed     \* has the process died of a panic?

setup     == <<direction, task, answered>>
resources == <<timer, mediaDone, rtp, rtcp>>
pipeline  == <<media, armed, reset, reader>>
callbacks == <<queue, qClosed, loose, spilled>>
view      == <<seen, tracked>>
peer      == <<bye, gone, cancelled>>
vars == <<state, holds, out, crashed, setup, resources, pipeline, callbacks,
          view, peer>>

CallState == {"Ringing", "Dialing", "RemoteRinging", "EarlyMedia", "Active",
              "OnHold", "Ended"}
Task == {"register", "replay", "check", "startMedia", "startReader",
         "onMedia", "done"}
InCall == {"Active", "OnHold"}

\* A dispatched function shows the user a state, or untracks the call, or is
\* one of those that change nothing here (OnEnded, OnMedia, OnHold, OnResume).
Effect == CallState \cup {"cleanup"}
Event  == Effect \cup {"other"}

\* A dialled call exists once its INVITE has been answered; the RTP port is
\* allocated before the call is registered.
Init ==
  /\ direction \in {"in", "out"}
  /\ state = IF direction = "in" THEN "Ringing" ELSE "Dialing"
  /\ task = "register" /\ answered = (direction = "out")
  /\ timer = "nil" /\ mediaDone = "nil" /\ rtp = "open" /\ rtcp = "nil"
  /\ media = "none" /\ armed = "normal" /\ reset = "nil" /\ reader = "none"
  /\ out = "open"
  /\ tracked = FALSE /\ seen = state
  /\ queue = <<>> /\ qClosed = FALSE /\ spilled = FALSE
  /\ loose = [e \in Effect |-> 0]
  /\ holds = 0
  /\ bye = FALSE /\ gone = FALSE /\ cancelled = FALSE
  /\ crashed = FALSE

\* The user or a timer acts on a call it knows.  (A process that panicked does
\* nothing more.)
Acts(o) == o \in Ops /\ ~crashed /\ task # "register"

-----------------------------------------------------------------------------
(* Callbacks *)

\* Mutant: callbackCh has no capacity.
DispatchUnbounded(events) ==
  queue' = queue \o events /\ UNCHANGED <<loose, spilled>>

\* Mutant: a callback that finds the channel full or closed is dropped.
DispatchDrops(events) ==
  /\ queue' = IF qClosed \/ Len(queue) + Len(events) > QueueCap
                THEN queue ELSE queue \o events
  /\ UNCHANGED <<loose, spilled>>

\* dispatch, once for each event: queue it, or start a goroutine if the
\* channel is full or closed.
Dispatch(events) ==
  LET room == IF qClosed THEN 0 ELSE QueueCap - Len(queue)
      fit  == IF Len(events) <= room THEN Len(events) ELSE room
      rest == {i \in DOMAIN events : i > fit}
  IN  /\ queue' = queue \o SubSeq(events, 1, fit)
      /\ loose' = [e \in Effect |->
                     loose[e] + Cardinality({i \in rest : events[i] = e})]
      /\ spilled' = (spilled \/ rest # {})

RunCallback(e) ==
  /\ seen' = IF e \in CallState THEN e ELSE seen
  /\ tracked' = IF e = "cleanup" THEN FALSE ELSE tracked
  /\ UNCHANGED <<state, holds, out, crashed, setup, resources, pipeline,
                 qClosed, spilled, peer>>

RunCallbackDispatcher ==
  /\ ~crashed /\ queue # <<>>
  /\ queue' = Tail(queue)
  /\ RunCallback(Head(queue))
  /\ UNCHANGED loose

RunLoose ==
  /\ ~crashed
  /\ \E e \in Effect :
       /\ loose[e] > 0
       /\ loose' = [loose EXCEPT ![e] = @ - 1]
       /\ RunCallback(e)
  /\ UNCHANGED queue

-----------------------------------------------------------------------------
(* The end of the call *)

\* Mutant: fireOnEnded forgets the RTCP socket.
EndCallKeepsRTCP ==
  /\ state' = "Ended" /\ timer' = "nil"
  /\ mediaDone' = IF mediaDone = "nil" THEN "nil" ELSE "closed"
  /\ rtp' = "nil" /\ UNCHANGED rtcp
  /\ Dispatch(<<"Ended", "cleanup", "other">>) /\ qClosed' = TRUE

\* Mutant: fireOnEnded does not tell the media goroutine to stop.
EndCallKeepsMedia ==
  /\ state' = "Ended" /\ timer' = "nil"
  /\ rtp' = "nil" /\ rtcp' = "nil" /\ UNCHANGED mediaDone
  /\ Dispatch(<<"Ended", "cleanup", "other">>) /\ qClosed' = TRUE

\* fireOnState(Ended) and fireOnEnded, but for the output channels.
EndCall ==
  /\ state' = "Ended"
  /\ timer' = "nil"
  /\ mediaDone' = IF mediaDone = "nil" THEN "nil" ELSE "closed"
  /\ rtp' = "nil" /\ rtcp' = "nil"
  /\ Dispatch(<<"Ended", "cleanup", "other">>)
  /\ qClosed' = TRUE

\* Mutant: fireOnEnded closes the output channels under a running goroutine.
FireOnEndedCloses ==
  /\ EndCall
  /\ out' = "closed"
  /\ UNCHANGED <<holds, crashed, setup, pipeline, view>>

\* The output channels are closed here only if the media goroutine, which
\* closes them when it exits, was never started.
FireOnEnded ==
  /\ EndCall
  /\ out' = IF mediaDone = "nil" THEN "closed" ELSE out
  /\ UNCHANGED <<holds, crashed, setup, pipeline, view>>

Reject ==
  /\ Acts("Reject") /\ state = "Ringing"
  /\ FireOnEnded /\ UNCHANGED peer

End ==
  /\ Acts("End") /\ state # "Ended"
  /\ FireOnEnded /\ UNCHANGED peer

\* endWithReason, when the final NOTIFY of a transfer of this call, or of
\* another call to this one, arrives (module Transfer).
EndWithReason ==
  /\ Acts("Transfer") /\ state \in InCall
  /\ FireOnEnded /\ UNCHANGED peer

-----------------------------------------------------------------------------
(* Setting the call up *)

RegisterCall ==
  /\ ~crashed /\ task = "register"
  /\ tracked' = TRUE
  /\ task' = IF direction = "in" THEN "done" ELSE "replay"
  /\ UNCHANGED <<state, holds, out, crashed, direction, answered, resources,
                 pipeline, callbacks, seen, peer>>

Accept ==
  /\ ~crashed /\ task = "done" /\ state = "Ringing"
  /\ state' = "Active"
  /\ answered' = TRUE
  /\ timer' = IF SessionTimer THEN "running" ELSE timer
  /\ task' = IF rtp = "open" THEN "startMedia" ELSE "onMedia"
  /\ Dispatch(<<"Active">>)
  /\ UNCHANGED <<holds, out, crashed, direction, mediaDone, rtp, rtcp, pipeline,
                 qClosed, view, peer>>

\* Mutant: a replayed response is applied whatever the state.
SimulateResponseAnyState(code) ==
  LET after == CASE code = 180 -> "RemoteRinging"
                 [] code = 183 -> "EarlyMedia"
                 [] code = 200 -> "Active"
  IN  /\ ~crashed /\ task = "replay"
      /\ task' = IF code = 200 THEN "check" ELSE task
      /\ state' = after /\ Dispatch(<<after>>)
      /\ UNCHANGED <<holds, out, crashed, direction, answered, resources,
                     pipeline, qClosed, view, peer>>

\* simulateResponse, by which Dial replays the responses it collected.
SimulateResponse(code) ==
  LET before == CASE code = 180 -> {"Dialing"}
                  [] code = 183 /\ EarlyMedia -> {"Dialing", "RemoteRinging"}
                  [] code = 183 /\ ~EarlyMedia -> {}
                  [] code = 200 -> {"Dialing", "RemoteRinging", "EarlyMedia"}
      after  == CASE code = 180 -> "RemoteRinging"
                  [] code = 183 -> "EarlyMedia"
                  [] code = 200 -> "Active"
  IN  /\ ~crashed /\ task = "replay"
      /\ task' = IF code = 200 THEN "check" ELSE task
      /\ IF state \in before
           THEN /\ state' = after
                /\ Dispatch(IF code = 180 THEN <<after>> ELSE <<after, "other">>)
           ELSE UNCHANGED <<state, queue, loose, spilled>>
      /\ UNCHANGED <<holds, out, crashed, direction, answered, resources,
                     pipeline, qClosed, view, peer>>

\* Dial looks at c.rtpConn without the lock.
CheckRTP ==
  /\ ~crashed /\ task = "check"
  /\ task' = IF rtp = "open" THEN "startMedia" ELSE "done"
  /\ UNCHANGED <<state, holds, out, crashed, direction, answered, resources,
                 pipeline, callbacks, view, peer>>

\* startMedia, called once in a call's life: c.mediaDone is nil.  It does not
\* look at the state; without an RTP socket its log line dereferences nil.
StartMedia ==
  /\ ~crashed /\ task = "startMedia"
  /\ task' = "startReader"
  /\ mediaDone' = "open"
  /\ reset' = "empty"
  /\ armed' = "normal"
  /\ \/ rtp = "open" /\ rtcp' \in {"nil", "open"} /\ media' = "running"
        /\ UNCHANGED crashed
     \/ rtp = "nil" /\ crashed' = TRUE /\ UNCHANGED <<rtcp, media>>
  /\ UNCHANGED <<state, holds, out, direction, answered, timer, rtp, reader,
                 callbacks, view, peer>>

StartRTPReader ==
  /\ ~crashed /\ task = "startReader"
  /\ task' = IF direction = "in" THEN "onMedia" ELSE "done"
  /\ reader' = IF rtp = "open" THEN "running" ELSE reader
  /\ UNCHANGED <<state, holds, out, crashed, direction, answered, resources,
                 media, armed, reset, callbacks, view, peer>>

\* The last lines of Accept.
OnMedia ==
  /\ ~crashed /\ task = "onMedia"
  /\ task' = "done"
  /\ Dispatch(<<"other">>)
  /\ UNCHANGED <<state, holds, out, crashed, direction, answered, resources,
                 pipeline, qClosed, view, peer>>

-----------------------------------------------------------------------------
(* Hold and resume, from either side *)

\* signalMediaTimerReset: the latest value wins.
SignalMediaTimerReset(d) == reset' = IF reset = "nil" THEN "nil" ELSE d

SetHold(from, to, timeout, events) ==
  /\ state = from /\ holds < MaxHolds
  /\ state' = to
  /\ holds' = holds + 1
  /\ SignalMediaTimerReset(timeout)
  /\ Dispatch(events)
  /\ UNCHANGED <<out, crashed, setup, resources, media, armed, reader, qClosed,
                 view, peer>>

\* A re-INVITE that fails, as it does once the peer is gone, changes nothing.
Hold ==
  /\ Acts("Hold") /\ ~gone
  /\ SetHold("Active", "OnHold", "hold", <<"OnHold">>)

Resume ==
  /\ Acts("Hold") /\ ~gone
  /\ SetHold("OnHold", "Active", "normal", <<"Active">>)

\* handleReInvite with an audio-only offer, sendonly or sendrecv; an offer that
\* changes neither is answered and leaves the state alone.
HandleReInvite ==
  /\ Acts("ReInvite") /\ tracked /\ answered /\ ~gone
  /\ \/ SetHold("Active", "OnHold", "hold", <<"OnHold", "other">>)
     \/ SetHold("OnHold", "Active", "normal", <<"Active", "other">>)

\* SuspendMediaTimeout and RestoreMediaTimeout.
SuspendMediaTimeout ==
  /\ Acts("Suspend")
  /\ \E d \in {"hold", "normal"} : SignalMediaTimerReset(d)
  /\ UNCHANGED <<state, holds, out, crashed, setup, resources, media, armed,
                 reader, callbacks, view, peer>>

\* The session timer sends one re-INVITE and is not started again.
SessionRefresh ==
  /\ Acts("Refresh") /\ timer = "running"
  /\ timer' = "fired"
  /\ UNCHANGED <<state, holds, out, crashed, setup, mediaDone, rtp, rtcp,
                 pipeline, callbacks, view, peer>>

-----------------------------------------------------------------------------
(* The media goroutine and the RTP reader *)

\* A packet resets the timer to the normal timeout, whatever the state.
ReceiveRTP ==
  /\ "RTP" \in Ops /\ ~crashed /\ ~gone
  /\ reader = "running" /\ rtp = "open" /\ media = "running"
  /\ armed' = "normal"
  /\ UNCHANGED <<state, holds, out, crashed, setup, resources, media, reset,
                 reader, callbacks, view, peer>>

TakeTimerReset ==
  /\ ~crashed /\ media = "running" /\ reset \in {"normal", "hold"}
  /\ armed' = reset
  /\ reset' = "empty"
  /\ UNCHANGED <<state, holds, out, crashed, setup, resources, media, reader,
                 callbacks, view, peer>>

\* <-done, and the deferred closeOutputChannels.
MediaExit ==
  /\ ~crashed /\ media = "running" /\ mediaDone = "closed"
  /\ media' = "exited"
  /\ out' = "closed"
  /\ UNCHANGED <<state, holds, crashed, setup, resources, armed, reset, reader,
                 callbacks, view, peer>>

\* <-mediaTimer.C
MediaTimerFires ==
  /\ "Timeout" \in Ops /\ ~crashed /\ media = "running"
  /\ media' = "timeout"
  /\ UNCHANGED <<state, holds, out, crashed, setup, resources, armed, reset,
                 reader, callbacks, view, peer>>

\* Mutant: the media timeout stops the goroutine and leaves the call alone.
MediaTimeoutOnlyStops ==
  /\ ~crashed /\ media = "timeout"
  /\ media' = "exited"
  /\ out' = "closed"
  /\ UNCHANGED <<state, holds, crashed, setup, resources, armed, reset, reader,
                 callbacks, view, peer>>

\* The timeout branch, once it has c.mu.  It does not look at the state.
MediaTimeout ==
  /\ ~crashed /\ media = "timeout"
  /\ media' = "exited"
  /\ EndCall
  /\ out' = "closed"
  /\ UNCHANGED <<holds, crashed, setup, armed, reset, reader, view, peer>>

RTPReaderExit ==
  /\ ~crashed /\ reader = "running" /\ rtp = "nil"
  /\ reader' = "exited"
  /\ UNCHANGED <<state, holds, out, crashed, setup, resources, media, armed,
                 reset, callbacks, view, peer>>

-----------------------------------------------------------------------------
(* Requests of the peer *)

\* handleDialogBye looks the call up; a BYE of an unknown call is dropped.
HandleDialogBye ==
  /\ "Bye" \in Ops /\ ~crashed /\ answered /\ ~gone
  /\ gone' = TRUE
  /\ bye' = tracked
  /\ UNCHANGED <<state, holds, out, crashed, setup, resources, pipeline,
                 callbacks, view, cancelled>>

\* simulateBye ends the call whatever its state.
SimulateBye ==
  /\ ~crashed /\ bye
  /\ bye' = FALSE
  /\ FireOnEnded
  /\ UNCHANGED <<gone, cancelled>>

\* handleDialogCancel; one that finds no call, or not a ringing one, is lost.
HandleDialogCancel ==
  /\ "Cancel" \in Ops /\ ~crashed /\ direction = "in" /\ ~cancelled
  /\ cancelled' = TRUE
  /\ IF tracked /\ state = "Ringing"
       THEN FireOnEnded
       ELSE UNCHANGED <<state, holds, out, crashed, setup, resources, pipeline,
                        callbacks, view>>
  /\ UNCHANGED <<bye, gone>>

-----------------------------------------------------------------------------
SetUp ==
  \/ RegisterCall \/ (\E code \in {180, 183, 200} : SimulateResponse(code))
  \/ CheckRTP \/ StartMedia \/ StartRTPReader \/ OnMedia

\* What the user, the peer and the clocks may do.
Environment ==
  \/ Accept \/ Reject \/ End \/ EndWithReason \/ Hold \/ Resume
  \/ HandleReInvite \/ SuspendMediaTimeout \/ SessionRefresh \/ ReceiveRTP
  \/ MediaTimerFires \/ HandleDialogBye \/ HandleDialogCancel

Next ==
  \/ SetUp \/ Environment \/ TakeTimerReset \/ MediaExit \/ MediaTimeout
  \/ RTPReaderExit \/ SimulateBye \/ RunCallbackDispatcher \/ RunLoose

Spec == Init /\ [][Next]_vars

\* Every goroutine makes progress, and the media timer of a call whose peer
\* has gone, and sends no RTP, expires.
FairSpec ==
  /\ Spec
  /\ WF_vars(SetUp) /\ WF_vars(MediaExit) /\ WF_vars(MediaTimeout)
  /\ WF_vars(RTPReaderExit) /\ WF_vars(SimulateBye)
  /\ WF_vars(RunCallbackDispatcher) /\ WF_vars(RunLoose)
  /\ WF_vars(gone /\ MediaTimerFires)

-----------------------------------------------------------------------------
(* Properties *)

\* Type correctness: every field of the call struct has its type, and
\* callbackCh never holds more than its capacity.
TypeOK ==
  /\ direction \in {"in", "out"} /\ state \in CallState /\ task \in Task
  /\ timer \in {"nil", "running", "fired"}
  /\ mediaDone \in {"nil", "open", "closed"}
  /\ rtp \in {"nil", "open"} /\ rtcp \in {"nil", "open"}
  /\ media \in {"none", "running", "timeout", "exited"}
  /\ armed \in {"normal", "hold"} /\ reset \in {"nil", "empty", "normal", "hold"}
  /\ reader \in {"none", "running", "exited"} /\ out \in {"open", "closed"}
  /\ queue \in Seq(Event) /\ Len(queue) <= QueueCap
  /\ loose \in [Effect -> Nat] /\ seen \in CallState /\ holds \in 0..MaxHolds
  /\ {answered, tracked, qClosed, spilled, bye, gone, cancelled, crashed}
       \subseteq BOOLEAN

\* A call that has ended holds nothing: whichever of End, Reject, BYE, CANCEL,
\* a transfer or the media timeout ended it, and however they race with the
\* goroutine that starts its media, both sockets are closed, the media
\* goroutine has been told to stop and the session timer is stopped
\* (fireOnEnded).
EndedIsClean ==
  state = "Ended" /\ ~crashed =>
    rtp = "nil" /\ rtcp = "nil" /\ timer = "nil" /\ mediaDone # "open"

\* The media goroutine never sends on a closed channel: as long as it runs,
\* the output channels are open (call.go:1100).
NoSendOnClosed == media \in {"running", "timeout"} => out = "open"

\* OnState shows the user the truth in the end: once the queue is drained, and
\* unless the channel was full or closed when a callback was dispatched, the
\* last state reported is the state of the call (dispatch, call.go:997).
CallbacksConverge == queue = <<>> /\ ~spilled => seen = state

\* A call whose peer has hung up ends, even if the BYE came before the call
\* was registered and was dropped: then the media timeout ends it.
HangUpEnds == gone ~> (state = "Ended" \/ crashed)

\* A call that has ended leaves no goroutine and no entry in p.calls behind.
EndedIsForgotten ==
  state = "Ended" ~>
    \/ crashed
    \/ media \in {"none", "exited"} /\ reader # "running" /\ ~tracked

\* On hold the media timeout is the long one (CHANGELOG.md:262), as soon as
\* the media goroutine has taken the signal of Hold.
HoldArmsLongTimeout ==
  state = "OnHold" /\ media = "running" /\ reset = "empty" => armed = "hold"

\* The call implements what its state diagram promises (README.md:485).
Service == INSTANCE CallService WITH
  port <- IF rtp = "open" THEN "held" ELSE "free", outputs <- out
ImplementsCallService == Service!Spec
=============================================================================
