----------------------------- MODULE CallProofs -----------------------------
(***************************************************************************)
(* Proofs about Call, for every capacity of the callback channel, every    *)
(* number of holds and every mix of requests.                              *)
(***************************************************************************)
EXTENDS Call, FiniteSetTheorems, TLAPS

\* The media goroutine is started at most once: until startMedia has run,
\* c.mediaDone is nil and there is no goroutine.
StartsOnce ==
  /\ direction = "out" \/ task \in {"replay", "check", "startMedia"}
       => state # "Ringing"
  /\ state = "Ringing" \/ task \in {"register", "replay", "check", "startMedia"}
       => mediaDone = "nil" /\ media = "none"
  /\ media \in {"running", "timeout"} => mediaDone # "nil"

\* A call holds its port, and its output channels are open, until it ends; a
\* process only panics for a call that has ended.
HeldUntilEnd ==
  /\ state # "Ended" => rtp = "open" /\ out = "open"
  /\ state = "Ended" => rtp = "nil"
  /\ mediaDone = "closed" => state = "Ended"
  /\ crashed => state = "Ended"

\* The inductive invariant.
IInv ==
  /\ state \in CallState /\ task \in Task /\ direction \in {"in", "out"}
  /\ out \in {"open", "closed"}
  /\ StartsOnce /\ HeldUntilEnd /\ EndedIsClean /\ NoSendOnClosed

\* Nothing else than these variables occurs in the invariant.
LEMMA Frame ==
  ASSUME IInv,
         UNCHANGED <<state, task, direction, timer, mediaDone, rtp, rtcp, media,
                     out, crashed>>
  PROVE  IInv'
  BY DEF IInv, StartsOnce, HeldUntilEnd, EndedIsClean, NoSendOnClosed

\* The end of a call preserves the invariant, whatever the state it ends from.
LEMMA EndStep ==
  ASSUME IInv, ~crashed, FireOnEnded
  PROVE  IInv'
<1>1. /\ state' = "Ended" /\ timer' = "nil" /\ rtp' = "nil" /\ rtcp' = "nil"
      /\ mediaDone' = IF mediaDone = "nil" THEN "nil" ELSE "closed"
      /\ out' = IF mediaDone = "nil" THEN "closed" ELSE out
      /\ UNCHANGED <<task, direction, media, crashed>>
  BY DEF FireOnEnded, EndCall, setup, pipeline
<1> QED
  BY <1>1 DEF IInv, StartsOnce, HeldUntilEnd, EndedIsClean, NoSendOnClosed,
              CallState

\* So does a step that puts the call on hold or resumes it.
LEMMA HoldStep ==
  ASSUME IInv, NEW from \in InCall, NEW to \in InCall, NEW timeout, NEW events,
         SetHold(from, to, timeout, events)
  PROVE  IInv'
<1>1. /\ state = from /\ state' = to
      /\ UNCHANGED <<task, direction, timer, mediaDone, rtp, rtcp, media, out,
                     crashed>>
  BY DEF SetHold, setup, resources
<1> QED
  BY <1>1 DEF IInv, StartsOnce, HeldUntilEnd, EndedIsClean, NoSendOnClosed,
              CallState, InCall

LEMMA Initially == Init => IInv
  BY DEF Init, IInv, StartsOnce, HeldUntilEnd, EndedIsClean, NoSendOnClosed,
         CallState, Task

\* Every step preserves the invariant.
LEMMA Step == IInv /\ [Next]_vars => IInv'
<1> SUFFICES ASSUME IInv, [Next]_vars PROVE IInv'
  OBVIOUS
<1>1. ASSUME RegisterCall PROVE IInv'
  BY <1>1 DEF RegisterCall, resources, pipeline, IInv, StartsOnce,
    HeldUntilEnd, EndedIsClean, NoSendOnClosed, CallState, Task
<1>2. ASSUME NEW code \in {180, 183, 200}, SimulateResponse(code) PROVE IInv'
  <2>1. \/ UNCHANGED state
        \/ state \in {"Dialing", "RemoteRinging", "EarlyMedia"}
           /\ state' \in {"RemoteRinging", "EarlyMedia", "Active"}
    BY <1>2 DEF SimulateResponse
  <2>2. /\ task = "replay" /\ task' \in {"replay", "check"} /\ ~crashed
        /\ UNCHANGED <<direction, timer, mediaDone, rtp, rtcp, media, out,
                       crashed>>
    BY <1>2 DEF SimulateResponse, resources, pipeline
  <2> QED
    BY <2>1, <2>2 DEF IInv, StartsOnce, HeldUntilEnd, EndedIsClean, NoSendOnClosed,
       CallState, Task
<1>3. ASSUME CheckRTP PROVE IInv'
  BY <1>3 DEF CheckRTP, resources, pipeline, IInv, StartsOnce, HeldUntilEnd,
    EndedIsClean, NoSendOnClosed, CallState, Task
<1>4. ASSUME StartMedia PROVE IInv'
  BY <1>4 DEF StartMedia, IInv, StartsOnce, HeldUntilEnd, EndedIsClean,
    NoSendOnClosed, CallState, Task
<1>5. ASSUME StartRTPReader PROVE IInv'
  BY <1>5 DEF StartRTPReader, resources, IInv, StartsOnce, HeldUntilEnd,
    EndedIsClean, NoSendOnClosed, CallState, Task
<1>6. ASSUME OnMedia PROVE IInv'
  BY <1>6 DEF OnMedia, resources, pipeline, IInv, StartsOnce, HeldUntilEnd,
    EndedIsClean, NoSendOnClosed, CallState, Task
<1>7. ASSUME Accept PROVE IInv'
  BY <1>7 DEF Accept, pipeline, IInv, StartsOnce, HeldUntilEnd, EndedIsClean,
    NoSendOnClosed, CallState, Task
<1>8. ASSUME Reject PROVE IInv'
  BY <1>8, EndStep DEF Reject, Acts
<1>9. ASSUME End PROVE IInv'
  BY <1>9, EndStep DEF End, Acts
<1>10. ASSUME EndWithReason PROVE IInv'
  BY <1>10, EndStep DEF EndWithReason, Acts
<1>11. ASSUME Hold PROVE IInv'
  BY <1>11, HoldStep DEF Hold, InCall
<1>12. ASSUME Resume PROVE IInv'
  BY <1>12, HoldStep DEF Resume, InCall
<1>13. ASSUME HandleReInvite PROVE IInv'
  BY <1>13, HoldStep DEF HandleReInvite, InCall
<1>14. ASSUME SuspendMediaTimeout PROVE IInv'
  BY <1>14, Frame DEF SuspendMediaTimeout, setup, resources
<1>15. ASSUME SessionRefresh PROVE IInv'
  BY <1>15 DEF SessionRefresh, setup, pipeline, IInv, StartsOnce, HeldUntilEnd,
    EndedIsClean, NoSendOnClosed, CallState, Task
<1>16. ASSUME ReceiveRTP PROVE IInv'
  BY <1>16, Frame DEF ReceiveRTP, setup, resources
<1>17. ASSUME MediaTimerFires PROVE IInv'
  BY <1>17 DEF MediaTimerFires, setup, resources, IInv, StartsOnce,
    HeldUntilEnd, EndedIsClean, NoSendOnClosed, CallState, Task
<1>18. ASSUME HandleDialogBye PROVE IInv'
  BY <1>18, Frame DEF HandleDialogBye, setup, resources, pipeline
<1>19. ASSUME HandleDialogCancel PROVE IInv'
  BY <1>19, EndStep, Frame DEF HandleDialogCancel, setup, resources, pipeline
<1>20. ASSUME TakeTimerReset PROVE IInv'
  BY <1>20, Frame DEF TakeTimerReset, setup, resources
<1>21. ASSUME MediaExit PROVE IInv'
  BY <1>21 DEF MediaExit, setup, resources, IInv, StartsOnce, HeldUntilEnd,
    EndedIsClean, NoSendOnClosed, CallState, Task
<1>22. ASSUME MediaTimeout PROVE IInv'
  BY <1>22 DEF MediaTimeout, EndCall, setup, IInv, StartsOnce, HeldUntilEnd,
    EndedIsClean, NoSendOnClosed, CallState, Task
<1>23. ASSUME RTPReaderExit PROVE IInv'
  BY <1>23, Frame DEF RTPReaderExit, setup, resources
<1>24. ASSUME SimulateBye PROVE IInv'
  BY <1>24, EndStep DEF SimulateBye
<1>25. ASSUME RunCallbackDispatcher PROVE IInv'
  BY <1>25, Frame DEF RunCallbackDispatcher, RunCallback, setup, resources,
    pipeline
<1>26. ASSUME RunLoose PROVE IInv'
  BY <1>26, Frame DEF RunLoose, RunCallback, setup, resources, pipeline
<1>27. CASE UNCHANGED vars
  BY <1>27, Frame DEF vars, setup, resources, pipeline
<1> QED
  BY <1>1, <1>2, <1>3, <1>4, <1>5, <1>6, <1>7, <1>8, <1>9, <1>10, <1>11, <1>12,
    <1>13, <1>14, <1>15, <1>16, <1>17, <1>18, <1>19, <1>20, <1>21, <1>22,
    <1>23, <1>24, <1>25, <1>26, <1>27 DEF Next, SetUp, Environment

\* The invariant holds in every reachable state.
THEOREM Invariance == Spec => []IInv
  BY Initially, Step, PTL DEF Spec

\* A call that has ended holds no socket, no session timer and no media
\* goroutine that has not been told to stop (fireOnEnded).
THEOREM EndedHoldsNothing == Spec => []EndedIsClean
<1>1. IInv => EndedIsClean
  BY DEF IInv
<1> QED
  BY Invariance, <1>1, PTL

\* The media goroutine never sends on a closed channel (call.go:1100).
THEOREM SendsOnOpenChannels == Spec => []NoSendOnClosed
<1>1. IInv => NoSendOnClosed
  BY DEF IInv
<1> QED
  BY Invariance, <1>1, PTL
-----------------------------------------------------------------------------
(* The state diagram *)

\* A step that moves a call along the diagram, or leaves it where it is.
LEMMA MoveStep ==
  ASSUME UNCHANGED <<rtp, out>>, state' = state \/ <<state, state'>> \in Service!Moves
  PROVE  [Service!Next]_(Service!vars)
  BY DEF Service!Next, Service!Move, Service!vars

\* The end of a call frees its port; ending it again changes nothing but the
\* output channels.
LEMMA FinishStep ==
  ASSUME IInv, state' = "Ended", rtp' = "nil", out' \in {out, "closed"}
  PROVE  [Service!Next]_(Service!vars)
<1>1. CASE state = "Ended"
  <2>1. rtp = "nil"
    BY <1>1 DEF IInv, HeldUntilEnd
  <2> QED
    BY <1>1, <2>1 DEF Service!Next, Service!CloseOutputs, Service!vars, IInv
<1>2. CASE state # "Ended"
  <2>1. rtp = "open" /\ out = "open" /\ state \in Service!Live
    BY <1>2 DEF IInv, HeldUntilEnd, CallState, Service!Live
  <2> QED
    BY <2>1 DEF Service!Next, Service!Finish
<1> QED
  BY <1>1, <1>2

LEMMA EndRefines ==
  ASSUME IInv, FireOnEnded
  PROVE  [Service!Next]_(Service!vars)
  BY FinishStep DEF FireOnEnded, EndCall

LEMMA HoldRefines ==
  ASSUME NEW from \in InCall, NEW to \in InCall \ {from}, NEW timeout, NEW events,
         SetHold(from, to, timeout, events)
  PROVE  [Service!Next]_(Service!vars)
  BY MoveStep DEF SetHold, resources, InCall, Service!Moves

\* Every step is a step of the diagram or none.
LEMMA Refines == IInv /\ [Next]_vars => [Service!Next]_(Service!vars)
<1> SUFFICES ASSUME IInv, [Next]_vars PROVE [Service!Next]_(Service!vars)
  OBVIOUS
<1>1. ASSUME RegisterCall
      PROVE  [Service!Next]_(Service!vars)
  BY <1>1, MoveStep DEF RegisterCall, resources
<1>2. ASSUME NEW code \in {180, 183, 200}, SimulateResponse(code)
      PROVE  [Service!Next]_(Service!vars)
  BY <1>2, MoveStep DEF SimulateResponse, resources, Service!Moves
<1>3. ASSUME CheckRTP
      PROVE  [Service!Next]_(Service!vars)
  BY <1>3, MoveStep DEF CheckRTP, resources
<1>4. ASSUME StartMedia
      PROVE  [Service!Next]_(Service!vars)
  BY <1>4, MoveStep DEF StartMedia
<1>5. ASSUME StartRTPReader
      PROVE  [Service!Next]_(Service!vars)
  BY <1>5, MoveStep DEF StartRTPReader, resources
<1>6. ASSUME OnMedia
      PROVE  [Service!Next]_(Service!vars)
  BY <1>6, MoveStep DEF OnMedia, resources
<1>7. ASSUME Accept
      PROVE  [Service!Next]_(Service!vars)
  BY <1>7, MoveStep DEF Accept, Service!Moves
<1>8. ASSUME Reject
      PROVE  [Service!Next]_(Service!vars)
  BY <1>8, EndRefines DEF Reject
<1>9. ASSUME End
      PROVE  [Service!Next]_(Service!vars)
  BY <1>9, EndRefines DEF End
<1>10. ASSUME EndWithReason
      PROVE  [Service!Next]_(Service!vars)
  BY <1>10, EndRefines DEF EndWithReason
<1>11. ASSUME SimulateBye
      PROVE  [Service!Next]_(Service!vars)
  BY <1>11, EndRefines DEF SimulateBye
<1>12. ASSUME Hold
      PROVE  [Service!Next]_(Service!vars)
  BY <1>12, HoldRefines DEF Hold, InCall
<1>13. ASSUME Resume
      PROVE  [Service!Next]_(Service!vars)
  BY <1>13, HoldRefines DEF Resume, InCall
<1>14. ASSUME HandleReInvite
      PROVE  [Service!Next]_(Service!vars)
  BY <1>14, HoldRefines DEF HandleReInvite, InCall
<1>15. ASSUME SuspendMediaTimeout
      PROVE  [Service!Next]_(Service!vars)
  BY <1>15, MoveStep DEF SuspendMediaTimeout, resources
<1>16. ASSUME SessionRefresh
      PROVE  [Service!Next]_(Service!vars)
  BY <1>16, MoveStep DEF SessionRefresh
<1>17. ASSUME ReceiveRTP
      PROVE  [Service!Next]_(Service!vars)
  BY <1>17, MoveStep DEF ReceiveRTP, resources
<1>18. ASSUME MediaTimerFires
      PROVE  [Service!Next]_(Service!vars)
  BY <1>18, MoveStep DEF MediaTimerFires, resources
<1>19. ASSUME HandleDialogBye
      PROVE  [Service!Next]_(Service!vars)
  BY <1>19, MoveStep DEF HandleDialogBye, resources
<1>20. ASSUME TakeTimerReset
      PROVE  [Service!Next]_(Service!vars)
  BY <1>20, MoveStep DEF TakeTimerReset, resources
<1>21. ASSUME RTPReaderExit
      PROVE  [Service!Next]_(Service!vars)
  BY <1>21, MoveStep DEF RTPReaderExit, resources
<1>22. ASSUME HandleDialogCancel
      PROVE  [Service!Next]_(Service!vars)
  BY <1>22, EndRefines, MoveStep DEF HandleDialogCancel, resources
<1>23. ASSUME MediaExit
      PROVE  [Service!Next]_(Service!vars)
  <2>1. state = "Ended" /\ rtp = "nil"
    BY <1>23 DEF MediaExit, IInv, HeldUntilEnd
  <2> QED
    BY <1>23, <2>1, FinishStep DEF MediaExit, resources
<1>24. ASSUME MediaTimeout
      PROVE  [Service!Next]_(Service!vars)
  BY <1>24, FinishStep DEF MediaTimeout, EndCall
<1>25. ASSUME RunCallbackDispatcher
      PROVE  [Service!Next]_(Service!vars)
  BY <1>25, MoveStep DEF RunCallbackDispatcher, RunCallback, resources
<1>26. ASSUME RunLoose
      PROVE  [Service!Next]_(Service!vars)
  BY <1>26, MoveStep DEF RunLoose, RunCallback, resources
<1>27. CASE UNCHANGED vars
  BY <1>27, MoveStep DEF vars, resources
<1> QED
  BY <1>1, <1>2, <1>3, <1>4, <1>5, <1>6, <1>7, <1>8, <1>9, <1>10, <1>11, <1>12,
    <1>13, <1>14, <1>15, <1>16, <1>17, <1>18, <1>19, <1>20, <1>21, <1>22,
    <1>23, <1>24, <1>25, <1>26, <1>27 DEF Next, SetUp, Environment

\* A call implements its state diagram (README.md:485): it moves along its
\* edges only, holds its RTP port from its creation until it ends and never
\* again, and closes the output channels after the end.
THEOREM Implementation == Spec => ImplementsCallService
<1>1. Init => Service!Init
  BY DEF Init, Service!Init
<1> QED
  BY <1>1, Refines, Invariance, PTL DEF Spec, ImplementsCallService, Service!Spec

-----------------------------------------------------------------------------
(* Callbacks *)

\* What OnState has shown and what the queue still holds end with the state of
\* the call, as long as no callback was dispatched past the queue.
Reported ==
  \/ /\ seen = state
     /\ \A i \in 1..Len(queue) : queue[i] \notin CallState
  \/ \E i \in 1..Len(queue) :
       /\ queue[i] = state
       /\ \A j \in (i + 1)..Len(queue) : queue[j] \notin CallState

CallbackInv ==
  /\ queue \in Seq(Event)
  /\ ~spilled => Reported /\ \A e \in Effect : loose[e] = 0

\* Events that all fit are appended to the queue.
LEMMA DispatchFits ==
  ASSUME CallbackInv, NEW events \in Seq(Event), events # <<>>, Dispatch(events)
  PROVE  /\ queue' \in Seq(Event)
         /\ ~spilled' => /\ ~spilled /\ queue' = queue \o events
                         /\ \A e \in Effect : loose'[e] = 0
<1> DEFINE room == IF qClosed THEN 0 ELSE QueueCap - Len(queue)
           fit  == IF Len(events) <= room THEN Len(events) ELSE room
           rest == {i \in DOMAIN events : i > fit}
<1>1. /\ queue' = queue \o SubSeq(events, 1, fit)
      /\ loose' = [e \in Effect |->
                     loose[e] + Cardinality({i \in rest : events[i] = e})]
      /\ spilled' = (spilled \/ rest # {})
  BY DEF Dispatch
<1>2. room \in Int /\ fit \in Int /\ fit <= Len(events) /\ Len(events) \in Nat
  BY QueueCapAssumption DEF CallbackInv
<1>3. SubSeq(events, 1, fit) \in Seq(Event)
  BY <1>2
<1>4. queue' \in Seq(Event)
  BY <1>1, <1>3 DEF CallbackInv
<1>5. ASSUME ~spilled'
      PROVE  /\ ~spilled /\ queue' = queue \o events
             /\ \A e \in Effect : loose'[e] = 0
  <2>1. ~spilled /\ rest = {}
    BY <1>1, <1>5, Zenon
  <2>2. fit = Len(events)
    <3>1. Len(events) \in DOMAIN events
      BY <1>2
    <3> QED
      BY <2>1, <3>1, <1>2
  <2>3. SubSeq(events, 1, fit) = events
    BY <2>2
  <2>4. \A e \in Effect : Cardinality({i \in rest : events[i] = e}) = 0
    <3>1. \A e \in Effect : {i \in rest : events[i] = e} = {}
      BY <2>1
    <3> QED
      BY <3>1, FS_EmptySet, Zenon
  <2>5. \A e \in Effect : loose'[e] = 0
    BY <1>1, <2>1, <2>4 DEF CallbackInv
  <2> QED
    BY <1>1, <2>1, <2>3, <2>5, Zenon
<1> QED
  BY <1>4, <1>5

\* Dispatching OnState with the new state, before other callbacks, keeps the
\* report complete.
LEMMA DispatchState ==
  ASSUME CallbackInv, NEW events \in Seq(Event), events # <<>>, Dispatch(events),
         state' = events[1],
         \A j \in 2..Len(events) : events[j] \notin CallState
  PROVE  CallbackInv'
<1>1. queue' \in Seq(Event)
  BY DispatchFits
<1>2. ASSUME ~spilled'
      PROVE  Reported' /\ \A e \in Effect : loose'[e] = 0
  <2>1. queue' = queue \o events /\ \A e \in Effect : loose'[e] = 0
    BY <1>2, DispatchFits
  <2>2. /\ Len(queue) \in Nat /\ Len(events) \in Nat \ {0}
        /\ Len(queue') = Len(queue) + Len(events)
    BY <2>1 DEF CallbackInv
  <2>3. \A k \in 1..Len(events) : queue'[Len(queue) + k] = events[k]
    BY <2>1, <2>2 DEF CallbackInv
  <2>4. queue'[Len(queue) + 1] = state'
    BY <2>2, <2>3
  <2>5. ASSUME NEW j \in (Len(queue) + 2)..Len(queue')
        PROVE  queue'[j] \notin CallState
    <3>1. PICK k \in 2..Len(events) : j = Len(queue) + k
      <4>1. j - Len(queue) \in 2..Len(events) /\ j = Len(queue) + (j - Len(queue))
        BY <2>2
      <4> QED
        BY <4>1
    <3>2. queue'[j] = events[k]
      BY <2>2, <2>3, <3>1
    <3> QED
      BY <3>2
  <2> DEFINE n == Len(queue) + 1
  <2>6. /\ n \in 1..Len(queue') /\ queue'[n] = state'
        /\ \A j \in (n + 1)..Len(queue') : queue'[j] \notin CallState
    <3>1. n + 1 = Len(queue) + 2 /\ n \in 1..Len(queue')
      BY <2>2
    <3> QED
      BY <2>4, <2>5, <3>1
  <2> HIDE DEF n
  <2> QED
    BY <2>1, <2>6 DEF Reported
<1> QED
  BY <1>1, <1>2 DEF CallbackInv

\* So does dispatching a callback that reports no state.
LEMMA DispatchOther ==
  ASSUME CallbackInv, Dispatch(<<"other">>), UNCHANGED <<state, seen>>
  PROVE  CallbackInv'
<1>1. <<"other">> \in Seq(Event) /\ "other" \notin CallState
  BY DEF Event, CallState
<1>2. queue' \in Seq(Event)
  BY <1>1, DispatchFits, Zenon
<1>3. ASSUME ~spilled'
      PROVE  Reported' /\ \A e \in Effect : loose'[e] = 0
  <2>1. /\ queue' = queue \o <<"other">> /\ Reported
        /\ \A e \in Effect : loose'[e] = 0
    BY <1>1, <1>3, DispatchFits, Zenon DEF CallbackInv
  <2>2. /\ Len(queue) \in Nat /\ Len(queue') = Len(queue) + 1
        /\ queue'[Len(queue) + 1] = "other"
        /\ \A i \in 1..Len(queue) : queue'[i] = queue[i]
    BY <2>1 DEF CallbackInv
  <2> QED
    BY <1>1, <2>1, <2>2 DEF Reported
<1> QED
  BY <1>2, <1>3 DEF CallbackInv

\* Running the first callback of the queue.
LEMMA RunNext ==
  ASSUME CallbackInv, state \in CallState, RunCallbackDispatcher
  PROVE  CallbackInv'
<1>1. /\ queue # <<>> /\ queue' = Tail(queue)
      /\ seen' = IF Head(queue) \in CallState THEN Head(queue) ELSE seen
      /\ UNCHANGED <<state, loose, spilled>>
  BY DEF RunCallbackDispatcher, RunCallback
<1>2. /\ queue' \in Seq(Event) /\ Len(queue) \in Nat \ {0}
      /\ Len(queue') = Len(queue) - 1 /\ Head(queue) = queue[1]
      /\ \A i \in 1..Len(queue') : queue'[i] = queue[i + 1]
  BY <1>1 DEF CallbackInv
<1>3. ASSUME Reported PROVE Reported'
  <2>1. CASE seen = state /\ \A i \in 1..Len(queue) : queue[i] \notin CallState
    BY <1>1, <1>2, <2>1 DEF Reported
  <2>2. ASSUME NEW i \in 1..Len(queue), queue[i] = state,
               \A j \in (i + 1)..Len(queue) : queue[j] \notin CallState
        PROVE  Reported'
    <3>1. CASE i = 1
      <4>1. \A k \in 1..Len(queue') : queue'[k] \notin CallState
        BY <1>2, <2>2, <3>1
      <4>2. queue[1] \in CallState => seen' = state'
        BY <1>1, <1>2, <2>2, <3>1
      <4> QED
        BY <2>2, <3>1, <4>1, <4>2 DEF Reported
    <3>2. CASE i # 1
      <4>1. i - 1 \in 1..Len(queue') /\ queue'[i - 1] = state'
        BY <1>1, <1>2, <2>2, <3>2
      <4>2. \A j \in ((i - 1) + 1)..Len(queue') : queue'[j] \notin CallState
        BY <1>2, <2>2, <3>2
      <4> QED
        BY <4>1, <4>2 DEF Reported
    <3> QED
      BY <3>1, <3>2
  <2> QED
    BY <1>3, <2>1, <2>2 DEF Reported
<1> QED
  BY <1>1, <1>2, <1>3 DEF CallbackInv

\* A callback in a goroutine of its own has been dispatched past the queue.
LEMMA RunSpilled ==
  ASSUME CallbackInv, RunLoose
  PROVE  CallbackInv'
<1>1. PICK e \in Effect : loose[e] > 0
  BY DEF RunLoose
<1>2. spilled
  BY <1>1 DEF CallbackInv
<1> QED
  BY <1>2 DEF CallbackInv, RunLoose, RunCallback

LEMMA CallbackFrame ==
  ASSUME CallbackInv, UNCHANGED <<state, seen, queue, loose, spilled>>
  PROVE  CallbackInv'
  BY DEF CallbackInv, Reported

LEMMA EndReported ==
  ASSUME CallbackInv, EndCall
  PROVE  CallbackInv'
<1> DEFINE events == <<"Ended", "cleanup", "other">>
<1>1. /\ events \in Seq(Event) /\ events # <<>> /\ events[1] = "Ended"
      /\ \A j \in 2..Len(events) : events[j] \notin CallState
  BY DEF Event, Effect, CallState
<1>2. Dispatch(events) /\ state' = events[1]
  BY DEF EndCall
<1> HIDE DEF events
<1> QED
  BY <1>1, <1>2, DispatchState

LEMMA OneReported ==
  ASSUME CallbackInv, NEW s \in CallState, state' = s,
         Dispatch(<<s>>) \/ Dispatch(<<s, "other">>)
  PROVE  CallbackInv'
<1>1. CASE Dispatch(<<s>>)
  <2> DEFINE events == <<s>>
  <2>1. /\ events \in Seq(Event) /\ events # <<>> /\ events[1] = s
        /\ \A j \in 2..Len(events) : events[j] \notin CallState
    BY DEF Event, Effect
  <2>2. Dispatch(events)
    BY <1>1
  <2> HIDE DEF events
  <2> QED
    BY <2>1, <2>2, DispatchState
<1>2. CASE Dispatch(<<s, "other">>)
  <2> DEFINE events == <<s, "other">>
  <2>1. /\ events \in Seq(Event) /\ events # <<>> /\ events[1] = s
        /\ \A j \in 2..Len(events) : events[j] \notin CallState
    BY DEF Event, Effect, CallState
  <2>2. Dispatch(events)
    BY <1>2
  <2> HIDE DEF events
  <2> QED
    BY <2>1, <2>2, DispatchState
<1> QED
  BY <1>1, <1>2

\* Every step keeps the report complete.
LEMMA CallbackStep == IInv /\ CallbackInv /\ [Next]_vars => CallbackInv'
<1> SUFFICES ASSUME IInv, CallbackInv, [Next]_vars PROVE CallbackInv'
  OBVIOUS
<1>1. ASSUME RegisterCall PROVE CallbackInv'
  BY <1>1, CallbackFrame DEF RegisterCall, callbacks, view
<1>2. ASSUME NEW code \in {180, 183, 200}, SimulateResponse(code) PROVE CallbackInv'
  <2>1. \/ UNCHANGED <<state, seen, queue, loose, spilled>>
        \/ \E s \in CallState :
             state' = s /\ (Dispatch(<<s>>) \/ Dispatch(<<s, "other">>))
    BY <1>2 DEF SimulateResponse, CallState, view
  <2> QED
    BY <2>1, OneReported, CallbackFrame, Zenon
<1>3. ASSUME CheckRTP PROVE CallbackInv'
  BY <1>3, CallbackFrame DEF CheckRTP, callbacks, view
<1>4. ASSUME StartMedia PROVE CallbackInv'
  BY <1>4, CallbackFrame DEF StartMedia, callbacks, view
<1>5. ASSUME StartRTPReader PROVE CallbackInv'
  BY <1>5, CallbackFrame DEF StartRTPReader, callbacks, view
<1>6. ASSUME OnMedia PROVE CallbackInv'
  BY <1>6, DispatchOther DEF OnMedia, view
<1>7. ASSUME Accept PROVE CallbackInv'
  BY <1>7, OneReported DEF Accept, CallState
<1>8. ASSUME Reject PROVE CallbackInv'
  BY <1>8, EndReported DEF Reject, FireOnEnded
<1>9. ASSUME End PROVE CallbackInv'
  BY <1>9, EndReported DEF End, FireOnEnded
<1>10. ASSUME EndWithReason PROVE CallbackInv'
  BY <1>10, EndReported DEF EndWithReason, FireOnEnded
<1>11. ASSUME SimulateBye PROVE CallbackInv'
  BY <1>11, EndReported DEF SimulateBye, FireOnEnded
<1>12. ASSUME Hold PROVE CallbackInv'
  BY <1>12, OneReported DEF Hold, SetHold, CallState
<1>13. ASSUME Resume PROVE CallbackInv'
  BY <1>13, OneReported DEF Resume, SetHold, CallState
<1>14. ASSUME HandleReInvite PROVE CallbackInv'
  BY <1>14, OneReported DEF HandleReInvite, SetHold, CallState
<1>15. ASSUME SuspendMediaTimeout PROVE CallbackInv'
  BY <1>15, CallbackFrame DEF SuspendMediaTimeout, callbacks, view
<1>16. ASSUME SessionRefresh PROVE CallbackInv'
  BY <1>16, CallbackFrame DEF SessionRefresh, callbacks, view
<1>17. ASSUME ReceiveRTP PROVE CallbackInv'
  BY <1>17, CallbackFrame DEF ReceiveRTP, callbacks, view
<1>18. ASSUME MediaTimerFires PROVE CallbackInv'
  BY <1>18, CallbackFrame DEF MediaTimerFires, callbacks, view
<1>19. ASSUME HandleDialogBye PROVE CallbackInv'
  BY <1>19, CallbackFrame DEF HandleDialogBye, callbacks, view
<1>20. ASSUME TakeTimerReset PROVE CallbackInv'
  BY <1>20, CallbackFrame DEF TakeTimerReset, callbacks, view
<1>21. ASSUME MediaExit PROVE CallbackInv'
  BY <1>21, CallbackFrame DEF MediaExit, callbacks, view
<1>22. ASSUME RTPReaderExit PROVE CallbackInv'
  BY <1>22, CallbackFrame DEF RTPReaderExit, callbacks, view
<1>23. ASSUME HandleDialogCancel PROVE CallbackInv'
  BY <1>23, EndReported, CallbackFrame DEF HandleDialogCancel, FireOnEnded,
    callbacks, view
<1>24. ASSUME MediaTimeout PROVE CallbackInv'
  BY <1>24, EndReported DEF MediaTimeout
<1>25. ASSUME RunCallbackDispatcher PROVE CallbackInv'
  BY <1>25, RunNext DEF IInv
<1>26. ASSUME RunLoose PROVE CallbackInv'
  BY <1>26, RunSpilled
<1>27. CASE UNCHANGED vars
  BY <1>27, CallbackFrame DEF vars, callbacks, view
<1> QED
  BY <1>1, <1>2, <1>3, <1>4, <1>5, <1>6, <1>7, <1>8, <1>9, <1>10, <1>11, <1>12,
    <1>13, <1>14, <1>15, <1>16, <1>17, <1>18, <1>19, <1>20, <1>21, <1>22,
    <1>23, <1>24, <1>25, <1>26, <1>27 DEF Next, SetUp, Environment

\* The last state OnState reports is the state of the call, unless a callback
\* was dispatched past the queue (dispatch, call.go:997).
THEOREM ReportsConverge == Spec => []CallbacksConverge
<1>1. Init => CallbackInv
  BY DEF Init, CallbackInv, Reported
<1>2. CallbackInv => CallbacksConverge
  BY DEF CallbackInv, Reported, CallbacksConverge
<1> QED
  BY <1>1, <1>2, CallbackStep, Invariance, PTL DEF Spec
=============================================================================
