--------------------------- MODULE PhoneRefinement ---------------------------
(***************************************************************************)
(* Proof that PhoneLifecycle implements PhoneService, and that superseded  *)
(* attempts leave the phone alone.                                         *)
(***************************************************************************)
EXTENDS PhoneProofs

\* Where the line is, in a reachable state.
LineFacts ==
  /\ state = "Disconnected" => Line = 0
  /\ state \in Ready => Line = tr /\ tr # 0
  /\ \A t \in Threads : myGen[t] = gen =>
       /\ pc[t] \in Setup => Line = 0
       /\ pc[t] \in Registration => Line = tr /\ tr # 0
  /\ Line \notin closed

\* The invariant determines the line.
LEMMA LineLemma == IInv => LineFacts
<1> SUFFICES ASSUME IInv PROVE LineFacts
  OBVIOUS
<1>1. state = "Disconnected" => Line = 0
  BY DEF Line
<1>2. ASSUME state \in Ready PROVE Line = tr /\ tr # 0
  <2>1. \A t \in Threads : pc[t] \in Setup => myGen[t] # gen
    BY <1>2, OpOfStep DEF IInv, Owner, Ready, Attempts
  <2>2. state # "Disconnected" /\ tr # 0
    BY <1>2 DEF Ready, IInv, ReadyAttached
  <2> QED
    BY <2>1, <2>2 DEF Line
<1>3. ASSUME NEW t \in Threads, myGen[t] = gen, pc[t] \in Setup PROVE Line = 0
  BY <1>3 DEF Line
<1>4. ASSUME NEW t \in Threads, myGen[t] = gen, pc[t] \in Registration
      PROVE  Line = tr /\ tr # 0
  <2>1. op[t] \in Attempts
    BY <1>4, OpOfStep DEF IInv, Attempts
  <2>2. state = "Registering" /\ tr # 0
    BY <1>4, <2>1 DEF IInv, Owner, Attached
  <2>3. \A s \in Threads : s # t /\ op[s] \in Attempts => myGen[s] # gen
    BY <1>4, <2>1, OwnerUnique DEF IInv
  <2>4. pc[t] \notin Setup
    BY <1>4 DEF Setup, Registration
  <2>5. \A s \in Threads : pc[s] \in Setup => myGen[s] # gen
    BY <2>3, <2>4, OpOfStep DEF IInv
  <2> QED
    BY <2>2, <2>5 DEF Line
<1>5. Line \notin closed
  <2>1. 0 \notin closed
    BY DEF IInv, Transports
  <2>2. tr \notin closed
    BY <2>1 DEF IInv, Transports, Open
  <2> QED
    BY <2>1, <2>2 DEF Line
<1> QED
  BY <1>1, <1>2, <1>3, <1>4, <1>5 DEF LineFacts

\* The line stays as it is in a step that neither changes the state, the
\* generation or the transport, nor takes the current attempt out of its setup.
LEMMA QuietStep ==
  ASSUME UNCHANGED <<state, gen, tr>>, closed \subseteq closed', LineFacts',
         \A s \in Threads : pc'[s] \in Setup /\ myGen'[s] = gen
                              <=> pc[s] \in Setup /\ myGen[s] = gen
  PROVE  Abstract!Next
<1>1. Line' = Line
  BY DEF Line
<1> QED
  BY <1>1 DEF Abstract!Next, Abstract!RetireOther, Abstract!Retire, LineFacts

\* Every step of the phone is a step of the service its user sees, or leaves
\* what the user sees unchanged.
LEMMA ServiceStep ==
  ASSUME IInv, [Next]_vars PROVE [Abstract!Next]_<<state, Line, closed>>
<1>0. /\ pc \in [Threads -> PC] /\ op \in [Threads -> AllOps \cup {"none"}]
      /\ myGen \in [Threads -> Nat] /\ myTr \in [Threads -> Nat] /\ gen \in Nat
  BY DEF IInv, TypeOK
<1>a. LineFacts /\ LineFacts'
  BY IInvStep, LineLemma, PTL
<1>b. \A t \in Threads : myGen[t] = gen /\ pc[t] \in Setup =>
        state = IF op[t] = "Prepare" THEN "Disconnected" ELSE "Registering"
  BY OpOfStep DEF IInv, Owner
<1>c. \A t \in Threads : op[t] \in Attempts => myGen[t] <= gen
  BY DEF IInv, Generations
<1> USE <1>0, <1>a DEF phone, conns, regs, locals
<1>1. ASSUME NEW t \in Threads, PrepareBegin(t) PROVE Abstract!Next
  <2>1. Line = 0 /\ Line' = 0
    BY <1>1 DEF PrepareBegin, LineFacts
  <2> QED
    BY <1>1, <2>1 DEF PrepareBegin, LineFacts, Abstract!Next,
       Abstract!RetireOther, Abstract!Retire
<1>2. ASSUME NEW t \in Threads, ConnectBegin(t) PROVE Abstract!Next
  <2>1. pc'[t] = "stun" /\ myGen'[t] = gen'
    BY <1>2 DEF ConnectBegin, SetupBegin, Calls, Begin, Goto, Frame
  <2>2. Line' = 0
    BY <2>1 DEF LineFacts, Setup
  <2> QED
    BY <1>2, <2>2 DEF ConnectBegin, SetupBegin, LineFacts,
       Abstract!Next, Abstract!SetupBegins, Abstract!Retire
<1>3. ASSUME NEW t \in Threads, RegisterBegin(t) PROVE Abstract!Next
  <2>1. pc'[t] = "stun" /\ myGen'[t] = gen'
    BY <1>3 DEF RegisterBegin, SetupBegin, Calls, Begin, Goto, Frame
  <2>2. Line' = 0
    BY <2>1 DEF LineFacts, Setup
  <2> QED
    BY <1>3, <2>2 DEF RegisterBegin, SetupBegin, LineFacts,
       Abstract!Next, Abstract!SetupBegins, Abstract!Retire
<1>4. ASSUME NEW t \in Threads, RegisterAgain(t) PROVE Abstract!Next
  <2>1. pc'[t] = "regStart" /\ myGen'[t] = gen'
    BY <1>4 DEF RegisterAgain, Calls, Begin, Goto, Frame
  <2>2. Line' = tr' /\ Line = tr
    BY <1>4, <2>1 DEF RegisterAgain, LineFacts, Registration, Ready
  <2> QED
    BY <1>4, <2>2 DEF RegisterAgain, LineFacts,
       Abstract!Next, Abstract!RegisterBegins, Abstract!Retire
<1>5. ASSUME NEW t \in Threads, UnregisterBegin(t) PROVE Abstract!Next
  BY <1>5 DEF UnregisterBegin, LineFacts, Ready,
     Abstract!Next, Abstract!UnregisterBegins, Abstract!Retire
<1>6. ASSUME NEW t \in Threads, DisconnectBegin(t) PROVE Abstract!Next
  BY <1>6 DEF DisconnectBegin, LineFacts, Ready,
     Abstract!Next, Abstract!Down, Abstract!Retire
<1>7. ASSUME NEW t \in Threads, DisconnectPrepare(t) PROVE Abstract!Next
  BY <1>7 DEF DisconnectPrepare, LineFacts, Ready,
     Abstract!Next, Abstract!RetireOther, Abstract!Retire
<1>8. ASSUME NEW t \in Threads, PostStun(t) PROVE Abstract!Next
  BY <1>8, QuietStep DEF PostStun, Goto, Setup
<1>9. ASSUME NEW t \in Threads, BuildOK(t) PROVE Abstract!Next
  BY <1>9, QuietStep DEF BuildOK, Goto, Setup
<1>10. ASSUME NEW t \in Threads, BuildFails(t) PROVE Abstract!Next
  BY <1>10, QuietStep DEF BuildFails, Goto, Setup
<1>11. ASSUME NEW t \in Threads, Attach(t) PROVE Abstract!Next
  <2>1. CASE op[t] = "Prepare"
    <3>1. state = "Disconnected"
      BY <1>11, <2>1, <1>b DEF Attach, StillValid, Setup
    <3> QED
      BY <1>11, <3>1 DEF Attach, LineFacts,
         Abstract!Next, Abstract!RetireOther, Abstract!Retire
  <2>2. CASE op[t] # "Prepare"
    <3>1. pc'[t] = "regStart" /\ UNCHANGED <<gen, myGen>> /\ myGen[t] = gen
      BY <1>11, <2>2 DEF Attach, StillValid, Goto
    <3>2. Line = 0 /\ Line' # 0
      BY <1>11, <3>1 DEF Attach, LineFacts, Setup, Registration
    <3> QED
      BY <1>11, <2>2, <3>2 DEF Attach, StillValid, LineFacts,
         Abstract!Next, Abstract!LineUp, Abstract!Retire
  <2> QED
    BY <2>1, <2>2
<1>12. ASSUME NEW t \in Threads, AttachStale(t) PROVE Abstract!Next
  BY <1>12, QuietStep DEF AttachStale, Goto, Setup
<1>13. ASSUME NEW t \in Threads, RegStart(t) PROVE Abstract!Next
  BY <1>13, QuietStep DEF RegStart, Goto, Setup
<1>14. ASSUME NEW t \in Threads, RegStartStale(t) PROVE Abstract!Next
  BY <1>14, QuietStep DEF RegStartStale, Return, Goto, Frame, Setup
<1>15. ASSUME NEW t \in Threads, RegBegin(t) PROVE Abstract!Next
  BY <1>15, QuietStep DEF RegBegin, Goto, Setup
<1>16. ASSUME NEW t \in Threads, RegOK(t) PROVE Abstract!Next
  BY <1>16, QuietStep DEF RegOK, Goto, Setup
<1>17. ASSUME NEW t \in Threads, RegFails(t) PROVE Abstract!Next
  BY <1>17, QuietStep DEF RegFails, Goto, Setup
<1>18. ASSUME NEW t \in Threads, RegStale(t) PROVE Abstract!Next
  <2>1. pc[t] \notin Setup /\ pc'[t] \notin Setup
    BY <1>18 DEF RegStale, RegReturn, Return, Goto, Setup
  <2>2. \A s \in Threads : s # t => pc'[s] = pc[s] /\ myGen'[s] = myGen[s]
    BY <1>18 DEF RegStale, RegReturn, Return, Goto, Frame
  <2> QED
    BY <1>18, <2>1, <2>2, QuietStep DEF RegStale
<1>19. ASSUME NEW t \in Threads, RegPublish(t) PROVE Abstract!Next
  <2>1. Line = tr /\ tr # 0
    BY <1>19 DEF RegPublish, LineFacts, Registration
  <2> QED
    BY <1>19, <2>1 DEF RegPublish, LineFacts, Ready,
       Abstract!Next, Abstract!RegisterEnds, Abstract!Retire
<1>20. ASSUME NEW t \in Threads, RegPublishFailed(t) PROVE Abstract!Next
  <2>1. Line = tr /\ tr # 0
    BY <1>20 DEF RegPublishFailed, LineFacts, Registration
  <2> QED
    BY <1>20, <2>1 DEF RegPublishFailed, LineFacts, Ready,
       Abstract!Next, Abstract!RegisterEnds, Abstract!Retire
<1>21. ASSUME NEW t \in Threads, MWIStart(t) PROVE Abstract!Next
  BY <1>21, QuietStep DEF MWIStart, ServiceStart, Goto, Setup
<1>22. ASSUME NEW t \in Threads, MWIStore(t) PROVE Abstract!Next
  BY <1>22, QuietStep DEF MWIStore, Goto, Setup
<1>23. ASSUME NEW t \in Threads, SubStart(t) PROVE Abstract!Next
  BY <1>23, QuietStep DEF SubStart, ServiceStart, Goto, Setup
<1>24. ASSUME NEW t \in Threads, SubStore(t) PROVE Abstract!Next
  BY <1>24, QuietStep DEF SubStore, Return, Goto, Frame, Setup
<1>25. ASSUME NEW t \in Threads, PrepareSuperseded(t) PROVE Abstract!Next
  BY <1>25, QuietStep DEF PrepareSuperseded, Return, Goto, Frame, Setup
<1>26. ASSUME NEW t \in Threads, PreparePublish(t) PROVE Abstract!Next
  <2>1. state = "Disconnected"
    BY <1>26, OpOfStep DEF PreparePublish, IInv, Owner, Attempts
  <2> QED
    BY <1>26, <2>1 DEF PreparePublish, LineFacts, Ready,
       Abstract!Next, Abstract!PrepareDone, Abstract!Retire
<1>27. ASSUME NEW t \in Threads, PrepareFails(t) PROVE Abstract!Next
  <2>1. state = "Disconnected"
    BY <1>27, <1>b DEF PrepareFails, Setup
  <2> QED
    BY <1>27, <2>1 DEF PrepareFails, LineFacts,
       Abstract!Next, Abstract!RetireOther, Abstract!Retire
<1>28. ASSUME NEW t \in Threads, TeardownAfterPrepareError(t) PROVE Abstract!Next
  <2>1. CASE gen = myGen[t]
    <3>1. state = "Registering"
      BY <1>28, <2>1, <1>b DEF TeardownAfterPrepareError, Setup
    <3> QED
      BY <1>28, <2>1, <3>1 DEF TeardownAfterPrepareError, LineFacts,
         Abstract!Next, Abstract!Down, Abstract!Retire
  <2>2. CASE gen # myGen[t]
    <3>1. pc'[t] \notin Setup
      BY <1>28 DEF TeardownAfterPrepareError, Return, Goto, Setup
    <3>2. \A s \in Threads : s # t => pc'[s] = pc[s] /\ myGen'[s] = myGen[s]
      BY <1>28 DEF TeardownAfterPrepareError, Return, Goto, Frame
    <3> QED
      BY <1>28, <2>2, <3>1, <3>2, QuietStep DEF TeardownAfterPrepareError
  <2> QED
    BY <2>1, <2>2
<1>29. ASSUME NEW t \in Threads, ConnTeardown(t) PROVE Abstract!Next
  <2>1. state \in Ready
    BY <1>29, OpOfStep DEF ConnTeardown, IInv, Owner, Attempts
  <2> QED
    BY <1>29, <2>1 DEF ConnTeardown, LineFacts, Ready,
       Abstract!Next, Abstract!Down, Abstract!Retire
<1>30. ASSUME NEW t \in Threads, ConnTeardownStale(t) PROVE Abstract!Next
  BY <1>30, QuietStep DEF ConnTeardownStale, Return, Goto, Frame, Setup
<1>31. ASSUME NEW t \in Threads, CloseTransport(t) PROVE Abstract!Next
  BY <1>31, QuietStep DEF CloseTransport, Return, Goto, Frame, Setup
<1>32. ASSUME NEW t \in Threads, StopServices(t) PROVE Abstract!Next
  BY <1>32, QuietStep DEF StopServices, Goto, Setup
<1>33. ASSUME NEW t \in Threads, UnregisterCtx(t) PROVE Abstract!Next
  BY <1>33, QuietStep DEF UnregisterCtx, Goto, Setup
<1>34. ASSUME NEW t \in Threads, RegistryStop(t) PROVE Abstract!Next
  BY <1>34, QuietStep DEF RegistryStop, Goto, Setup
<1>35. ASSUME NEW t \in Threads, UnregisterPublish(t) PROVE Abstract!Next
  <2>1. CASE state = "Unregistering"
    BY <1>35, <2>1 DEF UnregisterPublish, LineFacts, Ready,
       Abstract!Next, Abstract!UnregisterEnds, Abstract!Retire
  <2>2. CASE state # "Unregistering"
    <3>1. pc[t] \notin Setup /\ pc'[t] \notin Setup
      BY <1>35 DEF UnregisterPublish, Return, Goto, Setup
    <3>2. \A s \in Threads : s # t => pc'[s] = pc[s] /\ myGen'[s] = myGen[s]
      BY <1>35 DEF UnregisterPublish, Return, Goto, Frame
    <3> QED
      BY <1>35, <2>2, <3>1, <3>2, QuietStep DEF UnregisterPublish
  <2> QED
    BY <2>1, <2>2
<1>36. ASSUME NEW t \in Threads, CancelCtx(t) PROVE Abstract!Next
  BY <1>36, QuietStep DEF CancelCtx, Setup
<1>37. ASSUME NEW t \in Threads, RegistrarAccepts(t) PROVE Abstract!Next
  BY <1>37, QuietStep DEF RegistrarAccepts, Goto, Setup
<1>38. CASE UNCHANGED vars
  BY <1>38 DEF vars, Line
<1> QED
  BY <1>1, <1>2, <1>3, <1>4, <1>5, <1>6, <1>7, <1>8, <1>9, <1>10, <1>11,
     <1>12, <1>13, <1>14, <1>15, <1>16, <1>17, <1>18, <1>19, <1>20, <1>21,
     <1>22, <1>23, <1>24, <1>25, <1>26, <1>27, <1>28, <1>29, <1>30, <1>31,
     <1>32, <1>33, <1>34, <1>35, <1>36, <1>37, <1>38, Zenon
     DEF Next, Enter, Step, PrepareTransport, RunRegistration

\* However many goroutines call it, the phone shows its user the state machine
\* of PhoneService: one transport from the moment it is up until the phone is
\* Disconnected, never closed meanwhile and never reused.
THEOREM Implementation == Spec => ImplementsService
<1>1. Init => Abstract!Init
  BY DEF Init, Abstract!Init, Line
<1>2. IInv /\ [Next]_vars => [Abstract!Next]_<<state, Line, closed>>
  BY ServiceStep
<1> QED
  BY <1>1, <1>2, Invariance, PTL DEF Spec, ImplementsService, Abstract!Spec

\* A step of an attempt whose generation is gone changes no field of the phone.
LEMMA StaleStep ==
  ASSUME IInv, [Next]_vars,
         NEW s \in Threads, op[s] \in Attempts, myGen[s] # gen, pc'[s] # pc[s]
  PROVE  UNCHANGED phone
<1>0. pc \in [Threads -> PC]
  BY DEF IInv, TypeOK
<1>a. pc[s] # "idle" /\ pc[s] # "unPublish"
  BY DEF IInv, Shape, Attempts, Unreg, Setup, Registration, Services
<1> USE <1>0, <1>a
<1>1. ASSUME NEW t \in Threads, PrepareBegin(t) PROVE UNCHANGED phone
  BY <1>1 DEF PrepareBegin, Calls, Begin, Goto
<1>2. ASSUME NEW t \in Threads, ConnectBegin(t) PROVE UNCHANGED phone
  BY <1>2 DEF ConnectBegin, SetupBegin, Calls, Begin, Goto
<1>3. ASSUME NEW t \in Threads, RegisterBegin(t) PROVE UNCHANGED phone
  BY <1>3 DEF RegisterBegin, SetupBegin, Calls, Begin, Goto
<1>4. ASSUME NEW t \in Threads, RegisterAgain(t) PROVE UNCHANGED phone
  BY <1>4 DEF RegisterAgain, Calls, Begin, Goto
<1>5. ASSUME NEW t \in Threads, UnregisterBegin(t) PROVE UNCHANGED phone
  BY <1>5 DEF UnregisterBegin, Calls, Goto
<1>6. ASSUME NEW t \in Threads, DisconnectBegin(t) PROVE UNCHANGED phone
  BY <1>6 DEF DisconnectBegin, Calls, Goto
<1>7. ASSUME NEW t \in Threads, DisconnectPrepare(t) PROVE UNCHANGED phone
  BY <1>7 DEF DisconnectPrepare, Calls, Goto
<1>8. ASSUME NEW t \in Threads, PostStun(t) PROVE UNCHANGED phone
  BY <1>8 DEF PostStun, Goto
<1>9. ASSUME NEW t \in Threads, BuildOK(t) PROVE UNCHANGED phone
  BY <1>9 DEF BuildOK, Goto
<1>10. ASSUME NEW t \in Threads, BuildFails(t) PROVE UNCHANGED phone
  BY <1>10 DEF BuildFails, Goto
<1>11. ASSUME NEW t \in Threads, Attach(t) PROVE UNCHANGED phone
  BY <1>11 DEF Attach, Goto, StillValid
<1>12. ASSUME NEW t \in Threads, AttachStale(t) PROVE UNCHANGED phone
  BY <1>12 DEF AttachStale, Goto
<1>13. ASSUME NEW t \in Threads, RegStart(t) PROVE UNCHANGED phone
  BY <1>13 DEF RegStart, Goto
<1>14. ASSUME NEW t \in Threads, RegStartStale(t) PROVE UNCHANGED phone
  BY <1>14 DEF RegStartStale, Return, Goto
<1>15. ASSUME NEW t \in Threads, RegBegin(t) PROVE UNCHANGED phone
  BY <1>15 DEF RegBegin, Goto
<1>16. ASSUME NEW t \in Threads, RegOK(t) PROVE UNCHANGED phone
  BY <1>16 DEF RegOK, Goto
<1>17. ASSUME NEW t \in Threads, RegFails(t) PROVE UNCHANGED phone
  BY <1>17 DEF RegFails, Goto
<1>18. ASSUME NEW t \in Threads, RegStale(t) PROVE UNCHANGED phone
  BY <1>18 DEF RegStale, RegReturn, Return, Goto
<1>19. ASSUME NEW t \in Threads, RegPublish(t) PROVE UNCHANGED phone
  BY <1>19 DEF RegPublish, Goto
<1>20. ASSUME NEW t \in Threads, RegPublishFailed(t) PROVE UNCHANGED phone
  BY <1>20 DEF RegPublishFailed, RegReturn, Return, Goto
<1>21. ASSUME NEW t \in Threads, MWIStart(t) PROVE UNCHANGED phone
  BY <1>21 DEF MWIStart, ServiceStart, Goto
<1>22. ASSUME NEW t \in Threads, MWIStore(t) PROVE UNCHANGED phone
  BY <1>22 DEF MWIStore, Goto, ServiceWanted, phone
<1>23. ASSUME NEW t \in Threads, SubStart(t) PROVE UNCHANGED phone
  BY <1>23 DEF SubStart, ServiceStart, Goto
<1>24. ASSUME NEW t \in Threads, SubStore(t) PROVE UNCHANGED phone
  BY <1>24 DEF SubStore, Return, Goto, ServiceWanted, phone
<1>25. ASSUME NEW t \in Threads, PrepareSuperseded(t) PROVE UNCHANGED phone
  BY <1>25 DEF PrepareSuperseded, Return, Goto
<1>26. ASSUME NEW t \in Threads, PreparePublish(t) PROVE UNCHANGED phone
  BY <1>26 DEF PreparePublish, Return, Goto
<1>27. ASSUME NEW t \in Threads, PrepareFails(t) PROVE UNCHANGED phone
  BY <1>27 DEF PrepareFails, Return, Goto
<1>28. ASSUME NEW t \in Threads, TeardownAfterPrepareError(t) PROVE UNCHANGED phone
  BY <1>28 DEF TeardownAfterPrepareError, Return, Goto, phone
<1>29. ASSUME NEW t \in Threads, ConnTeardown(t) PROVE UNCHANGED phone
  BY <1>29 DEF ConnTeardown, Goto
<1>30. ASSUME NEW t \in Threads, ConnTeardownStale(t) PROVE UNCHANGED phone
  BY <1>30 DEF ConnTeardownStale, Return, Goto
<1>31. ASSUME NEW t \in Threads, CloseTransport(t) PROVE UNCHANGED phone
  BY <1>31 DEF CloseTransport, Return, Goto
<1>32. ASSUME NEW t \in Threads, StopServices(t) PROVE UNCHANGED phone
  BY <1>32 DEF StopServices, Goto
<1>33. ASSUME NEW t \in Threads, UnregisterCtx(t) PROVE UNCHANGED phone
  BY <1>33 DEF UnregisterCtx, Goto
<1>34. ASSUME NEW t \in Threads, RegistryStop(t) PROVE UNCHANGED phone
  BY <1>34 DEF RegistryStop, Goto
<1>35. ASSUME NEW t \in Threads, UnregisterPublish(t) PROVE UNCHANGED phone
  BY <1>35 DEF UnregisterPublish, Return, Goto
<1>36. ASSUME NEW t \in Threads, CancelCtx(t) PROVE UNCHANGED phone
  BY <1>36 DEF CancelCtx
<1>37. ASSUME NEW t \in Threads, RegistrarAccepts(t) PROVE UNCHANGED phone
  BY <1>37 DEF RegistrarAccepts, Goto
<1>38. CASE UNCHANGED vars
  BY <1>38 DEF vars
<1> QED
  BY <1>1, <1>2, <1>3, <1>4, <1>5, <1>6, <1>7, <1>8, <1>9, <1>10, <1>11,
     <1>12, <1>13, <1>14, <1>15, <1>16, <1>17, <1>18, <1>19, <1>20, <1>21,
     <1>22, <1>23, <1>24, <1>25, <1>26, <1>27, <1>28, <1>29, <1>30, <1>31,
     <1>32, <1>33, <1>34, <1>35, <1>36, <1>37, <1>38, Zenon
     DEF Next, Enter, Step, PrepareTransport, RunRegistration

\* A superseded Prepare, Register or Connect touches nothing.
THEOREM StaleIsHarmless == Spec => StaleTouchesNothing
<1>1. IInv /\ [Next]_vars =>
        [\A t \in Threads :
           /\ op[t] \in {"Prepare", "Register", "Connect"}
           /\ myGen[t] # gen
           /\ pc'[t] # pc[t]
           => UNCHANGED phone]_vars
  BY StaleStep DEF Attempts
<1> QED
  BY <1>1, Invariance, PTL DEF Spec, StaleTouchesNothing

=============================================================================
