---------------------------- MODULE PhoneServices ----------------------------
(***************************************************************************)
(* Proof that no MWI subscriber and no subscription manager outlives the   *)
(* registration that started it with nobody to stop it.                    *)
(***************************************************************************)
EXTENDS PhoneProofs

\* A call holds the services it started until it stores or stops them.
LEMMA ServiceShapeStep ==
  ASSUME IInv, ServiceShape, [Next]_vars PROVE ServiceShape'
<1>0. /\ pc \in [Threads -> PC] /\ op \in [Threads -> AllOps \cup {"none"}]
      /\ myGen \in [Threads -> Nat] /\ myReg \in [Threads -> Registry]
      /\ mySvc \in [Threads -> SUBSET Service] /\ gen \in Nat
  BY DEF IInv, TypeOK
<1>a. /\ \A s \in Threads : pc[s] \in Registration \cup Services => op[s] \in Attempts
      /\ \A s \in Threads : op[s] \in Attempts => myGen[s] # gen + 1
  BY OpOfStep DEF IInv, TypeOK, Generations, Attempts
<1> USE <1>0, <1>a DEF ServiceShape, NewService, Registration, Services, phone,
   conns, regs, locals
<1>1. ASSUME NEW t \in Threads, PrepareBegin(t) PROVE ServiceShape'
  BY <1>1 DEF PrepareBegin, Calls, Begin, Goto, Frame
<1>2. ASSUME NEW t \in Threads, ConnectBegin(t) PROVE ServiceShape'
  BY <1>2 DEF ConnectBegin, SetupBegin, Calls, Begin, Goto, Frame
<1>3. ASSUME NEW t \in Threads, RegisterBegin(t) PROVE ServiceShape'
  BY <1>3 DEF RegisterBegin, SetupBegin, Calls, Begin, Goto, Frame
<1>4. ASSUME NEW t \in Threads, RegisterAgain(t) PROVE ServiceShape'
  BY <1>4 DEF RegisterAgain, Calls, Begin, Goto, Frame
<1>5. ASSUME NEW t \in Threads, UnregisterBegin(t) PROVE ServiceShape'
  BY <1>5 DEF UnregisterBegin, Calls, Goto, Frame
<1>6. ASSUME NEW t \in Threads, DisconnectBegin(t) PROVE ServiceShape'
  BY <1>6 DEF DisconnectBegin, Calls, Goto, Frame
<1>7. ASSUME NEW t \in Threads, DisconnectPrepare(t) PROVE ServiceShape'
  BY <1>7 DEF DisconnectPrepare, Calls, Goto, Frame
<1>8. ASSUME NEW t \in Threads, PostStun(t) PROVE ServiceShape'
  BY <1>8 DEF PostStun, Goto
<1>9. ASSUME NEW t \in Threads, BuildOK(t) PROVE ServiceShape'
  BY <1>9 DEF BuildOK, Goto
<1>10. ASSUME NEW t \in Threads, BuildFails(t) PROVE ServiceShape'
  BY <1>10 DEF BuildFails, Goto
<1>11. ASSUME NEW t \in Threads, Attach(t) PROVE ServiceShape'
  <2>1. \A s \in Threads : s # t /\ op[s] \in Attempts /\ gen = myGen[t] => myGen[s] # gen
    BY <1>11, OwnerUnique, OpOfStep DEF IInv, Attempts, Attach,
       Registration, Services, Setup
  <2> QED
    BY <1>11, <2>1 DEF Attach, Goto, StillValid
<1>12. ASSUME NEW t \in Threads, AttachStale(t) PROVE ServiceShape'
  BY <1>12 DEF AttachStale, Goto
<1>13. ASSUME NEW t \in Threads, RegStart(t) PROVE ServiceShape'
  <2>1. reg.tr = tr
    BY <1>13, <1>a DEF RegStart, IInv, Owner, Attached
  <2> QED
    BY <1>13, <2>1 DEF RegStart, Goto
<1>14. ASSUME NEW t \in Threads, RegStartStale(t) PROVE ServiceShape'
  BY <1>14 DEF RegStartStale, Return, Goto, Frame
<1>15. ASSUME NEW t \in Threads, RegBegin(t) PROVE ServiceShape'
  BY <1>15 DEF RegBegin, Goto
<1>16. ASSUME NEW t \in Threads, RegOK(t) PROVE ServiceShape'
  BY <1>16 DEF RegOK, Goto
<1>17. ASSUME NEW t \in Threads, RegFails(t) PROVE ServiceShape'
  BY <1>17 DEF RegFails, Goto
<1>18. ASSUME NEW t \in Threads, RegStale(t) PROVE ServiceShape'
  BY <1>18 DEF RegStale, RegReturn, Return, Goto, Frame
<1>19. ASSUME NEW t \in Threads, RegPublish(t) PROVE ServiceShape'
  BY <1>19 DEF RegPublish, Goto
<1>20. ASSUME NEW t \in Threads, RegPublishFailed(t) PROVE ServiceShape'
  BY <1>20 DEF RegPublishFailed, RegReturn, Return, Goto, Frame
<1>21. ASSUME NEW t \in Threads, MWIStart(t) PROVE ServiceShape'
  BY <1>21 DEF MWIStart, ServiceStart, Goto
<1>22. ASSUME NEW t \in Threads, MWIStore(t) PROVE ServiceShape'
  BY <1>22 DEF MWIStore, Goto
<1>23. ASSUME NEW t \in Threads, SubStart(t) PROVE ServiceShape'
  BY <1>23 DEF SubStart, ServiceStart, Goto
<1>24. ASSUME NEW t \in Threads, SubStore(t) PROVE ServiceShape'
  BY <1>24 DEF SubStore, Return, Goto, Frame
<1>25. ASSUME NEW t \in Threads, PrepareSuperseded(t) PROVE ServiceShape'
  BY <1>25 DEF PrepareSuperseded, Return, Goto, Frame
<1>26. ASSUME NEW t \in Threads, PreparePublish(t) PROVE ServiceShape'
  BY <1>26 DEF PreparePublish, Return, Goto, Frame
<1>27. ASSUME NEW t \in Threads, PrepareFails(t) PROVE ServiceShape'
  <2>1. \A s \in Threads : s # t /\ op[s] \in Attempts /\ gen = myGen[t] => myGen[s] # gen
    BY <1>27, OwnerUnique, OpOfStep DEF IInv, Attempts, PrepareFails,
       Registration, Services, Setup
  <2> QED
    BY <1>27, <2>1 DEF PrepareFails, Return, Goto, Frame
<1>28. ASSUME NEW t \in Threads, TeardownAfterPrepareError(t) PROVE ServiceShape'
  <2>1. \A s \in Threads : s # t /\ op[s] \in Attempts /\ gen = myGen[t] => myGen[s] # gen
    BY <1>28, OwnerUnique, OpOfStep DEF IInv, Attempts,
       TeardownAfterPrepareError, Registration, Services, Setup
  <2> QED
    BY <1>28, <2>1 DEF TeardownAfterPrepareError, Return, Goto, Frame
<1>29. ASSUME NEW t \in Threads, ConnTeardown(t) PROVE ServiceShape'
  <2>1. \A s \in Threads : s # t /\ op[s] \in Attempts /\ gen = myGen[t] => myGen[s] # gen
    BY <1>29, OwnerUnique, OpOfStep DEF IInv, Attempts, ConnTeardown,
       Registration, Services, Setup
  <2> QED
    BY <1>29, <2>1 DEF ConnTeardown, Goto
<1>30. ASSUME NEW t \in Threads, ConnTeardownStale(t) PROVE ServiceShape'
  BY <1>30 DEF ConnTeardownStale, Return, Goto, Frame
<1>31. ASSUME NEW t \in Threads, CloseTransport(t) PROVE ServiceShape'
  BY <1>31 DEF CloseTransport, Return, Goto, Frame
<1>32. ASSUME NEW t \in Threads, StopServices(t) PROVE ServiceShape'
  BY <1>32 DEF StopServices, Goto
<1>33. ASSUME NEW t \in Threads, UnregisterCtx(t) PROVE ServiceShape'
  BY <1>33 DEF UnregisterCtx, Goto
<1>34. ASSUME NEW t \in Threads, RegistryStop(t) PROVE ServiceShape'
  BY <1>34 DEF RegistryStop, Goto
<1>35. ASSUME NEW t \in Threads, UnregisterPublish(t) PROVE ServiceShape'
  BY <1>35 DEF UnregisterPublish, Return, Goto, Frame
<1>36. ASSUME NEW t \in Threads, CancelCtx(t) PROVE ServiceShape'
  BY <1>36 DEF CancelCtx
<1>37. ASSUME NEW t \in Threads, RegistrarAccepts(t) PROVE ServiceShape'
  BY <1>37 DEF RegistrarAccepts, Goto
<1>38. CASE UNCHANGED vars
  BY <1>38 DEF vars
<1> QED
  BY <1>1, <1>2, <1>3, <1>4, <1>5, <1>6, <1>7, <1>8, <1>9, <1>10, <1>11,
     <1>12, <1>13, <1>14, <1>15, <1>16, <1>17, <1>18, <1>19, <1>20, <1>21,
     <1>22, <1>23, <1>24, <1>25, <1>26, <1>27, <1>28, <1>29, <1>30, <1>31,
     <1>32, <1>33, <1>34, <1>35, <1>36, <1>37, <1>38, Zenon
     DEF Next, Enter, Step, PrepareTransport, RunRegistration

\* A service is stored only for the registration that stands.
LEMMA StoredStep ==
  ASSUME IInv, ServiceShape, Stored, [Next]_vars PROVE Stored'
<1>0. /\ pc \in [Threads -> PC] /\ op \in [Threads -> AllOps \cup {"none"}]
      /\ myGen \in [Threads -> Nat] /\ myReg \in [Threads -> Registry]
      /\ mySvc \in [Threads -> SUBSET Service] /\ gen \in Nat
  BY DEF IInv, TypeOK
<1>a. /\ \A s \in Threads : pc[s] \in Registration \cup Services \cup {"connTeardown"} => op[s] \in Attempts
      /\ \A s \in Threads : op[s] \in Attempts => myGen[s] # gen + 1
  BY OpOfStep DEF IInv, TypeOK, Generations, Attempts
<1> USE <1>0, <1>a DEF Stored, ServiceWanted, NewService, Registration,
   Services, phone, conns, regs, locals
<1>1. ASSUME NEW t \in Threads, PrepareBegin(t) PROVE Stored'
  BY <1>1 DEF PrepareBegin, Calls, Begin, Goto, Frame
<1>2. ASSUME NEW t \in Threads, ConnectBegin(t) PROVE Stored'
  BY <1>2 DEF ConnectBegin, SetupBegin, Calls, Begin, Goto, Frame
<1>3. ASSUME NEW t \in Threads, RegisterBegin(t) PROVE Stored'
  BY <1>3 DEF RegisterBegin, SetupBegin, Calls, Begin, Goto, Frame
<1>4. ASSUME NEW t \in Threads, RegisterAgain(t) PROVE Stored'
  BY <1>4 DEF RegisterAgain, Calls, Begin, Goto, Frame
<1>5. ASSUME NEW t \in Threads, UnregisterBegin(t) PROVE Stored'
  BY <1>5 DEF UnregisterBegin, Calls, Goto, Frame
<1>6. ASSUME NEW t \in Threads, DisconnectBegin(t) PROVE Stored'
  BY <1>6 DEF DisconnectBegin, Calls, Goto, Frame
<1>7. ASSUME NEW t \in Threads, DisconnectPrepare(t) PROVE Stored'
  BY <1>7 DEF DisconnectPrepare, Calls, Goto, Frame
<1>8. ASSUME NEW t \in Threads, PostStun(t) PROVE Stored'
  BY <1>8 DEF PostStun, Goto
<1>9. ASSUME NEW t \in Threads, BuildOK(t) PROVE Stored'
  BY <1>9 DEF BuildOK, Goto
<1>10. ASSUME NEW t \in Threads, BuildFails(t) PROVE Stored'
  BY <1>10 DEF BuildFails, Goto
<1>11. ASSUME NEW t \in Threads, Attach(t) PROVE Stored'
  <2>1. \A s \in Threads : s # t /\ op[s] \in Attempts /\ gen = myGen[t] => myGen[s] # gen
    BY <1>11, OwnerUnique, OpOfStep DEF IInv, Attempts, Attach,
       Registration, Services, Setup
  <2>2. gen = myGen[t] => state # "Registered"
    BY <1>11, OpOfStep DEF IInv, Owner, Attempts, Attach, Registration,
       Services, Setup, StillValid
  <2> QED
    BY <1>11, <2>1, <2>2 DEF Attach, Goto, StillValid
<1>12. ASSUME NEW t \in Threads, AttachStale(t) PROVE Stored'
  BY <1>12 DEF AttachStale, Goto
<1>13. ASSUME NEW t \in Threads, RegStart(t) PROVE Stored'
  BY <1>13 DEF RegStart, Goto
<1>14. ASSUME NEW t \in Threads, RegStartStale(t) PROVE Stored'
  BY <1>14 DEF RegStartStale, Return, Goto, Frame
<1>15. ASSUME NEW t \in Threads, RegBegin(t) PROVE Stored'
  BY <1>15 DEF RegBegin, Goto
<1>16. ASSUME NEW t \in Threads, RegOK(t) PROVE Stored'
  BY <1>16 DEF RegOK, Goto
<1>17. ASSUME NEW t \in Threads, RegFails(t) PROVE Stored'
  BY <1>17 DEF RegFails, Goto
<1>18. ASSUME NEW t \in Threads, RegStale(t) PROVE Stored'
  <2>1. \A s \in Threads : s # t /\ op[s] \in Attempts /\ gen = myGen[t] => myGen[s] # gen
    BY <1>18, OwnerUnique, OpOfStep DEF IInv, Attempts, RegStale,
       Registration, Services, Setup
  <2>2. gen = myGen[t] => state = "Registering"
    BY <1>18, OpOfStep DEF IInv, Owner, Attempts, RegStale, Registration,
       Services, Setup, StillValid
  <2> QED
    BY <1>18, <2>1, <2>2 DEF RegStale, RegReturn, Return, Goto, Frame
<1>19. ASSUME NEW t \in Threads, RegPublish(t) PROVE Stored'
  <2>1. \A s \in Threads : s # t /\ op[s] \in Attempts /\ gen = myGen[t] => myGen[s] # gen
    BY <1>19, OwnerUnique, OpOfStep DEF IInv, Attempts, RegPublish,
       Registration, Services, Setup
  <2>2. gen = myGen[t] => state = "Registering"
    BY <1>19, OpOfStep DEF IInv, Owner, Attempts, RegPublish, Registration,
       Services, Setup, StillValid
  <2> QED
    BY <1>19, <2>1, <2>2 DEF RegPublish, Goto
<1>20. ASSUME NEW t \in Threads, RegPublishFailed(t) PROVE Stored'
  <2>1. \A s \in Threads : s # t /\ op[s] \in Attempts /\ gen = myGen[t] => myGen[s] # gen
    BY <1>20, OwnerUnique, OpOfStep DEF IInv, Attempts, RegPublishFailed,
       Registration, Services, Setup
  <2>2. gen = myGen[t] => state = "Registering"
    BY <1>20, OpOfStep DEF IInv, Owner, Attempts, RegPublishFailed,
       Registration, Services, Setup, StillValid
  <2> QED
    BY <1>20, <2>1, <2>2 DEF RegPublishFailed, RegReturn, Return, Goto, Frame
<1>21. ASSUME NEW t \in Threads, MWIStart(t) PROVE Stored'
  BY <1>21 DEF MWIStart, ServiceStart, Goto
<1>22. ASSUME NEW t \in Threads, MWIStore(t) PROVE Stored'
  BY <1>22 DEF MWIStore, Goto, ServiceShape
<1>23. ASSUME NEW t \in Threads, SubStart(t) PROVE Stored'
  BY <1>23 DEF SubStart, ServiceStart, Goto
<1>24. ASSUME NEW t \in Threads, SubStore(t) PROVE Stored'
  BY <1>24 DEF SubStore, Return, Goto, Frame, ServiceShape
<1>25. ASSUME NEW t \in Threads, PrepareSuperseded(t) PROVE Stored'
  BY <1>25 DEF PrepareSuperseded, Return, Goto, Frame
<1>26. ASSUME NEW t \in Threads, PreparePublish(t) PROVE Stored'
  <2>1. \A s \in Threads : s # t /\ op[s] \in Attempts /\ gen = myGen[t] => myGen[s] # gen
    BY <1>26, OwnerUnique, OpOfStep DEF IInv, Attempts, PreparePublish,
       Registration, Services, Setup
  <2>2. gen = myGen[t] => state # "Registered"
    BY <1>26, OpOfStep DEF IInv, Owner, Attempts, PreparePublish,
       Registration, Services, Setup, StillValid
  <2> QED
    BY <1>26, <2>1, <2>2 DEF PreparePublish, Return, Goto, Frame
<1>27. ASSUME NEW t \in Threads, PrepareFails(t) PROVE Stored'
  <2>1. \A s \in Threads : s # t /\ op[s] \in Attempts /\ gen = myGen[t] => myGen[s] # gen
    BY <1>27, OwnerUnique, OpOfStep DEF IInv, Attempts, PrepareFails,
       Registration, Services, Setup
  <2>2. gen = myGen[t] => state # "Registered"
    BY <1>27, OpOfStep DEF IInv, Owner, Attempts, PrepareFails,
       Registration, Services, Setup, StillValid
  <2> QED
    BY <1>27, <2>1, <2>2 DEF PrepareFails, Return, Goto, Frame
<1>28. ASSUME NEW t \in Threads, TeardownAfterPrepareError(t) PROVE Stored'
  <2>1. \A s \in Threads : s # t /\ op[s] \in Attempts /\ gen = myGen[t] => myGen[s] # gen
    BY <1>28, OwnerUnique, OpOfStep DEF IInv, Attempts,
       TeardownAfterPrepareError, Registration, Services, Setup
  <2>2. gen = myGen[t] => state # "Registered"
    BY <1>28, OpOfStep DEF IInv, Owner, Attempts,
       TeardownAfterPrepareError, Registration, Services, Setup, StillValid
  <2> QED
    BY <1>28, <2>1, <2>2 DEF TeardownAfterPrepareError, Return, Goto, Frame
<1>29. ASSUME NEW t \in Threads, ConnTeardown(t) PROVE Stored'
  BY <1>29 DEF ConnTeardown, Goto
<1>30. ASSUME NEW t \in Threads, ConnTeardownStale(t) PROVE Stored'
  BY <1>30 DEF ConnTeardownStale, Return, Goto, Frame
<1>31. ASSUME NEW t \in Threads, CloseTransport(t) PROVE Stored'
  BY <1>31 DEF CloseTransport, Return, Goto, Frame
<1>32. ASSUME NEW t \in Threads, StopServices(t) PROVE Stored'
  BY <1>32 DEF StopServices, Goto
<1>33. ASSUME NEW t \in Threads, UnregisterCtx(t) PROVE Stored'
  BY <1>33 DEF UnregisterCtx, Goto
<1>34. ASSUME NEW t \in Threads, RegistryStop(t) PROVE Stored'
  BY <1>34 DEF RegistryStop, Goto
<1>35. ASSUME NEW t \in Threads, UnregisterPublish(t) PROVE Stored'
  BY <1>35 DEF UnregisterPublish, Return, Goto, Frame
<1>36. ASSUME NEW t \in Threads, CancelCtx(t) PROVE Stored'
  BY <1>36 DEF CancelCtx
<1>37. ASSUME NEW t \in Threads, RegistrarAccepts(t) PROVE Stored'
  BY <1>37 DEF RegistrarAccepts, Goto
<1>38. CASE UNCHANGED vars
  BY <1>38 DEF vars
<1> QED
  BY <1>1, <1>2, <1>3, <1>4, <1>5, <1>6, <1>7, <1>8, <1>9, <1>10, <1>11,
     <1>12, <1>13, <1>14, <1>15, <1>16, <1>17, <1>18, <1>19, <1>20, <1>21,
     <1>22, <1>23, <1>24, <1>25, <1>26, <1>27, <1>28, <1>29, <1>30, <1>31,
     <1>32, <1>33, <1>34, <1>35, <1>36, <1>37, <1>38, Zenon
     DEF Next, Enter, Step, PrepareTransport, RunRegistration

\* Each attempt starts each of its services once.
LEMMA ServiceFreshStep ==
  ASSUME IInv, ServiceShape, ServiceFresh, [Next]_vars PROVE ServiceFresh'
<1>0. /\ pc \in [Threads -> PC] /\ op \in [Threads -> AllOps \cup {"none"}]
      /\ myGen \in [Threads -> Nat] /\ myReg \in [Threads -> Registry]
      /\ mySvc \in [Threads -> SUBSET Service] /\ gen \in Nat
  BY DEF IInv, TypeOK
<1>a. /\ \A s \in Threads : pc[s] \in Services => op[s] \in Attempts
      /\ \A s \in Threads : op[s] \in Attempts => myGen[s] \in 1..gen
      /\ \A r, s \in Threads : r # s /\ op[r] \in Attempts /\ op[s] \in Attempts =>
                                 myGen[r] # myGen[s]
      /\ "none" \notin Attempts /\ "Unregister" \notin Attempts
      /\ "Disconnect" \notin Attempts
  BY OpOfStep DEF IInv, Generations, Attempts
<1>b. \A x \in running : x.gen \in 1..gen
  BY DEF ServiceFresh
<1> USE <1>0, <1>a, <1>b DEF ServiceFresh, ServiceShape, NewService,
   Registration, Services, phone, conns, regs, locals
<1>1. ASSUME NEW t \in Threads, PrepareBegin(t) PROVE ServiceFresh'
  BY <1>1 DEF PrepareBegin, Calls, Begin, Goto, Frame
<1>2. ASSUME NEW t \in Threads, ConnectBegin(t) PROVE ServiceFresh'
  BY <1>2 DEF ConnectBegin, SetupBegin, Calls, Begin, Goto, Frame
<1>3. ASSUME NEW t \in Threads, RegisterBegin(t) PROVE ServiceFresh'
  BY <1>3 DEF RegisterBegin, SetupBegin, Calls, Begin, Goto, Frame
<1>4. ASSUME NEW t \in Threads, RegisterAgain(t) PROVE ServiceFresh'
  BY <1>4 DEF RegisterAgain, Calls, Begin, Goto, Frame
<1>5. ASSUME NEW t \in Threads, UnregisterBegin(t) PROVE ServiceFresh'
  BY <1>5 DEF UnregisterBegin, Calls, Goto, Frame
<1>6. ASSUME NEW t \in Threads, DisconnectBegin(t) PROVE ServiceFresh'
  BY <1>6 DEF DisconnectBegin, Calls, Goto, Frame
<1>7. ASSUME NEW t \in Threads, DisconnectPrepare(t) PROVE ServiceFresh'
  BY <1>7 DEF DisconnectPrepare, Calls, Goto, Frame
<1>8. ASSUME NEW t \in Threads, PostStun(t) PROVE ServiceFresh'
  BY <1>8 DEF PostStun, Goto
<1>9. ASSUME NEW t \in Threads, BuildOK(t) PROVE ServiceFresh'
  BY <1>9 DEF BuildOK, Goto
<1>10. ASSUME NEW t \in Threads, BuildFails(t) PROVE ServiceFresh'
  BY <1>10 DEF BuildFails, Goto
<1>11. ASSUME NEW t \in Threads, Attach(t) PROVE ServiceFresh'
  BY <1>11 DEF Attach, Goto, StillValid
<1>12. ASSUME NEW t \in Threads, AttachStale(t) PROVE ServiceFresh'
  BY <1>12 DEF AttachStale, Goto
<1>13. ASSUME NEW t \in Threads, RegStart(t) PROVE ServiceFresh'
  BY <1>13 DEF RegStart, Goto
<1>14. ASSUME NEW t \in Threads, RegStartStale(t) PROVE ServiceFresh'
  BY <1>14 DEF RegStartStale, Return, Goto, Frame
<1>15. ASSUME NEW t \in Threads, RegBegin(t) PROVE ServiceFresh'
  BY <1>15 DEF RegBegin, Goto
<1>16. ASSUME NEW t \in Threads, RegOK(t) PROVE ServiceFresh'
  BY <1>16 DEF RegOK, Goto
<1>17. ASSUME NEW t \in Threads, RegFails(t) PROVE ServiceFresh'
  BY <1>17 DEF RegFails, Goto
<1>18. ASSUME NEW t \in Threads, RegStale(t) PROVE ServiceFresh'
  BY <1>18 DEF RegStale, RegReturn, Return, Goto, Frame
<1>19. ASSUME NEW t \in Threads, RegPublish(t) PROVE ServiceFresh'
  BY <1>19 DEF RegPublish, Goto
<1>20. ASSUME NEW t \in Threads, RegPublishFailed(t) PROVE ServiceFresh'
  BY <1>20 DEF RegPublishFailed, RegReturn, Return, Goto, Frame
<1>21. ASSUME NEW t \in Threads, MWIStart(t) PROVE ServiceFresh'
  BY <1>21 DEF MWIStart, ServiceStart, Goto
<1>22. ASSUME NEW t \in Threads, MWIStore(t) PROVE ServiceFresh'
  BY <1>22 DEF MWIStore, Goto
<1>23. ASSUME NEW t \in Threads, SubStart(t) PROVE ServiceFresh'
  BY <1>23 DEF SubStart, ServiceStart, Goto
<1>24. ASSUME NEW t \in Threads, SubStore(t) PROVE ServiceFresh'
  BY <1>24 DEF SubStore, Return, Goto, Frame
<1>25. ASSUME NEW t \in Threads, PrepareSuperseded(t) PROVE ServiceFresh'
  BY <1>25 DEF PrepareSuperseded, Return, Goto, Frame
<1>26. ASSUME NEW t \in Threads, PreparePublish(t) PROVE ServiceFresh'
  BY <1>26 DEF PreparePublish, Return, Goto, Frame
<1>27. ASSUME NEW t \in Threads, PrepareFails(t) PROVE ServiceFresh'
  BY <1>27 DEF PrepareFails, Return, Goto, Frame
<1>28. ASSUME NEW t \in Threads, TeardownAfterPrepareError(t) PROVE ServiceFresh'
  BY <1>28 DEF TeardownAfterPrepareError, Return, Goto, Frame
<1>29. ASSUME NEW t \in Threads, ConnTeardown(t) PROVE ServiceFresh'
  BY <1>29 DEF ConnTeardown, Goto
<1>30. ASSUME NEW t \in Threads, ConnTeardownStale(t) PROVE ServiceFresh'
  BY <1>30 DEF ConnTeardownStale, Return, Goto, Frame
<1>31. ASSUME NEW t \in Threads, CloseTransport(t) PROVE ServiceFresh'
  BY <1>31 DEF CloseTransport, Return, Goto, Frame
<1>32. ASSUME NEW t \in Threads, StopServices(t) PROVE ServiceFresh'
  BY <1>32 DEF StopServices, Goto
<1>33. ASSUME NEW t \in Threads, UnregisterCtx(t) PROVE ServiceFresh'
  BY <1>33 DEF UnregisterCtx, Goto
<1>34. ASSUME NEW t \in Threads, RegistryStop(t) PROVE ServiceFresh'
  BY <1>34 DEF RegistryStop, Goto
<1>35. ASSUME NEW t \in Threads, UnregisterPublish(t) PROVE ServiceFresh'
  BY <1>35 DEF UnregisterPublish, Return, Goto, Frame
<1>36. ASSUME NEW t \in Threads, CancelCtx(t) PROVE ServiceFresh'
  BY <1>36 DEF CancelCtx
<1>37. ASSUME NEW t \in Threads, RegistrarAccepts(t) PROVE ServiceFresh'
  BY <1>37 DEF RegistrarAccepts, Goto
<1>38. CASE UNCHANGED vars
  BY <1>38 DEF vars
<1> QED
  BY <1>1, <1>2, <1>3, <1>4, <1>5, <1>6, <1>7, <1>8, <1>9, <1>10, <1>11,
     <1>12, <1>13, <1>14, <1>15, <1>16, <1>17, <1>18, <1>19, <1>20, <1>21,
     <1>22, <1>23, <1>24, <1>25, <1>26, <1>27, <1>28, <1>29, <1>30, <1>31,
     <1>32, <1>33, <1>34, <1>35, <1>36, <1>37, <1>38, Zenon
     DEF Next, Enter, Step, PrepareTransport, RunRegistration

\* A running service stays in one place.
LEMMA ServiceOwnedStep ==
  ASSUME IInv, SInv, [Next]_vars PROVE ServiceOwned'
<1>0. /\ pc \in [Threads -> PC] /\ op \in [Threads -> AllOps \cup {"none"}]
      /\ myGen \in [Threads -> Nat] /\ myReg \in [Threads -> Registry]
      /\ mySvc \in [Threads -> SUBSET Service] /\ gen \in Nat
  BY DEF IInv, TypeOK
<1>a. /\ \A s \in Threads : pc[s] \in Services => op[s] \in Attempts
      /\ \A s \in Threads : op[s] \in Attempts => myGen[s] \in 1..gen
      /\ \A r, s \in Threads : r # s /\ op[r] \in Attempts /\ op[s] \in Attempts =>
                                 myGen[r] # myGen[s]
      /\ "none" \notin Attempts /\ "Unregister" \notin Attempts
      /\ "Disconnect" \notin Attempts
  BY OpOfStep DEF IInv, Generations, Attempts
<1>b. \A x \in running : x.gen \in 1..gen
  BY DEF SInv, ServiceFresh
<1>c. /\ ServiceShape /\ ServiceOwned
      /\ \A x \in running : \A s \in Threads :
           op[s] \in Attempts /\ x.gen = myGen[s] /\ x \notin mySvc[s] =>
             pc[s] \in Services /\ pc[s] \notin {"mwiStart", "mwiStore"} /\ x.kind = "mwi"
  BY DEF SInv, ServiceFresh
<1>1. ASSUME NEW t \in Threads, PrepareBegin(t) PROVE ServiceOwned'
  BY <1>1, <1>0, <1>c DEF ServiceShape, ServiceOwned, Held, phone, conns,
     regs, locals, PrepareBegin, Calls, Begin, Goto, Frame
<1>2. ASSUME NEW t \in Threads, ConnectBegin(t) PROVE ServiceOwned'
  BY <1>2, <1>0, <1>c DEF ServiceShape, ServiceOwned, Held, phone, conns,
     regs, locals, ConnectBegin, SetupBegin, Calls, Begin, Goto, Frame
<1>3. ASSUME NEW t \in Threads, RegisterBegin(t) PROVE ServiceOwned'
  BY <1>3, <1>0, <1>c DEF ServiceShape, ServiceOwned, Held, phone, conns,
     regs, locals, RegisterBegin, SetupBegin, Calls, Begin, Goto, Frame
<1>4. ASSUME NEW t \in Threads, RegisterAgain(t) PROVE ServiceOwned'
  BY <1>4, <1>0, <1>c DEF ServiceShape, ServiceOwned, Held, phone, conns,
     regs, locals, RegisterAgain, Calls, Begin, Goto, Frame
<1>5. ASSUME NEW t \in Threads, UnregisterBegin(t) PROVE ServiceOwned'
  BY <1>5, <1>0, <1>c DEF ServiceShape, ServiceOwned, Held, phone, conns,
     regs, locals, UnregisterBegin, Calls, Goto, Frame
<1>6. ASSUME NEW t \in Threads, DisconnectBegin(t) PROVE ServiceOwned'
  BY <1>6, <1>0, <1>c DEF ServiceShape, ServiceOwned, Held, phone, conns,
     regs, locals, DisconnectBegin, Calls, Goto, Frame
<1>7. ASSUME NEW t \in Threads, DisconnectPrepare(t) PROVE ServiceOwned'
  BY <1>7, <1>0, <1>c DEF ServiceShape, ServiceOwned, Held, phone, conns,
     regs, locals, DisconnectPrepare, Calls, Goto, Frame
<1>8. ASSUME NEW t \in Threads, PostStun(t) PROVE ServiceOwned'
  BY <1>8, <1>0, <1>c DEF ServiceShape, ServiceOwned, Held, phone, conns,
     regs, locals, PostStun, Goto
<1>9. ASSUME NEW t \in Threads, BuildOK(t) PROVE ServiceOwned'
  BY <1>9, <1>0, <1>c DEF ServiceShape, ServiceOwned, Held, phone, conns,
     regs, locals, BuildOK, Goto
<1>10. ASSUME NEW t \in Threads, BuildFails(t) PROVE ServiceOwned'
  BY <1>10, <1>0, <1>c DEF ServiceShape, ServiceOwned, Held, phone, conns,
     regs, locals, BuildFails, Goto
<1>11. ASSUME NEW t \in Threads, Attach(t) PROVE ServiceOwned'
  BY <1>11, <1>0, <1>c DEF ServiceShape, ServiceOwned, Held, phone, conns,
     regs, locals, Attach, Goto, StillValid
<1>12. ASSUME NEW t \in Threads, AttachStale(t) PROVE ServiceOwned'
  BY <1>12, <1>0, <1>c DEF ServiceShape, ServiceOwned, Held, phone, conns,
     regs, locals, AttachStale, Goto
<1>13. ASSUME NEW t \in Threads, RegStart(t) PROVE ServiceOwned'
  BY <1>13, <1>0, <1>c DEF ServiceShape, ServiceOwned, Held, phone, conns,
     regs, locals, RegStart, Goto
<1>14. ASSUME NEW t \in Threads, RegStartStale(t) PROVE ServiceOwned'
  BY <1>14, <1>0, <1>c DEF ServiceShape, ServiceOwned, Held, phone, conns,
     regs, locals, RegStartStale, Return, Goto, Frame
<1>15. ASSUME NEW t \in Threads, RegBegin(t) PROVE ServiceOwned'
  BY <1>15, <1>0, <1>c DEF ServiceShape, ServiceOwned, Held, phone, conns,
     regs, locals, RegBegin, Goto
<1>16. ASSUME NEW t \in Threads, RegOK(t) PROVE ServiceOwned'
  BY <1>16, <1>0, <1>c DEF ServiceShape, ServiceOwned, Held, phone, conns,
     regs, locals, RegOK, Goto
<1>17. ASSUME NEW t \in Threads, RegFails(t) PROVE ServiceOwned'
  BY <1>17, <1>0, <1>c DEF ServiceShape, ServiceOwned, Held, phone, conns,
     regs, locals, RegFails, Goto
<1>18. ASSUME NEW t \in Threads, RegStale(t) PROVE ServiceOwned'
  BY <1>18, <1>0, <1>c DEF ServiceShape, ServiceOwned, Held, phone, conns,
     regs, locals, RegStale, RegReturn, Return, Goto, Frame
<1>19. ASSUME NEW t \in Threads, RegPublish(t) PROVE ServiceOwned'
  BY <1>19, <1>0, <1>c DEF ServiceShape, ServiceOwned, Held, phone, conns,
     regs, locals, RegPublish, Goto
<1>20. ASSUME NEW t \in Threads, RegPublishFailed(t) PROVE ServiceOwned'
  BY <1>20, <1>0, <1>c DEF ServiceShape, ServiceOwned, Held, phone, conns,
     regs, locals, RegPublishFailed, RegReturn, Return, Goto, Frame
<1>21. ASSUME NEW t \in Threads, MWIStart(t) PROVE ServiceOwned'
  <2> DEFINE n == NewService(t, "mwi")
  <2>1. n \notin running
    BY <1>21, <1>a, <1>c DEF MWIStart, ServiceShape, Services, NewService
  <2>2. mySvc[t] = {}
    BY <1>21, <1>c DEF MWIStart, ServiceShape
  <2>3. /\ running' = running \cup {n} /\ mySvc' = [mySvc EXCEPT ![t] = {n}]
        /\ UNCHANGED <<mwi, subMgr>>
    BY <1>21, <1>0, <1>c DEF ServiceShape, ServiceOwned, Held, phone,
       conns, regs, locals, MWIStart, ServiceStart, phone
  <2> HIDE DEF n
  <2> QED
    BY <1>0, <1>c, <2>1, <2>2, <2>3 DEF ServiceOwned, Held
<1>22. ASSUME NEW t \in Threads, MWIStore(t) PROVE ServiceOwned'
  <2> DEFINE n == NewService(t, "mwi")
  <2>1. mySvc[t] = {n} /\ mySvc' = [mySvc EXCEPT ![t] = {}] /\ UNCHANGED subMgr
    BY <1>22, <1>c DEF MWIStore, Goto, ServiceShape
  <2>2. CASE ServiceWanted(t)
    <3>1. mwi = NoService
      <4> SUFFICES ASSUME mwi # NoService PROVE FALSE
        OBVIOUS
      <4>1. mwi \in running /\ mwi \notin mySvc[t]
        BY <1>c DEF ServiceOwned, Held
      <4>2. mwi.gen = myGen[t] /\ mwi.kind = "mwi"
        BY <2>2 DEF ServiceWanted, SInv, Stored
      <4> QED
        BY <1>22, <1>a, <1>c, <4>1, <4>2 DEF MWIStore, Services
    <3>2. mwi' = n /\ running' = running
      BY <1>22, <2>2 DEF MWIStore
    <3>3. n # NoService
      BY <1>22, <1>a, <1>0 DEF MWIStore, Services, NewService, NoService
    <3> HIDE DEF n
    <3> QED
      BY <1>0, <1>c, <2>1, <3>1, <3>2, <3>3 DEF ServiceOwned, Held
  <2>3. CASE ~ServiceWanted(t)
    <3>1. mwi' = mwi /\ running' = running \ mySvc[t]
      BY <1>22, <2>3 DEF MWIStore
    <3> HIDE DEF n
    <3> QED
      BY <1>0, <1>c, <2>1, <3>1 DEF ServiceOwned, Held
  <2> QED
    BY <2>2, <2>3
<1>23. ASSUME NEW t \in Threads, SubStart(t) PROVE ServiceOwned'
  <2> DEFINE n == NewService(t, "sub")
  <2>1. n \notin running
    BY <1>23, <1>a, <1>c DEF SubStart, ServiceShape, Services, NewService
  <2>2. mySvc[t] = {}
    BY <1>23, <1>c DEF SubStart, ServiceShape
  <2>3. /\ running' = running \cup {n} /\ mySvc' = [mySvc EXCEPT ![t] = {n}]
        /\ UNCHANGED <<mwi, subMgr>>
    BY <1>23, <1>0, <1>c DEF ServiceShape, ServiceOwned, Held, phone,
       conns, regs, locals, SubStart, ServiceStart, phone
  <2> HIDE DEF n
  <2> QED
    BY <1>0, <1>c, <2>1, <2>2, <2>3 DEF ServiceOwned, Held
<1>24. ASSUME NEW t \in Threads, SubStore(t) PROVE ServiceOwned'
  <2> DEFINE n == NewService(t, "sub")
  <2>1. mySvc[t] = {n} /\ mySvc' = [mySvc EXCEPT ![t] = {}] /\ UNCHANGED mwi
    BY <1>24, <1>c DEF SubStore, Return, Goto, Frame, ServiceShape
  <2>2. CASE ServiceWanted(t)
    <3>1. subMgr = NoService
      <4> SUFFICES ASSUME subMgr # NoService PROVE FALSE
        OBVIOUS
      <4>1. subMgr \in running /\ subMgr \notin mySvc[t]
        BY <1>c DEF ServiceOwned, Held
      <4>2. subMgr.gen = myGen[t] /\ subMgr.kind = "sub"
        BY <2>2 DEF ServiceWanted, SInv, Stored
      <4> QED
        BY <1>24, <1>a, <1>c, <4>1, <4>2 DEF SubStore, Services
    <3>2. subMgr' = n /\ running' = running
      BY <1>24, <2>2 DEF SubStore
    <3>3. n # NoService
      BY <1>24, <1>a, <1>0 DEF SubStore, Services, NewService, NoService
    <3> HIDE DEF n
    <3> QED
      BY <1>0, <1>c, <2>1, <3>1, <3>2, <3>3 DEF ServiceOwned, Held
  <2>3. CASE ~ServiceWanted(t)
    <3>1. subMgr' = subMgr /\ running' = running \ mySvc[t]
      BY <1>24, <2>3 DEF SubStore
    <3> HIDE DEF n
    <3> QED
      BY <1>0, <1>c, <2>1, <3>1 DEF ServiceOwned, Held
  <2> QED
    BY <2>2, <2>3
<1>25. ASSUME NEW t \in Threads, PrepareSuperseded(t) PROVE ServiceOwned'
  BY <1>25, <1>0, <1>c DEF ServiceShape, ServiceOwned, Held, phone, conns,
     regs, locals, PrepareSuperseded, Return, Goto, Frame
<1>26. ASSUME NEW t \in Threads, PreparePublish(t) PROVE ServiceOwned'
  BY <1>26, <1>0, <1>c DEF ServiceShape, ServiceOwned, Held, phone, conns,
     regs, locals, PreparePublish, Return, Goto, Frame
<1>27. ASSUME NEW t \in Threads, PrepareFails(t) PROVE ServiceOwned'
  BY <1>27, <1>0, <1>c DEF ServiceShape, ServiceOwned, Held, phone, conns,
     regs, locals, PrepareFails, Return, Goto, Frame
<1>28. ASSUME NEW t \in Threads, TeardownAfterPrepareError(t) PROVE ServiceOwned'
  BY <1>28, <1>0, <1>c DEF ServiceShape, ServiceOwned, Held, phone, conns,
     regs, locals, TeardownAfterPrepareError, Return, Goto, Frame
<1>29. ASSUME NEW t \in Threads, ConnTeardown(t) PROVE ServiceOwned'
  BY <1>29, <1>0, <1>c DEF ServiceShape, ServiceOwned, Held, phone, conns,
     regs, locals, ConnTeardown, Goto
<1>30. ASSUME NEW t \in Threads, ConnTeardownStale(t) PROVE ServiceOwned'
  BY <1>30, <1>0, <1>c DEF ServiceShape, ServiceOwned, Held, phone, conns,
     regs, locals, ConnTeardownStale, Return, Goto, Frame
<1>31. ASSUME NEW t \in Threads, CloseTransport(t) PROVE ServiceOwned'
  BY <1>31, <1>0, <1>c DEF ServiceShape, ServiceOwned, Held, phone, conns,
     regs, locals, CloseTransport, Return, Goto, Frame
<1>32. ASSUME NEW t \in Threads, StopServices(t) PROVE ServiceOwned'
  BY <1>32, <1>0, <1>c DEF ServiceShape, ServiceOwned, Held, phone, conns,
     regs, locals, StopServices, Goto
<1>33. ASSUME NEW t \in Threads, UnregisterCtx(t) PROVE ServiceOwned'
  BY <1>33, <1>0, <1>c DEF ServiceShape, ServiceOwned, Held, phone, conns,
     regs, locals, UnregisterCtx, Goto
<1>34. ASSUME NEW t \in Threads, RegistryStop(t) PROVE ServiceOwned'
  BY <1>34, <1>0, <1>c DEF ServiceShape, ServiceOwned, Held, phone, conns,
     regs, locals, RegistryStop, Goto
<1>35. ASSUME NEW t \in Threads, UnregisterPublish(t) PROVE ServiceOwned'
  BY <1>35, <1>0, <1>c DEF ServiceShape, ServiceOwned, Held, phone, conns,
     regs, locals, UnregisterPublish, Return, Goto, Frame
<1>36. ASSUME NEW t \in Threads, CancelCtx(t) PROVE ServiceOwned'
  BY <1>36, <1>0, <1>c DEF ServiceShape, ServiceOwned, Held, phone, conns,
     regs, locals, CancelCtx
<1>37. ASSUME NEW t \in Threads, RegistrarAccepts(t) PROVE ServiceOwned'
  BY <1>37, <1>0, <1>c DEF ServiceShape, ServiceOwned, Held, phone, conns,
     regs, locals, RegistrarAccepts, Goto
<1>38. CASE UNCHANGED vars
  BY <1>c, <1>38 DEF vars, ServiceOwned, Held, phone, conns, regs, locals
<1> QED
  BY <1>1, <1>2, <1>3, <1>4, <1>5, <1>6, <1>7, <1>8, <1>9, <1>10, <1>11,
     <1>12, <1>13, <1>14, <1>15, <1>16, <1>17, <1>18, <1>19, <1>20, <1>21,
     <1>22, <1>23, <1>24, <1>25, <1>26, <1>27, <1>28, <1>29, <1>30, <1>31,
     <1>32, <1>33, <1>34, <1>35, <1>36, <1>37, <1>38, Zenon
     DEF Next, Enter, Step, PrepareTransport, RunRegistration


\* The service part of the invariant holds initially and is kept.
LEMMA SInvInit == Init => SInv
BY DEF Init, SInv, ServiceShape, Stored, ServiceOwned, ServiceFresh, Held,
       Registration, Services, Attempts

LEMMA SInvStep == IInv /\ SInv /\ [Next]_vars => SInv'
BY ServiceShapeStep, StoredStep, ServiceOwnedStep, ServiceFreshStep DEF SInv

\* The whole invariant of the phone and its services.
THEOREM ServiceInvariance == Spec => [](IInv /\ SInv)
BY Invariance, SInvInit, SInvStep, PTL DEF Spec

\* A stored MWI subscriber or subscription manager runs, over the attached
\* transport of a phone that is Registered, for any number of goroutines.
THEOREM ServicesOfRegistration == Spec => []ServicesMatchRegistration
<1>1. SInv => ServicesMatchRegistration
  BY DEF SInv, Stored, ServiceOwned, ServicesMatchRegistration, Held
<1> QED
  BY ServiceInvariance, <1>1, PTL

\* No service is left running with nobody to stop it, however Unregister and
\* Disconnect race with the registration that starts it.
THEOREM ServicesAreOwned == Spec => []NoOrphanService
<1>1. SInv => NoOrphanService
  BY DEF SInv, ServiceOwned, NoOrphanService
<1> QED
  BY ServiceInvariance, <1>1, PTL

=============================================================================
