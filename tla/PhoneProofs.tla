----------------------------- MODULE PhoneProofs -----------------------------
(***************************************************************************)
(* Proof that IInv is an invariant of PhoneLifecycle: one lemma per        *)
(* conjunct, one step per action; the theorems follow from it.             *)
(***************************************************************************)
EXTENDS PhoneInvariant, TLAPS

\* Registries and services are built and taken apart as their types say.
LEMMA RecordTypes ==
  /\ NoReg \in Registry /\ NoService \in Service
  /\ \A r \in Registry : r.id \in Nat /\ r.tr \in Nat
  /\ \A g, x \in Nat : [id |-> g, tr |-> x] \in Registry
  /\ \A k \in {"mwi", "sub"}, g, x \in Nat :
       [kind |-> k, gen |-> g, tr |-> x] \in Service
BY DEF Registry, Service, NoReg, NoService

\* The services the phone holds are services.
LEMMA HeldType == ASSUME TypeOK PROVE Held \subseteq Service
BY DEF TypeOK, Held

LEMMA TypeOKStep ==
  ASSUME TypeOK, [Next]_vars PROVE TypeOK'
<1> USE RecordTypes, HeldType DEF TypeOK, PhoneState, AllOps, PC, Setup,
   Registration, Services, Unreg, Disc, phone, conns, regs, locals
<1>1. ASSUME NEW t \in Threads, PrepareBegin(t) PROVE TypeOK'
  BY <1>1 DEF PrepareBegin, Calls, Begin, Goto, Frame
<1>2. ASSUME NEW t \in Threads, ConnectBegin(t) PROVE TypeOK'
  BY <1>2 DEF ConnectBegin, SetupBegin, Calls, Begin, Goto, Frame
<1>3. ASSUME NEW t \in Threads, RegisterBegin(t) PROVE TypeOK'
  BY <1>3 DEF RegisterBegin, SetupBegin, Calls, Begin, Goto, Frame
<1>4. ASSUME NEW t \in Threads, RegisterAgain(t) PROVE TypeOK'
  BY <1>4 DEF RegisterAgain, Calls, Begin, Goto, Frame
<1>5. ASSUME NEW t \in Threads, UnregisterBegin(t) PROVE TypeOK'
  BY <1>5 DEF UnregisterBegin, Calls, Goto, Frame
<1>6. ASSUME NEW t \in Threads, DisconnectBegin(t) PROVE TypeOK'
  BY <1>6 DEF DisconnectBegin, Calls, Goto, Frame
<1>7. ASSUME NEW t \in Threads, DisconnectPrepare(t) PROVE TypeOK'
  <2>1. UNCHANGED <<state, regCancel, dialFn, mwi, subMgr, cancelled,
                    conns, regs, running, bindings>>
    BY <1>7 DEF DisconnectPrepare
  <2>2. preparing' = FALSE /\ gen' = gen + 1 /\ tr' = 0 /\ reg' = NoReg
    BY <1>7 DEF DisconnectPrepare
  <2>3. Goto(t, "close") /\ Frame(t, "Disconnect", 0, tr, NoReg, {})
    BY <1>7 DEF DisconnectPrepare
  <2>4. /\ pc' \in [Threads -> PC] /\ op' \in [Threads -> AllOps \cup {"none"}]
        /\ myGen' \in [Threads -> Nat] /\ myTr' \in [Threads -> Nat]
    BY <2>3 DEF Goto, Frame
  <2>5. myReg' \in [Threads -> Registry] /\ mySvc' \in [Threads -> SUBSET Service]
    BY <2>3 DEF Frame
  <2>6. gen' \in Nat /\ tr' \in Nat /\ reg' \in Registry
    BY <2>2
  <2> QED
    BY <2>1, <2>2, <2>4, <2>5, <2>6, Zenon
<1>8. ASSUME NEW t \in Threads, PostStun(t) PROVE TypeOK'
  BY <1>8 DEF PostStun, Goto
<1>9. ASSUME NEW t \in Threads, BuildOK(t) PROVE TypeOK'
  BY <1>9, Zenon DEF BuildOK, Goto
<1>10. ASSUME NEW t \in Threads, BuildFails(t) PROVE TypeOK'
  BY <1>10 DEF BuildFails, Goto
<1>11. ASSUME NEW t \in Threads, Attach(t) PROVE TypeOK'
  BY <1>11 DEF Attach, Goto, StillValid
<1>12. ASSUME NEW t \in Threads, AttachStale(t) PROVE TypeOK'
  BY <1>12, Zenon DEF AttachStale, Goto
<1>13. ASSUME NEW t \in Threads, RegStart(t) PROVE TypeOK'
  BY <1>13 DEF RegStart, Goto
<1>14. ASSUME NEW t \in Threads, RegStartStale(t) PROVE TypeOK'
  BY <1>14 DEF RegStartStale, Return, Goto, Frame
<1>15. ASSUME NEW t \in Threads, RegBegin(t) PROVE TypeOK'
  BY <1>15, Zenon DEF RegBegin, Goto
<1>16. ASSUME NEW t \in Threads, RegOK(t) PROVE TypeOK'
  BY <1>16, Zenon DEF RegOK, Goto
<1>17. ASSUME NEW t \in Threads, RegFails(t) PROVE TypeOK'
  BY <1>17, Zenon DEF RegFails, Goto
<1>18. ASSUME NEW t \in Threads, RegStale(t) PROVE TypeOK'
  <2>1. CASE op[t] = "Connect"
    BY <1>18, <2>1, Zenon DEF RegStale, RegReturn, Goto
  <2>2. CASE op[t] # "Connect"
    <3>1. Return(t) /\ UNCHANGED <<phone, conns, regs, running, bindings>>
      BY <1>18, <2>2 DEF RegStale, RegReturn
    <3> QED
      BY <3>1 DEF Return, Goto, Frame
  <2> QED
    BY <2>1, <2>2
<1>19. ASSUME NEW t \in Threads, RegPublish(t) PROVE TypeOK'
  BY <1>19 DEF RegPublish, Goto
<1>20. ASSUME NEW t \in Threads, RegPublishFailed(t) PROVE TypeOK'
  <2>1. CASE op[t] = "Connect"
    BY <1>20, <2>1, Zenon DEF RegPublishFailed, RegReturn, Goto
  <2>2. CASE op[t] # "Connect"
    <3>1. Return(t)
      BY <1>20, <2>2 DEF RegPublishFailed, RegReturn
    <3>2. /\ regCancel' = {} /\ state' = "RegistrationFailed"
          /\ UNCHANGED <<preparing, gen, tr, dialFn, reg, mwi, subMgr,
                         conns, regs, running, bindings>>
      BY <1>20 DEF RegPublishFailed
    <3> QED
      BY <3>1, <3>2 DEF Return, Goto, Frame
  <2> QED
    BY <2>1, <2>2
<1>21. ASSUME NEW t \in Threads, MWIStart(t) PROVE TypeOK'
  BY <1>21 DEF MWIStart, ServiceStart, Goto, NewService
<1>22. ASSUME NEW t \in Threads, MWIStore(t) PROVE TypeOK'
  BY <1>22 DEF MWIStore, Goto, NewService
<1>23. ASSUME NEW t \in Threads, SubStart(t) PROVE TypeOK'
  BY <1>23 DEF SubStart, ServiceStart, Goto, NewService
<1>24. ASSUME NEW t \in Threads, SubStore(t) PROVE TypeOK'
  BY <1>24 DEF SubStore, Return, Goto, Frame, NewService
<1>25. ASSUME NEW t \in Threads, PrepareSuperseded(t) PROVE TypeOK'
  BY <1>25 DEF PrepareSuperseded, Return, Goto, Frame
<1>26. ASSUME NEW t \in Threads, PreparePublish(t) PROVE TypeOK'
  BY <1>26, Zenon DEF PreparePublish, Return, Goto, Frame
<1>27. ASSUME NEW t \in Threads, PrepareFails(t) PROVE TypeOK'
  BY <1>27, Zenon DEF PrepareFails, Return, Goto, Frame
<1>28. ASSUME NEW t \in Threads, TeardownAfterPrepareError(t) PROVE TypeOK'
  BY <1>28 DEF TeardownAfterPrepareError, Return, Goto, Frame
<1>29. ASSUME NEW t \in Threads, ConnTeardown(t) PROVE TypeOK'
  BY <1>29 DEF ConnTeardown, Goto
<1>30. ASSUME NEW t \in Threads, ConnTeardownStale(t) PROVE TypeOK'
  BY <1>30 DEF ConnTeardownStale, Return, Goto, Frame
<1>31. ASSUME NEW t \in Threads, CloseTransport(t) PROVE TypeOK'
  BY <1>31, Zenon DEF CloseTransport, Return, Goto, Frame
<1>32. ASSUME NEW t \in Threads, StopServices(t) PROVE TypeOK'
  BY <1>32 DEF StopServices, Goto
<1>33. ASSUME NEW t \in Threads, UnregisterCtx(t) PROVE TypeOK'
  BY <1>33, Zenon DEF UnregisterCtx, Goto
<1>34. ASSUME NEW t \in Threads, RegistryStop(t) PROVE TypeOK'
  BY <1>34, Zenon DEF RegistryStop, Goto
<1>35. ASSUME NEW t \in Threads, UnregisterPublish(t) PROVE TypeOK'
  BY <1>35 DEF UnregisterPublish, Return, Goto, Frame
<1>36. ASSUME NEW t \in Threads, CancelCtx(t) PROVE TypeOK'
  BY <1>36 DEF CancelCtx
<1>37. ASSUME NEW t \in Threads, RegistrarAccepts(t) PROVE TypeOK'
  BY <1>37, Zenon DEF RegistrarAccepts, Goto
<1>38. CASE UNCHANGED vars
  BY <1>38 DEF vars
<1> QED
  BY <1>1, <1>2, <1>3, <1>4, <1>5, <1>6, <1>7, <1>8, <1>9, <1>10, <1>11,
     <1>12, <1>13, <1>14, <1>15, <1>16, <1>17, <1>18, <1>19, <1>20, <1>21,
     <1>22, <1>23, <1>24, <1>25, <1>26, <1>27, <1>28, <1>29, <1>30, <1>31,
     <1>32, <1>33, <1>34, <1>35, <1>36, <1>37, <1>38, Zenon
     DEF Next, Enter, Step, PrepareTransport, RunRegistration

\* The step a goroutine is at tells which operation it is in.
LEMMA OpOfStep ==
  ASSUME TypeOK, Shape, NEW t \in Threads
  PROVE  /\ pc[t] \in Setup => op[t] \in Attempts
         /\ pc[t] = "prepPublish" => op[t] = "Prepare"
         /\ pc[t] \in Registration \cup Services \cup {"connTeardown"} =>
              op[t] \in {"Register", "Connect"}
         /\ pc[t] \in Unreg => op[t] = "Unregister"
BY DEF TypeOK, Shape, AllOps, Attempts, Setup, Registration, Services, Unreg, Disc

\* An attempt that owns the current generation is the only one.
LEMMA OwnerUnique ==
  ASSUME Generations, NEW t \in Threads, op[t] \in Attempts, myGen[t] = gen
  PROVE  \A s \in Threads : s # t /\ op[s] \in Attempts => myGen[s] # gen
BY DEF Generations

\* Every step leaves each call at a step of its own operation.
LEMMA ShapeStep ==
  ASSUME TypeOK, Shape, [Next]_vars PROVE Shape'
<1>0. /\ pc \in [Threads -> PC] /\ op \in [Threads -> AllOps \cup {"none"}]
      /\ myGen \in [Threads -> Nat] /\ myTr \in [Threads -> Nat]
      /\ gen \in Nat
  BY DEF TypeOK
<1> USE <1>0 DEF Shape, Setup, Registration, Services, Unreg, Disc, phone,
   conns, regs, locals
<1>1. ASSUME NEW t \in Threads, PrepareBegin(t) PROVE Shape'
  BY <1>1 DEF PrepareBegin, Calls, Begin, Goto, Frame
<1>2. ASSUME NEW t \in Threads, ConnectBegin(t) PROVE Shape'
  BY <1>2 DEF ConnectBegin, SetupBegin, Calls, Begin, Goto, Frame
<1>3. ASSUME NEW t \in Threads, RegisterBegin(t) PROVE Shape'
  BY <1>3 DEF RegisterBegin, SetupBegin, Calls, Begin, Goto, Frame
<1>4. ASSUME NEW t \in Threads, RegisterAgain(t) PROVE Shape'
  BY <1>4 DEF RegisterAgain, Calls, Begin, Goto, Frame
<1>5. ASSUME NEW t \in Threads, UnregisterBegin(t) PROVE Shape'
  BY <1>5 DEF UnregisterBegin, Calls, Goto, Frame
<1>6. ASSUME NEW t \in Threads, DisconnectBegin(t) PROVE Shape'
  BY <1>6 DEF DisconnectBegin, Calls, Goto, Frame
<1>7. ASSUME NEW t \in Threads, DisconnectPrepare(t) PROVE Shape'
  BY <1>7 DEF DisconnectPrepare, Calls, Goto, Frame
<1>8. ASSUME NEW t \in Threads, PostStun(t) PROVE Shape'
  BY <1>8 DEF PostStun, Goto
<1>9. ASSUME NEW t \in Threads, BuildOK(t) PROVE Shape'
  BY <1>9 DEF BuildOK, Goto
<1>10. ASSUME NEW t \in Threads, BuildFails(t) PROVE Shape'
  BY <1>10 DEF BuildFails, Goto
<1>11. ASSUME NEW t \in Threads, Attach(t) PROVE Shape'
  BY <1>11 DEF Attach, Goto, StillValid
<1>12. ASSUME NEW t \in Threads, AttachStale(t) PROVE Shape'
  BY <1>12 DEF AttachStale, Goto
<1>13. ASSUME NEW t \in Threads, RegStart(t) PROVE Shape'
  BY <1>13 DEF RegStart, Goto
<1>14. ASSUME NEW t \in Threads, RegStartStale(t) PROVE Shape'
  BY <1>14 DEF RegStartStale, Return, Goto, Frame
<1>15. ASSUME NEW t \in Threads, RegBegin(t) PROVE Shape'
  BY <1>15 DEF RegBegin, Goto
<1>16. ASSUME NEW t \in Threads, RegOK(t) PROVE Shape'
  BY <1>16 DEF RegOK, Goto
<1>17. ASSUME NEW t \in Threads, RegFails(t) PROVE Shape'
  BY <1>17 DEF RegFails, Goto
<1>18. ASSUME NEW t \in Threads, RegStale(t) PROVE Shape'
  BY <1>18 DEF RegStale, RegReturn, Return, Goto, Frame
<1>19. ASSUME NEW t \in Threads, RegPublish(t) PROVE Shape'
  BY <1>19 DEF RegPublish, Goto
<1>20. ASSUME NEW t \in Threads, RegPublishFailed(t) PROVE Shape'
  BY <1>20 DEF RegPublishFailed, RegReturn, Return, Goto, Frame
<1>21. ASSUME NEW t \in Threads, MWIStart(t) PROVE Shape'
  BY <1>21 DEF MWIStart, ServiceStart, Goto
<1>22. ASSUME NEW t \in Threads, MWIStore(t) PROVE Shape'
  BY <1>22 DEF MWIStore, Goto
<1>23. ASSUME NEW t \in Threads, SubStart(t) PROVE Shape'
  BY <1>23 DEF SubStart, ServiceStart, Goto
<1>24. ASSUME NEW t \in Threads, SubStore(t) PROVE Shape'
  BY <1>24 DEF SubStore, Return, Goto, Frame
<1>25. ASSUME NEW t \in Threads, PrepareSuperseded(t) PROVE Shape'
  BY <1>25 DEF PrepareSuperseded, Return, Goto, Frame
<1>26. ASSUME NEW t \in Threads, PreparePublish(t) PROVE Shape'
  BY <1>26 DEF PreparePublish, Return, Goto, Frame
<1>27. ASSUME NEW t \in Threads, PrepareFails(t) PROVE Shape'
  BY <1>27 DEF PrepareFails, Return, Goto, Frame
<1>28. ASSUME NEW t \in Threads, TeardownAfterPrepareError(t) PROVE Shape'
  BY <1>28 DEF TeardownAfterPrepareError, Return, Goto, Frame
<1>29. ASSUME NEW t \in Threads, ConnTeardown(t) PROVE Shape'
  BY <1>29 DEF ConnTeardown, Goto
<1>30. ASSUME NEW t \in Threads, ConnTeardownStale(t) PROVE Shape'
  BY <1>30 DEF ConnTeardownStale, Return, Goto, Frame
<1>31. ASSUME NEW t \in Threads, CloseTransport(t) PROVE Shape'
  BY <1>31 DEF CloseTransport, Return, Goto, Frame
<1>32. ASSUME NEW t \in Threads, StopServices(t) PROVE Shape'
  BY <1>32 DEF StopServices, Goto
<1>33. ASSUME NEW t \in Threads, UnregisterCtx(t) PROVE Shape'
  BY <1>33 DEF UnregisterCtx, Goto
<1>34. ASSUME NEW t \in Threads, RegistryStop(t) PROVE Shape'
  BY <1>34 DEF RegistryStop, Goto
<1>35. ASSUME NEW t \in Threads, UnregisterPublish(t) PROVE Shape'
  BY <1>35 DEF UnregisterPublish, Return, Goto, Frame
<1>36. ASSUME NEW t \in Threads, CancelCtx(t) PROVE Shape'
  BY <1>36 DEF CancelCtx
<1>37. ASSUME NEW t \in Threads, RegistrarAccepts(t) PROVE Shape'
  BY <1>37 DEF RegistrarAccepts, Goto
<1>38. CASE UNCHANGED vars
  BY <1>38 DEF vars
<1> QED
  BY <1>1, <1>2, <1>3, <1>4, <1>5, <1>6, <1>7, <1>8, <1>9, <1>10, <1>11,
     <1>12, <1>13, <1>14, <1>15, <1>16, <1>17, <1>18, <1>19, <1>20, <1>21,
     <1>22, <1>23, <1>24, <1>25, <1>26, <1>27, <1>28, <1>29, <1>30, <1>31,
     <1>32, <1>33, <1>34, <1>35, <1>36, <1>37, <1>38, Zenon
   DEF Next, Enter, Step, PrepareTransport, RunRegistration

\* A new attempt takes a generation that no attempt in flight has.
LEMMA GenerationsStep ==
  ASSUME TypeOK, Shape, Generations, [Next]_vars PROVE Generations'
<1>0. /\ pc \in [Threads -> PC] /\ op \in [Threads -> AllOps \cup {"none"}]
      /\ myGen \in [Threads -> Nat] /\ myTr \in [Threads -> Nat]
      /\ gen \in Nat
  BY DEF TypeOK
<1> USE <1>0 DEF Generations, Attempts, phone, conns, regs, locals
<1>1. ASSUME NEW t \in Threads, PrepareBegin(t) PROVE Generations'
  BY <1>1 DEF PrepareBegin, Calls, Begin, Goto, Frame
<1>2. ASSUME NEW t \in Threads, ConnectBegin(t) PROVE Generations'
  BY <1>2 DEF ConnectBegin, SetupBegin, Calls, Begin, Goto, Frame
<1>3. ASSUME NEW t \in Threads, RegisterBegin(t) PROVE Generations'
  BY <1>3 DEF RegisterBegin, SetupBegin, Calls, Begin, Goto, Frame
<1>4. ASSUME NEW t \in Threads, RegisterAgain(t) PROVE Generations'
  BY <1>4 DEF RegisterAgain, Calls, Begin, Goto, Frame
<1>5. ASSUME NEW t \in Threads, UnregisterBegin(t) PROVE Generations'
  BY <1>5 DEF UnregisterBegin, Calls, Goto, Frame
<1>6. ASSUME NEW t \in Threads, DisconnectBegin(t) PROVE Generations'
  BY <1>6 DEF DisconnectBegin, Calls, Goto, Frame
<1>7. ASSUME NEW t \in Threads, DisconnectPrepare(t) PROVE Generations'
  BY <1>7 DEF DisconnectPrepare, Calls, Goto, Frame
<1>8. ASSUME NEW t \in Threads, PostStun(t) PROVE Generations'
  BY <1>8 DEF PostStun, Goto
<1>9. ASSUME NEW t \in Threads, BuildOK(t) PROVE Generations'
  BY <1>9 DEF BuildOK, Goto
<1>10. ASSUME NEW t \in Threads, BuildFails(t) PROVE Generations'
  BY <1>10 DEF BuildFails, Goto
<1>11. ASSUME NEW t \in Threads, Attach(t) PROVE Generations'
  BY <1>11 DEF Attach, Goto, StillValid
<1>12. ASSUME NEW t \in Threads, AttachStale(t) PROVE Generations'
  BY <1>12 DEF AttachStale, Goto
<1>13. ASSUME NEW t \in Threads, RegStart(t) PROVE Generations'
  BY <1>13 DEF RegStart, Goto
<1>14. ASSUME NEW t \in Threads, RegStartStale(t) PROVE Generations'
  BY <1>14 DEF RegStartStale, Return, Goto, Frame
<1>15. ASSUME NEW t \in Threads, RegBegin(t) PROVE Generations'
  BY <1>15 DEF RegBegin, Goto
<1>16. ASSUME NEW t \in Threads, RegOK(t) PROVE Generations'
  BY <1>16 DEF RegOK, Goto
<1>17. ASSUME NEW t \in Threads, RegFails(t) PROVE Generations'
  BY <1>17 DEF RegFails, Goto
<1>18. ASSUME NEW t \in Threads, RegStale(t) PROVE Generations'
  BY <1>18 DEF RegStale, RegReturn, Return, Goto, Frame
<1>19. ASSUME NEW t \in Threads, RegPublish(t) PROVE Generations'
  BY <1>19 DEF RegPublish, Goto
<1>20. ASSUME NEW t \in Threads, RegPublishFailed(t) PROVE Generations'
  BY <1>20 DEF RegPublishFailed, RegReturn, Return, Goto, Frame
<1>21. ASSUME NEW t \in Threads, MWIStart(t) PROVE Generations'
  BY <1>21 DEF MWIStart, ServiceStart, Goto
<1>22. ASSUME NEW t \in Threads, MWIStore(t) PROVE Generations'
  BY <1>22 DEF MWIStore, Goto
<1>23. ASSUME NEW t \in Threads, SubStart(t) PROVE Generations'
  BY <1>23 DEF SubStart, ServiceStart, Goto
<1>24. ASSUME NEW t \in Threads, SubStore(t) PROVE Generations'
  BY <1>24 DEF SubStore, Return, Goto, Frame
<1>25. ASSUME NEW t \in Threads, PrepareSuperseded(t) PROVE Generations'
  BY <1>25 DEF PrepareSuperseded, Return, Goto, Frame
<1>26. ASSUME NEW t \in Threads, PreparePublish(t) PROVE Generations'
  BY <1>26 DEF PreparePublish, Return, Goto, Frame
<1>27. ASSUME NEW t \in Threads, PrepareFails(t) PROVE Generations'
  BY <1>27 DEF PrepareFails, Return, Goto, Frame
<1>28. ASSUME NEW t \in Threads, TeardownAfterPrepareError(t) PROVE Generations'
  BY <1>28 DEF TeardownAfterPrepareError, Return, Goto, Frame
<1>29. ASSUME NEW t \in Threads, ConnTeardown(t) PROVE Generations'
  BY <1>29 DEF ConnTeardown, Goto
<1>30. ASSUME NEW t \in Threads, ConnTeardownStale(t) PROVE Generations'
  BY <1>30 DEF ConnTeardownStale, Return, Goto, Frame
<1>31. ASSUME NEW t \in Threads, CloseTransport(t) PROVE Generations'
  BY <1>31 DEF CloseTransport, Return, Goto, Frame
<1>32. ASSUME NEW t \in Threads, StopServices(t) PROVE Generations'
  BY <1>32 DEF StopServices, Goto
<1>33. ASSUME NEW t \in Threads, UnregisterCtx(t) PROVE Generations'
  BY <1>33 DEF UnregisterCtx, Goto
<1>34. ASSUME NEW t \in Threads, RegistryStop(t) PROVE Generations'
  BY <1>34 DEF RegistryStop, Goto
<1>35. ASSUME NEW t \in Threads, UnregisterPublish(t) PROVE Generations'
  BY <1>35 DEF UnregisterPublish, Return, Goto, Frame
<1>36. ASSUME NEW t \in Threads, CancelCtx(t) PROVE Generations'
  BY <1>36 DEF CancelCtx
<1>37. ASSUME NEW t \in Threads, RegistrarAccepts(t) PROVE Generations'
  BY <1>37 DEF RegistrarAccepts, Goto
<1>38. CASE UNCHANGED vars
  BY <1>38 DEF vars
<1> QED
  BY <1>1, <1>2, <1>3, <1>4, <1>5, <1>6, <1>7, <1>8, <1>9, <1>10, <1>11,
     <1>12, <1>13, <1>14, <1>15, <1>16, <1>17, <1>18, <1>19, <1>20, <1>21,
     <1>22, <1>23, <1>24, <1>25, <1>26, <1>27, <1>28, <1>29, <1>30, <1>31,
     <1>32, <1>33, <1>34, <1>35, <1>36, <1>37, <1>38, Zenon
   DEF Next, Enter, Step, PrepareTransport, RunRegistration

\* No step closes an attached transport, or puts one in two places.
LEMMA TransportsStep ==
  ASSUME TypeOK, Shape, Generations, Transports, [Next]_vars PROVE Transports'
<1>0. /\ pc \in [Threads -> PC] /\ op \in [Threads -> AllOps \cup {"none"}]
      /\ myGen \in [Threads -> Nat] /\ myTr \in [Threads -> Nat]
      /\ gen \in Nat
  BY DEF TypeOK
<1> USE <1>0 DEF Shape, Generations, Transports, Open, Attempts, Setup,
   Registration, Services, Unreg, Disc, phone, conns, regs, locals
<1>1. ASSUME NEW t \in Threads, PrepareBegin(t) PROVE Transports'
  BY <1>1 DEF PrepareBegin, Calls, Begin, Goto, Frame
<1>2. ASSUME NEW t \in Threads, ConnectBegin(t) PROVE Transports'
  BY <1>2 DEF ConnectBegin, SetupBegin, Calls, Begin, Goto, Frame
<1>3. ASSUME NEW t \in Threads, RegisterBegin(t) PROVE Transports'
  BY <1>3 DEF RegisterBegin, SetupBegin, Calls, Begin, Goto, Frame
<1>4. ASSUME NEW t \in Threads, RegisterAgain(t) PROVE Transports'
  BY <1>4 DEF RegisterAgain, Calls, Begin, Goto, Frame
<1>5. ASSUME NEW t \in Threads, UnregisterBegin(t) PROVE Transports'
  BY <1>5 DEF UnregisterBegin, Calls, Goto, Frame
<1>6. ASSUME NEW t \in Threads, DisconnectBegin(t) PROVE Transports'
  BY <1>6 DEF DisconnectBegin, Calls, Goto, Frame
<1>7. ASSUME NEW t \in Threads, DisconnectPrepare(t) PROVE Transports'
  BY <1>7 DEF DisconnectPrepare, Calls, Goto, Frame
<1>8. ASSUME NEW t \in Threads, PostStun(t) PROVE Transports'
  BY <1>8 DEF PostStun, Goto
<1>9. ASSUME NEW t \in Threads, BuildOK(t) PROVE Transports'
  <2>1. op[t] \in Attempts /\ myGen[t] \in 1..gen /\ myGen[t] \notin opened
    BY <1>9, OpOfStep DEF BuildOK
  <2>2. \A s \in Threads : s # t /\ pc[s] \in {"stun", "build"} => myGen[s] # myGen[t]
    BY <2>1, OpOfStep
  <2>3. myGen[t] # tr /\ \A s \in Threads : myTr[s] # myGen[t]
    BY <2>1
  <2> QED
    BY <1>9, <2>1, <2>2, <2>3, Zenon DEF BuildOK, Goto
<1>10. ASSUME NEW t \in Threads, BuildFails(t) PROVE Transports'
  BY <1>10 DEF BuildFails, Goto
<1>11. ASSUME NEW t \in Threads, Attach(t) PROVE Transports'
  BY <1>11 DEF Attach, Goto, StillValid
<1>12. ASSUME NEW t \in Threads, AttachStale(t) PROVE Transports'
  <2>1. myTr[t] # 0 /\ myTr[t] \in opened /\ myTr[t] # tr
    BY <1>12 DEF AttachStale
  <2>2. \A s \in Threads : s # t => myTr[s] # myTr[t]
    BY <2>1
  <2> QED
    BY <1>12, <2>1, <2>2, Zenon DEF AttachStale, Goto
<1>13. ASSUME NEW t \in Threads, RegStart(t) PROVE Transports'
  BY <1>13 DEF RegStart, Goto
<1>14. ASSUME NEW t \in Threads, RegStartStale(t) PROVE Transports'
  BY <1>14 DEF RegStartStale, Return, Goto, Frame
<1>15. ASSUME NEW t \in Threads, RegBegin(t) PROVE Transports'
  BY <1>15 DEF RegBegin, Goto
<1>16. ASSUME NEW t \in Threads, RegOK(t) PROVE Transports'
  BY <1>16 DEF RegOK, Goto
<1>17. ASSUME NEW t \in Threads, RegFails(t) PROVE Transports'
  BY <1>17 DEF RegFails, Goto
<1>18. ASSUME NEW t \in Threads, RegStale(t) PROVE Transports'
  BY <1>18 DEF RegStale, RegReturn, Return, Goto, Frame
<1>19. ASSUME NEW t \in Threads, RegPublish(t) PROVE Transports'
  BY <1>19 DEF RegPublish, Goto
<1>20. ASSUME NEW t \in Threads, RegPublishFailed(t) PROVE Transports'
  BY <1>20 DEF RegPublishFailed, RegReturn, Return, Goto, Frame
<1>21. ASSUME NEW t \in Threads, MWIStart(t) PROVE Transports'
  BY <1>21 DEF MWIStart, ServiceStart, Goto
<1>22. ASSUME NEW t \in Threads, MWIStore(t) PROVE Transports'
  BY <1>22 DEF MWIStore, Goto
<1>23. ASSUME NEW t \in Threads, SubStart(t) PROVE Transports'
  BY <1>23 DEF SubStart, ServiceStart, Goto
<1>24. ASSUME NEW t \in Threads, SubStore(t) PROVE Transports'
  BY <1>24 DEF SubStore, Return, Goto, Frame
<1>25. ASSUME NEW t \in Threads, PrepareSuperseded(t) PROVE Transports'
  BY <1>25 DEF PrepareSuperseded, Return, Goto, Frame
<1>26. ASSUME NEW t \in Threads, PreparePublish(t) PROVE Transports'
  BY <1>26 DEF PreparePublish, Return, Goto, Frame
<1>27. ASSUME NEW t \in Threads, PrepareFails(t) PROVE Transports'
  BY <1>27 DEF PrepareFails, Return, Goto, Frame
<1>28. ASSUME NEW t \in Threads, TeardownAfterPrepareError(t) PROVE Transports'
  BY <1>28 DEF TeardownAfterPrepareError, Return, Goto, Frame
<1>29. ASSUME NEW t \in Threads, ConnTeardown(t) PROVE Transports'
  BY <1>29 DEF ConnTeardown, Goto
<1>30. ASSUME NEW t \in Threads, ConnTeardownStale(t) PROVE Transports'
  BY <1>30 DEF ConnTeardownStale, Return, Goto, Frame
<1>31. ASSUME NEW t \in Threads, CloseTransport(t) PROVE Transports'
  <2>1. closed' \subseteq opened /\ (tr # 0 => tr \notin closed')
    BY <1>31, Zenon DEF CloseTransport
  <2>2. \A s \in Threads : s # t /\ pc[s] = "attach" => myTr[s] \notin closed'
    BY <1>31 DEF CloseTransport
  <2> QED
    BY <1>31, <2>1, <2>2 DEF CloseTransport, Return, Goto, Frame
<1>32. ASSUME NEW t \in Threads, StopServices(t) PROVE Transports'
  BY <1>32 DEF StopServices, Goto
<1>33. ASSUME NEW t \in Threads, UnregisterCtx(t) PROVE Transports'
  BY <1>33 DEF UnregisterCtx, Goto
<1>34. ASSUME NEW t \in Threads, RegistryStop(t) PROVE Transports'
  BY <1>34 DEF RegistryStop, Goto
<1>35. ASSUME NEW t \in Threads, UnregisterPublish(t) PROVE Transports'
  BY <1>35 DEF UnregisterPublish, Return, Goto, Frame
<1>36. ASSUME NEW t \in Threads, CancelCtx(t) PROVE Transports'
  BY <1>36 DEF CancelCtx
<1>37. ASSUME NEW t \in Threads, RegistrarAccepts(t) PROVE Transports'
  BY <1>37 DEF RegistrarAccepts, Goto
<1>38. CASE UNCHANGED vars
  BY <1>38 DEF vars
<1> QED
  BY <1>1, <1>2, <1>3, <1>4, <1>5, <1>6, <1>7, <1>8, <1>9, <1>10, <1>11,
     <1>12, <1>13, <1>14, <1>15, <1>16, <1>17, <1>18, <1>19, <1>20, <1>21,
     <1>22, <1>23, <1>24, <1>25, <1>26, <1>27, <1>28, <1>29, <1>30, <1>31,
     <1>32, <1>33, <1>34, <1>35, <1>36, <1>37, <1>38, Zenon
   DEF Next, Enter, Step, PrepareTransport, RunRegistration

\* The attempt of the current generation keeps its hold on the phone.
LEMMA OwnerStep ==
  ASSUME TypeOK, Shape, Generations, Transports, Owner, ReadyAttached, [Next]_vars PROVE Owner'
<1>0. /\ pc \in [Threads -> PC] /\ op \in [Threads -> AllOps \cup {"none"}]
      /\ myGen \in [Threads -> Nat] /\ myTr \in [Threads -> Nat]
      /\ gen \in Nat
  BY DEF TypeOK
<1> USE <1>0 DEF Shape, Generations, Owner, ReadyAttached, Attached, Ready,
   Attempts, Setup, Registration, Services, Unreg, Disc, phone, conns, regs,
   locals
<1>1. ASSUME NEW t \in Threads, PrepareBegin(t) PROVE Owner'
  BY <1>1 DEF PrepareBegin, Calls, Begin, Goto, Frame
<1>2. ASSUME NEW t \in Threads, ConnectBegin(t) PROVE Owner'
  BY <1>2 DEF ConnectBegin, SetupBegin, Calls, Begin, Goto, Frame
<1>3. ASSUME NEW t \in Threads, RegisterBegin(t) PROVE Owner'
  BY <1>3 DEF RegisterBegin, SetupBegin, Calls, Begin, Goto, Frame
<1>4. ASSUME NEW t \in Threads, RegisterAgain(t) PROVE Owner'
  <2>1. \A s \in Threads : s # t /\ op'[s] \in Attempts => myGen'[s] # gen'
    BY <1>4 DEF RegisterAgain, Begin, Frame
  <2>2. reg' # NoReg /\ reg'.tr = tr
    BY <1>4 DEF RegisterAgain, NoReg
  <2> QED
    BY <1>4, <2>1, <2>2 DEF RegisterAgain, Begin, Goto, Frame
<1>5. ASSUME NEW t \in Threads, UnregisterBegin(t) PROVE Owner'
  BY <1>5 DEF UnregisterBegin, Calls, Goto, Frame
<1>6. ASSUME NEW t \in Threads, DisconnectBegin(t) PROVE Owner'
  BY <1>6 DEF DisconnectBegin, Calls, Goto, Frame
<1>7. ASSUME NEW t \in Threads, DisconnectPrepare(t) PROVE Owner'
  BY <1>7 DEF DisconnectPrepare, Calls, Goto, Frame
<1>8. ASSUME NEW t \in Threads, PostStun(t) PROVE Owner'
  BY <1>8 DEF PostStun, Goto
<1>9. ASSUME NEW t \in Threads, BuildOK(t) PROVE Owner'
  BY <1>9 DEF BuildOK, Goto
<1>10. ASSUME NEW t \in Threads, BuildFails(t) PROVE Owner'
  BY <1>10 DEF BuildFails, Goto
<1>11. ASSUME NEW t \in Threads, Attach(t) PROVE Owner'
  <2>1. \A s \in Threads : s # t /\ op[s] \in Attempts => myGen[s] # gen
    BY <1>11, OpOfStep, OwnerUnique DEF Attach, StillValid
  <2>2. myTr[t] # 0 /\ myGen[t] # 0
    BY <1>11 DEF Attach, Transports, Open
  <2>3. Attached'
    BY <1>11, <2>2 DEF Attach, NoReg
  <2>4. /\ pc'[t] = IF op[t] = "Prepare" THEN "prepPublish" ELSE "regStart"
        /\ \A s \in Threads : s # t => pc'[s] = pc[s]
    BY <1>11 DEF Attach, Goto
  <2>5. UNCHANGED <<state, preparing, gen, op, myGen>>
    BY <1>11 DEF Attach
  <2>6. op[t] = "Prepare" => state = "Disconnected" /\ preparing
    BY <1>11 DEF Attach, StillValid
  <2>7. op[t] # "Prepare" => state = "Registering"
    BY <1>11 DEF Attach, StillValid
  <2> QED
    BY <2>1, <2>3, <2>4, <2>5, <2>6, <2>7
<1>12. ASSUME NEW t \in Threads, AttachStale(t) PROVE Owner'
  BY <1>12 DEF AttachStale, Goto
<1>13. ASSUME NEW t \in Threads, RegStart(t) PROVE Owner'
  BY <1>13 DEF RegStart, Goto
<1>14. ASSUME NEW t \in Threads, RegStartStale(t) PROVE Owner'
  BY <1>14 DEF RegStartStale, Return, Goto, Frame
<1>15. ASSUME NEW t \in Threads, RegBegin(t) PROVE Owner'
  BY <1>15 DEF RegBegin, Goto
<1>16. ASSUME NEW t \in Threads, RegOK(t) PROVE Owner'
  BY <1>16 DEF RegOK, Goto
<1>17. ASSUME NEW t \in Threads, RegFails(t) PROVE Owner'
  BY <1>17 DEF RegFails, Goto
<1>18. ASSUME NEW t \in Threads, RegStale(t) PROVE Owner'
  BY <1>18 DEF RegStale, RegReturn, Return, Goto, Frame
<1>19. ASSUME NEW t \in Threads, RegPublish(t) PROVE Owner'
  <2>1. \A s \in Threads : s # t /\ op[s] \in Attempts => myGen[s] # gen
    BY <1>19, OpOfStep, OwnerUnique DEF RegPublish, Goto
  <2> QED
    BY <1>19, <2>1 DEF RegPublish, Goto
<1>20. ASSUME NEW t \in Threads, RegPublishFailed(t) PROVE Owner'
  <2>1. \A s \in Threads : s # t /\ op[s] \in Attempts => myGen[s] # gen
    BY <1>20, OpOfStep, OwnerUnique DEF RegPublishFailed, RegReturn,
       Return, Goto, Frame
  <2> QED
    BY <1>20, <2>1 DEF RegPublishFailed, RegReturn, Return, Goto, Frame
<1>21. ASSUME NEW t \in Threads, MWIStart(t) PROVE Owner'
  BY <1>21 DEF MWIStart, ServiceStart, Goto
<1>22. ASSUME NEW t \in Threads, MWIStore(t) PROVE Owner'
  BY <1>22 DEF MWIStore, Goto
<1>23. ASSUME NEW t \in Threads, SubStart(t) PROVE Owner'
  BY <1>23 DEF SubStart, ServiceStart, Goto
<1>24. ASSUME NEW t \in Threads, SubStore(t) PROVE Owner'
  BY <1>24 DEF SubStore, Return, Goto, Frame
<1>25. ASSUME NEW t \in Threads, PrepareSuperseded(t) PROVE Owner'
  BY <1>25 DEF PrepareSuperseded, Return, Goto, Frame
<1>26. ASSUME NEW t \in Threads, PreparePublish(t) PROVE Owner'
  <2>1. \A s \in Threads : s # t /\ op[s] \in Attempts => myGen[s] # gen
    BY <1>26, OpOfStep, OwnerUnique DEF PreparePublish, Return, Goto, Frame
  <2> QED
    BY <1>26, <2>1 DEF PreparePublish, Return, Goto, Frame
<1>27. ASSUME NEW t \in Threads, PrepareFails(t) PROVE Owner'
  BY <1>27 DEF PrepareFails, Return, Goto, Frame
<1>28. ASSUME NEW t \in Threads, TeardownAfterPrepareError(t) PROVE Owner'
  BY <1>28 DEF TeardownAfterPrepareError, Return, Goto, Frame
<1>29. ASSUME NEW t \in Threads, ConnTeardown(t) PROVE Owner'
  <2>1. \A s \in Threads : s # t /\ op[s] \in Attempts => myGen[s] # gen
    BY <1>29, OpOfStep, OwnerUnique DEF ConnTeardown, Goto
  <2> QED
    BY <1>29, <2>1 DEF ConnTeardown, Goto
<1>30. ASSUME NEW t \in Threads, ConnTeardownStale(t) PROVE Owner'
  BY <1>30 DEF ConnTeardownStale, Return, Goto, Frame
<1>31. ASSUME NEW t \in Threads, CloseTransport(t) PROVE Owner'
  BY <1>31 DEF CloseTransport, Return, Goto, Frame
<1>32. ASSUME NEW t \in Threads, StopServices(t) PROVE Owner'
  BY <1>32 DEF StopServices, Goto
<1>33. ASSUME NEW t \in Threads, UnregisterCtx(t) PROVE Owner'
  BY <1>33 DEF UnregisterCtx, Goto
<1>34. ASSUME NEW t \in Threads, RegistryStop(t) PROVE Owner'
  BY <1>34 DEF RegistryStop, Goto
<1>35. ASSUME NEW t \in Threads, UnregisterPublish(t) PROVE Owner'
  BY <1>35 DEF UnregisterPublish, Return, Goto, Frame
<1>36. ASSUME NEW t \in Threads, CancelCtx(t) PROVE Owner'
  BY <1>36 DEF CancelCtx
<1>37. ASSUME NEW t \in Threads, RegistrarAccepts(t) PROVE Owner'
  BY <1>37 DEF RegistrarAccepts, Goto
<1>38. CASE UNCHANGED vars
  BY <1>38 DEF vars
<1> QED
  BY <1>1, <1>2, <1>3, <1>4, <1>5, <1>6, <1>7, <1>8, <1>9, <1>10, <1>11,
     <1>12, <1>13, <1>14, <1>15, <1>16, <1>17, <1>18, <1>19, <1>20, <1>21,
     <1>22, <1>23, <1>24, <1>25, <1>26, <1>27, <1>28, <1>29, <1>30, <1>31,
     <1>32, <1>33, <1>34, <1>35, <1>36, <1>37, <1>38, Zenon
   DEF Next, Enter, Step, PrepareTransport, RunRegistration

\* A phone that becomes ready has its transport attached.
LEMMA ReadyStep ==
  ASSUME TypeOK, Shape, Generations, Transports, Owner, ReadyAttached, [Next]_vars PROVE ReadyAttached'
<1>0. /\ pc \in [Threads -> PC] /\ op \in [Threads -> AllOps \cup {"none"}]
      /\ myGen \in [Threads -> Nat] /\ myTr \in [Threads -> Nat]
      /\ gen \in Nat
  BY DEF TypeOK
<1> USE <1>0 DEF Shape, Generations, Owner, ReadyAttached, Attached, Ready,
   Attempts, Setup, Registration, Services, Unreg, Disc, phone, conns, regs,
   locals
<1>1. ASSUME NEW t \in Threads, PrepareBegin(t) PROVE ReadyAttached'
  BY <1>1 DEF PrepareBegin, Calls, Begin, Goto, Frame
<1>2. ASSUME NEW t \in Threads, ConnectBegin(t) PROVE ReadyAttached'
  BY <1>2 DEF ConnectBegin, SetupBegin, Calls, Begin, Goto, Frame
<1>3. ASSUME NEW t \in Threads, RegisterBegin(t) PROVE ReadyAttached'
  BY <1>3 DEF RegisterBegin, SetupBegin, Calls, Begin, Goto, Frame
<1>4. ASSUME NEW t \in Threads, RegisterAgain(t) PROVE ReadyAttached'
  BY <1>4 DEF RegisterAgain, Calls, Begin, Goto, Frame
<1>5. ASSUME NEW t \in Threads, UnregisterBegin(t) PROVE ReadyAttached'
  BY <1>5 DEF UnregisterBegin, Calls, Goto, Frame
<1>6. ASSUME NEW t \in Threads, DisconnectBegin(t) PROVE ReadyAttached'
  BY <1>6 DEF DisconnectBegin, Calls, Goto, Frame
<1>7. ASSUME NEW t \in Threads, DisconnectPrepare(t) PROVE ReadyAttached'
  BY <1>7 DEF DisconnectPrepare, Calls, Goto, Frame
<1>8. ASSUME NEW t \in Threads, PostStun(t) PROVE ReadyAttached'
  BY <1>8 DEF PostStun, Goto
<1>9. ASSUME NEW t \in Threads, BuildOK(t) PROVE ReadyAttached'
  BY <1>9 DEF BuildOK, Goto
<1>10. ASSUME NEW t \in Threads, BuildFails(t) PROVE ReadyAttached'
  BY <1>10 DEF BuildFails, Goto
<1>11. ASSUME NEW t \in Threads, Attach(t) PROVE ReadyAttached'
  BY <1>11 DEF Attach, Goto, StillValid
<1>12. ASSUME NEW t \in Threads, AttachStale(t) PROVE ReadyAttached'
  BY <1>12 DEF AttachStale, Goto
<1>13. ASSUME NEW t \in Threads, RegStart(t) PROVE ReadyAttached'
  BY <1>13 DEF RegStart, Goto
<1>14. ASSUME NEW t \in Threads, RegStartStale(t) PROVE ReadyAttached'
  BY <1>14 DEF RegStartStale, Return, Goto, Frame
<1>15. ASSUME NEW t \in Threads, RegBegin(t) PROVE ReadyAttached'
  BY <1>15 DEF RegBegin, Goto
<1>16. ASSUME NEW t \in Threads, RegOK(t) PROVE ReadyAttached'
  BY <1>16 DEF RegOK, Goto
<1>17. ASSUME NEW t \in Threads, RegFails(t) PROVE ReadyAttached'
  BY <1>17 DEF RegFails, Goto
<1>18. ASSUME NEW t \in Threads, RegStale(t) PROVE ReadyAttached'
  BY <1>18 DEF RegStale, RegReturn, Return, Goto, Frame
<1>19. ASSUME NEW t \in Threads, RegPublish(t) PROVE ReadyAttached'
  <2>1. Attached
    BY <1>19, OpOfStep DEF RegPublish, Goto
  <2> QED
    BY <1>19, <2>1 DEF RegPublish, Goto
<1>20. ASSUME NEW t \in Threads, RegPublishFailed(t) PROVE ReadyAttached'
  <2>1. Attached
    BY <1>20, OpOfStep DEF RegPublishFailed, RegReturn, Return, Goto, Frame
  <2> QED
    BY <1>20, <2>1 DEF RegPublishFailed, RegReturn, Return, Goto, Frame
<1>21. ASSUME NEW t \in Threads, MWIStart(t) PROVE ReadyAttached'
  BY <1>21 DEF MWIStart, ServiceStart, Goto
<1>22. ASSUME NEW t \in Threads, MWIStore(t) PROVE ReadyAttached'
  BY <1>22 DEF MWIStore, Goto
<1>23. ASSUME NEW t \in Threads, SubStart(t) PROVE ReadyAttached'
  BY <1>23 DEF SubStart, ServiceStart, Goto
<1>24. ASSUME NEW t \in Threads, SubStore(t) PROVE ReadyAttached'
  BY <1>24 DEF SubStore, Return, Goto, Frame
<1>25. ASSUME NEW t \in Threads, PrepareSuperseded(t) PROVE ReadyAttached'
  BY <1>25 DEF PrepareSuperseded, Return, Goto, Frame
<1>26. ASSUME NEW t \in Threads, PreparePublish(t) PROVE ReadyAttached'
  <2>1. Attached
    BY <1>26, OpOfStep DEF PreparePublish, Return, Goto, Frame
  <2> QED
    BY <1>26, <2>1 DEF PreparePublish, Return, Goto, Frame
<1>27. ASSUME NEW t \in Threads, PrepareFails(t) PROVE ReadyAttached'
  BY <1>27 DEF PrepareFails, Return, Goto, Frame
<1>28. ASSUME NEW t \in Threads, TeardownAfterPrepareError(t) PROVE ReadyAttached'
  BY <1>28 DEF TeardownAfterPrepareError, Return, Goto, Frame
<1>29. ASSUME NEW t \in Threads, ConnTeardown(t) PROVE ReadyAttached'
  BY <1>29 DEF ConnTeardown, Goto
<1>30. ASSUME NEW t \in Threads, ConnTeardownStale(t) PROVE ReadyAttached'
  BY <1>30 DEF ConnTeardownStale, Return, Goto, Frame
<1>31. ASSUME NEW t \in Threads, CloseTransport(t) PROVE ReadyAttached'
  BY <1>31 DEF CloseTransport, Return, Goto, Frame
<1>32. ASSUME NEW t \in Threads, StopServices(t) PROVE ReadyAttached'
  BY <1>32 DEF StopServices, Goto
<1>33. ASSUME NEW t \in Threads, UnregisterCtx(t) PROVE ReadyAttached'
  BY <1>33 DEF UnregisterCtx, Goto
<1>34. ASSUME NEW t \in Threads, RegistryStop(t) PROVE ReadyAttached'
  BY <1>34 DEF RegistryStop, Goto
<1>35. ASSUME NEW t \in Threads, UnregisterPublish(t) PROVE ReadyAttached'
  BY <1>35 DEF UnregisterPublish, Return, Goto, Frame
<1>36. ASSUME NEW t \in Threads, CancelCtx(t) PROVE ReadyAttached'
  BY <1>36 DEF CancelCtx
<1>37. ASSUME NEW t \in Threads, RegistrarAccepts(t) PROVE ReadyAttached'
  BY <1>37 DEF RegistrarAccepts, Goto
<1>38. CASE UNCHANGED vars
  BY <1>38 DEF vars
<1> QED
  BY <1>1, <1>2, <1>3, <1>4, <1>5, <1>6, <1>7, <1>8, <1>9, <1>10, <1>11,
     <1>12, <1>13, <1>14, <1>15, <1>16, <1>17, <1>18, <1>19, <1>20, <1>21,
     <1>22, <1>23, <1>24, <1>25, <1>26, <1>27, <1>28, <1>29, <1>30, <1>31,
     <1>32, <1>33, <1>34, <1>35, <1>36, <1>37, <1>38, Zenon
   DEF Next, Enter, Step, PrepareTransport, RunRegistration

\* A step that supersedes an attempt cancels its REGISTER.
LEMMA OnlyCurrentStep ==
  ASSUME TypeOK, Shape, Generations, Owner, OnlyCurrentAttemptRegisters, [Next]_vars PROVE OnlyCurrentAttemptRegisters'
<1>0. /\ pc \in [Threads -> PC] /\ op \in [Threads -> AllOps \cup {"none"}]
      /\ myGen \in [Threads -> Nat] /\ myTr \in [Threads -> Nat]
      /\ gen \in Nat
  BY DEF TypeOK
<1>a. \A s \in Threads : pc[s] \in {"regBegin", "regWait"} => op[s] \in Attempts
  BY OpOfStep DEF Registration, Attempts
<1> USE <1>0, <1>a DEF OnlyCurrentAttemptRegisters, phone, conns, regs, locals
<1>1. ASSUME NEW t \in Threads, PrepareBegin(t) PROVE OnlyCurrentAttemptRegisters'
  BY <1>1 DEF PrepareBegin, Calls, Begin, Goto, Frame
<1>2. ASSUME NEW t \in Threads, ConnectBegin(t) PROVE OnlyCurrentAttemptRegisters'
  BY <1>2 DEF ConnectBegin, SetupBegin, Calls, Begin, Goto, Frame
<1>3. ASSUME NEW t \in Threads, RegisterBegin(t) PROVE OnlyCurrentAttemptRegisters'
  BY <1>3 DEF RegisterBegin, SetupBegin, Calls, Begin, Goto, Frame
<1>4. ASSUME NEW t \in Threads, RegisterAgain(t) PROVE OnlyCurrentAttemptRegisters'
  BY <1>4 DEF RegisterAgain, Calls, Begin, Goto, Frame
<1>5. ASSUME NEW t \in Threads, UnregisterBegin(t) PROVE OnlyCurrentAttemptRegisters'
  BY <1>5 DEF UnregisterBegin, Calls, Goto, Frame
<1>6. ASSUME NEW t \in Threads, DisconnectBegin(t) PROVE OnlyCurrentAttemptRegisters'
  BY <1>6 DEF DisconnectBegin, Calls, Goto, Frame
<1>7. ASSUME NEW t \in Threads, DisconnectPrepare(t) PROVE OnlyCurrentAttemptRegisters'
  BY <1>7 DEF DisconnectPrepare, Calls, Goto, Frame
<1>8. ASSUME NEW t \in Threads, PostStun(t) PROVE OnlyCurrentAttemptRegisters'
  BY <1>8 DEF PostStun, Goto
<1>9. ASSUME NEW t \in Threads, BuildOK(t) PROVE OnlyCurrentAttemptRegisters'
  BY <1>9 DEF BuildOK, Goto
<1>10. ASSUME NEW t \in Threads, BuildFails(t) PROVE OnlyCurrentAttemptRegisters'
  BY <1>10 DEF BuildFails, Goto
<1>11. ASSUME NEW t \in Threads, Attach(t) PROVE OnlyCurrentAttemptRegisters'
  BY <1>11 DEF Attach, Goto, StillValid
<1>12. ASSUME NEW t \in Threads, AttachStale(t) PROVE OnlyCurrentAttemptRegisters'
  BY <1>12 DEF AttachStale, Goto
<1>13. ASSUME NEW t \in Threads, RegStart(t) PROVE OnlyCurrentAttemptRegisters'
  <2>1. op[t] \in Attempts /\ state = "Registering"
    BY <1>13, OpOfStep DEF RegStart, Registration, Attempts, Owner
  <2>2. \A s \in Threads : s # t /\ op[s] \in Attempts => myGen[s] # gen
    BY <1>13, <2>1, OwnerUnique DEF RegStart
  <2> QED
    BY <1>13, <2>1, <2>2 DEF RegStart, Goto
<1>14. ASSUME NEW t \in Threads, RegStartStale(t) PROVE OnlyCurrentAttemptRegisters'
  BY <1>14 DEF RegStartStale, Return, Goto, Frame
<1>15. ASSUME NEW t \in Threads, RegBegin(t) PROVE OnlyCurrentAttemptRegisters'
  BY <1>15 DEF RegBegin, Goto
<1>16. ASSUME NEW t \in Threads, RegOK(t) PROVE OnlyCurrentAttemptRegisters'
  BY <1>16 DEF RegOK, Goto
<1>17. ASSUME NEW t \in Threads, RegFails(t) PROVE OnlyCurrentAttemptRegisters'
  BY <1>17 DEF RegFails, Goto
<1>18. ASSUME NEW t \in Threads, RegStale(t) PROVE OnlyCurrentAttemptRegisters'
  <2>1. /\ pc'[t] \in {"idle", "connTeardown"}
        /\ \A s \in Threads : s # t => pc'[s] = pc[s] /\ myGen'[s] = myGen[s]
    BY <1>18 DEF RegStale, RegReturn, Return, Goto, Frame
  <2>2. cancelled' \in {cancelled, cancelled \ {t}} /\ UNCHANGED phone
    BY <1>18 DEF RegStale, RegReturn, Return
  <2> QED
    BY <2>1, <2>2
<1>19. ASSUME NEW t \in Threads, RegPublish(t) PROVE OnlyCurrentAttemptRegisters'
  <2>1. \A s \in Threads : s # t /\ op[s] \in Attempts => myGen[s] # gen
    BY <1>19, OpOfStep, OwnerUnique DEF RegPublish, Registration, Attempts
  <2> QED
    BY <1>19, <2>1 DEF RegPublish, Goto
<1>20. ASSUME NEW t \in Threads, RegPublishFailed(t) PROVE OnlyCurrentAttemptRegisters'
  <2>1. \A s \in Threads : s # t /\ op[s] \in Attempts => myGen[s] # gen
    BY <1>20, OpOfStep, OwnerUnique DEF RegPublishFailed, Registration, Attempts
  <2>2. /\ pc'[t] \in {"idle", "connTeardown"}
        /\ \A s \in Threads : s # t => pc'[s] = pc[s] /\ myGen'[s] = myGen[s]
    BY <1>20 DEF RegPublishFailed, RegReturn, Return, Goto, Frame
  <2>3. cancelled' \in {cancelled, cancelled \ {t}} /\ UNCHANGED gen
    BY <1>20 DEF RegPublishFailed, RegReturn, Return
  <2> QED
    BY <2>1, <2>2, <2>3
<1>21. ASSUME NEW t \in Threads, MWIStart(t) PROVE OnlyCurrentAttemptRegisters'
  BY <1>21 DEF MWIStart, ServiceStart, Goto
<1>22. ASSUME NEW t \in Threads, MWIStore(t) PROVE OnlyCurrentAttemptRegisters'
  BY <1>22 DEF MWIStore, Goto
<1>23. ASSUME NEW t \in Threads, SubStart(t) PROVE OnlyCurrentAttemptRegisters'
  BY <1>23 DEF SubStart, ServiceStart, Goto
<1>24. ASSUME NEW t \in Threads, SubStore(t) PROVE OnlyCurrentAttemptRegisters'
  BY <1>24 DEF SubStore, Return, Goto, Frame
<1>25. ASSUME NEW t \in Threads, PrepareSuperseded(t) PROVE OnlyCurrentAttemptRegisters'
  BY <1>25 DEF PrepareSuperseded, Return, Goto, Frame
<1>26. ASSUME NEW t \in Threads, PreparePublish(t) PROVE OnlyCurrentAttemptRegisters'
  <2>1. op[t] \in Attempts /\ myGen[t] = gen
    BY <1>26, OpOfStep DEF PreparePublish, Attempts
  <2>2. \A s \in Threads : s # t /\ op[s] \in Attempts => myGen[s] # gen
    BY <2>1, OwnerUnique
  <2> QED
    BY <1>26, <2>2 DEF PreparePublish, Return, Goto, Frame
<1>27. ASSUME NEW t \in Threads, PrepareFails(t) PROVE OnlyCurrentAttemptRegisters'
  BY <1>27 DEF PrepareFails, Return, Goto, Frame
<1>28. ASSUME NEW t \in Threads, TeardownAfterPrepareError(t) PROVE OnlyCurrentAttemptRegisters'
  <2>1. CASE gen = myGen[t]
    <3>1. \A s \in Threads : s # t /\ op[s] \in Attempts => myGen[s] # gen
      BY <1>28, <2>1, OwnerUnique DEF TeardownAfterPrepareError, Attempts
    <3> QED
      BY <1>28, <3>1 DEF TeardownAfterPrepareError, Return, Goto, Frame
  <2>2. CASE gen # myGen[t]
    BY <1>28, <2>2 DEF TeardownAfterPrepareError, Return, Goto, Frame
  <2> QED
    BY <2>1, <2>2
<1>29. ASSUME NEW t \in Threads, ConnTeardown(t) PROVE OnlyCurrentAttemptRegisters'
  <2>1. \A s \in Threads : s # t /\ op[s] \in Attempts => myGen[s] # gen
    BY <1>29, OpOfStep, OwnerUnique DEF ConnTeardown, Registration, Attempts
  <2> QED
    BY <1>29, <2>1 DEF ConnTeardown, Goto
<1>30. ASSUME NEW t \in Threads, ConnTeardownStale(t) PROVE OnlyCurrentAttemptRegisters'
  BY <1>30 DEF ConnTeardownStale, Return, Goto, Frame
<1>31. ASSUME NEW t \in Threads, CloseTransport(t) PROVE OnlyCurrentAttemptRegisters'
  BY <1>31 DEF CloseTransport, Return, Goto, Frame
<1>32. ASSUME NEW t \in Threads, StopServices(t) PROVE OnlyCurrentAttemptRegisters'
  BY <1>32 DEF StopServices, Goto
<1>33. ASSUME NEW t \in Threads, UnregisterCtx(t) PROVE OnlyCurrentAttemptRegisters'
  BY <1>33 DEF UnregisterCtx, Goto
<1>34. ASSUME NEW t \in Threads, RegistryStop(t) PROVE OnlyCurrentAttemptRegisters'
  BY <1>34 DEF RegistryStop, Goto
<1>35. ASSUME NEW t \in Threads, UnregisterPublish(t) PROVE OnlyCurrentAttemptRegisters'
  BY <1>35 DEF UnregisterPublish, Return, Goto, Frame
<1>36. ASSUME NEW t \in Threads, CancelCtx(t) PROVE OnlyCurrentAttemptRegisters'
  BY <1>36 DEF CancelCtx
<1>37. ASSUME NEW t \in Threads, RegistrarAccepts(t) PROVE OnlyCurrentAttemptRegisters'
  BY <1>37 DEF RegistrarAccepts, Goto
<1>38. CASE UNCHANGED vars
  BY <1>38 DEF vars
<1> QED
  BY <1>1, <1>2, <1>3, <1>4, <1>5, <1>6, <1>7, <1>8, <1>9, <1>10, <1>11,
     <1>12, <1>13, <1>14, <1>15, <1>16, <1>17, <1>18, <1>19, <1>20, <1>21,
     <1>22, <1>23, <1>24, <1>25, <1>26, <1>27, <1>28, <1>29, <1>30, <1>31,
     <1>32, <1>33, <1>34, <1>35, <1>36, <1>37, <1>38, Zenon
   DEF Next, Enter, Step, PrepareTransport, RunRegistration

\* No step leaves the phone in a transient state without an owner.
LEMMA TransientStep ==
  ASSUME TypeOK, Shape, Generations, Owner, TransientHasOwner, [Next]_vars PROVE TransientHasOwner'
<1>0. /\ pc \in [Threads -> PC] /\ op \in [Threads -> AllOps \cup {"none"}]
      /\ myGen \in [Threads -> Nat] /\ myTr \in [Threads -> Nat]
      /\ gen \in Nat
  BY DEF TypeOK
<1> USE <1>0 DEF Shape, Generations, Owner, TransientHasOwner, Attempts, Ready,
   Setup, Registration, Services, Unreg, Disc, phone, conns, regs, locals
<1>1. ASSUME NEW t \in Threads, PrepareBegin(t) PROVE TransientHasOwner'
  BY <1>1 DEF PrepareBegin, Calls, Begin, Goto, Frame
<1>2. ASSUME NEW t \in Threads, ConnectBegin(t) PROVE TransientHasOwner'
  BY <1>2 DEF ConnectBegin, SetupBegin, Calls, Begin, Goto, Frame
<1>3. ASSUME NEW t \in Threads, RegisterBegin(t) PROVE TransientHasOwner'
  BY <1>3 DEF RegisterBegin, SetupBegin, Calls, Begin, Goto, Frame
<1>4. ASSUME NEW t \in Threads, RegisterAgain(t) PROVE TransientHasOwner'
  BY <1>4 DEF RegisterAgain, Calls, Begin, Goto, Frame
<1>5. ASSUME NEW t \in Threads, UnregisterBegin(t) PROVE TransientHasOwner'
  BY <1>5 DEF UnregisterBegin, Calls, Goto, Frame
<1>6. ASSUME NEW t \in Threads, DisconnectBegin(t) PROVE TransientHasOwner'
  BY <1>6 DEF DisconnectBegin, Calls, Goto, Frame
<1>7. ASSUME NEW t \in Threads, DisconnectPrepare(t) PROVE TransientHasOwner'
  BY <1>7 DEF DisconnectPrepare, Calls, Goto, Frame
<1>8. ASSUME NEW t \in Threads, PostStun(t) PROVE TransientHasOwner'
  BY <1>8 DEF PostStun, Goto
<1>9. ASSUME NEW t \in Threads, BuildOK(t) PROVE TransientHasOwner'
  BY <1>9 DEF BuildOK, Goto
<1>10. ASSUME NEW t \in Threads, BuildFails(t) PROVE TransientHasOwner'
  BY <1>10 DEF BuildFails, Goto
<1>11. ASSUME NEW t \in Threads, Attach(t) PROVE TransientHasOwner'
  BY <1>11 DEF Attach, Goto, StillValid
<1>12. ASSUME NEW t \in Threads, AttachStale(t) PROVE TransientHasOwner'
  BY <1>12 DEF AttachStale, Goto
<1>13. ASSUME NEW t \in Threads, RegStart(t) PROVE TransientHasOwner'
  BY <1>13 DEF RegStart, Goto
<1>14. ASSUME NEW t \in Threads, RegStartStale(t) PROVE TransientHasOwner'
  BY <1>14 DEF RegStartStale, Return, Goto, Frame
<1>15. ASSUME NEW t \in Threads, RegBegin(t) PROVE TransientHasOwner'
  BY <1>15 DEF RegBegin, Goto
<1>16. ASSUME NEW t \in Threads, RegOK(t) PROVE TransientHasOwner'
  BY <1>16 DEF RegOK, Goto
<1>17. ASSUME NEW t \in Threads, RegFails(t) PROVE TransientHasOwner'
  BY <1>17 DEF RegFails, Goto
<1>18. ASSUME NEW t \in Threads, RegStale(t) PROVE TransientHasOwner'
  BY <1>18 DEF RegStale, RegReturn, Return, Goto, Frame
<1>19. ASSUME NEW t \in Threads, RegPublish(t) PROVE TransientHasOwner'
  BY <1>19 DEF RegPublish, Goto
<1>20. ASSUME NEW t \in Threads, RegPublishFailed(t) PROVE TransientHasOwner'
  BY <1>20 DEF RegPublishFailed, RegReturn, Return, Goto, Frame
<1>21. ASSUME NEW t \in Threads, MWIStart(t) PROVE TransientHasOwner'
  BY <1>21 DEF MWIStart, ServiceStart, Goto
<1>22. ASSUME NEW t \in Threads, MWIStore(t) PROVE TransientHasOwner'
  BY <1>22 DEF MWIStore, Goto
<1>23. ASSUME NEW t \in Threads, SubStart(t) PROVE TransientHasOwner'
  BY <1>23 DEF SubStart, ServiceStart, Goto
<1>24. ASSUME NEW t \in Threads, SubStore(t) PROVE TransientHasOwner'
  BY <1>24 DEF SubStore, Return, Goto, Frame
<1>25. ASSUME NEW t \in Threads, PrepareSuperseded(t) PROVE TransientHasOwner'
  BY <1>25 DEF PrepareSuperseded, Return, Goto, Frame
<1>26. ASSUME NEW t \in Threads, PreparePublish(t) PROVE TransientHasOwner'
  BY <1>26 DEF PreparePublish, Return, Goto, Frame
<1>27. ASSUME NEW t \in Threads, PrepareFails(t) PROVE TransientHasOwner'
  BY <1>27 DEF PrepareFails, Return, Goto, Frame
<1>28. ASSUME NEW t \in Threads, TeardownAfterPrepareError(t) PROVE TransientHasOwner'
  BY <1>28 DEF TeardownAfterPrepareError, Return, Goto, Frame
<1>29. ASSUME NEW t \in Threads, ConnTeardown(t) PROVE TransientHasOwner'
  BY <1>29 DEF ConnTeardown, Goto
<1>30. ASSUME NEW t \in Threads, ConnTeardownStale(t) PROVE TransientHasOwner'
  BY <1>30 DEF ConnTeardownStale, Return, Goto, Frame
<1>31. ASSUME NEW t \in Threads, CloseTransport(t) PROVE TransientHasOwner'
  BY <1>31 DEF CloseTransport, Return, Goto, Frame
<1>32. ASSUME NEW t \in Threads, StopServices(t) PROVE TransientHasOwner'
  BY <1>32 DEF StopServices, Goto
<1>33. ASSUME NEW t \in Threads, UnregisterCtx(t) PROVE TransientHasOwner'
  BY <1>33 DEF UnregisterCtx, Goto
<1>34. ASSUME NEW t \in Threads, RegistryStop(t) PROVE TransientHasOwner'
  BY <1>34 DEF RegistryStop, Goto
<1>35. ASSUME NEW t \in Threads, UnregisterPublish(t) PROVE TransientHasOwner'
  BY <1>35 DEF UnregisterPublish, Return, Goto, Frame
<1>36. ASSUME NEW t \in Threads, CancelCtx(t) PROVE TransientHasOwner'
  BY <1>36 DEF CancelCtx
<1>37. ASSUME NEW t \in Threads, RegistrarAccepts(t) PROVE TransientHasOwner'
  BY <1>37 DEF RegistrarAccepts, Goto
<1>38. CASE UNCHANGED vars
  BY <1>38 DEF vars
<1> QED
  BY <1>1, <1>2, <1>3, <1>4, <1>5, <1>6, <1>7, <1>8, <1>9, <1>10, <1>11,
     <1>12, <1>13, <1>14, <1>15, <1>16, <1>17, <1>18, <1>19, <1>20, <1>21,
     <1>22, <1>23, <1>24, <1>25, <1>26, <1>27, <1>28, <1>29, <1>30, <1>31,
     <1>32, <1>33, <1>34, <1>35, <1>36, <1>37, <1>38, Zenon
   DEF Next, Enter, Step, PrepareTransport, RunRegistration

\* The initial state satisfies the invariant.
LEMMA IInvInit == Init => IInv
<1> SUFFICES ASSUME Init PROVE IInv
  OBVIOUS
<1> USE RecordTypes DEF Init
<1>1. TypeOK
  BY Zenon DEF TypeOK, PhoneState, PC, AllOps
<1>2. Shape /\ Generations /\ Transports
  BY DEF Shape, Generations, Transports, Attempts, Open, Setup, Disc
<1>3. Owner /\ ReadyAttached /\ OnlyCurrentAttemptRegisters /\ TransientHasOwner
  BY DEF Owner, ReadyAttached, OnlyCurrentAttemptRegisters, TransientHasOwner,
         Attempts, Ready
<1> QED
  BY <1>1, <1>2, <1>3 DEF IInv

\* Every step preserves the invariant.
LEMMA IInvStep == IInv /\ [Next]_vars => IInv'
BY TypeOKStep, ShapeStep, GenerationsStep, TransportsStep, OwnerStep,
   ReadyStep, OnlyCurrentStep, TransientStep DEF IInv

\* The invariant holds in every reachable state, for any number of goroutines
\* and any mix of Prepare, Register, Connect, Unregister and Disconnect.
THEOREM Invariance == Spec => []IInv
BY IInvInit, IInvStep, PTL DEF Spec

\* Every field of the phone keeps its type.
THEOREM TypeCorrect == Spec => []TypeOK
<1>1. IInv => TypeOK
  BY DEF IInv
<1> QED
  BY Invariance, <1>1, PTL

\* A phone in Prepared, Registered, RegistrationFailed or Unregistering has an
\* open transport, dials through it and registers over it.
THEOREM TransportWhenReady == Spec => []ReadyHasTransport
<1>1. IInv => ReadyHasTransport
  BY DEF IInv, ReadyHasTransport, ReadyAttached, Transports
<1> QED
  BY Invariance, <1>1, PTL

\* Disconnect always reaches the REGISTER of the attempt it supersedes.
THEOREM SupersededIsCancelled == Spec => []OnlyCurrentAttemptRegisters
<1>1. IInv => OnlyCurrentAttemptRegisters
  BY DEF IInv
<1> QED
  BY Invariance, <1>1, PTL

\* The phone is never left Registering or Unregistering with no call in flight.
THEOREM NeverStuck == Spec => []TransientHasOwner
<1>1. IInv => TransientHasOwner
  BY DEF IInv
<1> QED
  BY Invariance, <1>1, PTL
=============================================================================
