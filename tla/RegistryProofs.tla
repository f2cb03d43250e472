--------------------------- MODULE RegistryProofs ---------------------------
(***************************************************************************)
(* Proofs about Registry, for any number of goroutines and retries.  The   *)
(* two ownership properties are inductive together with TypeOK: a          *)
(* goroutine leaves register only by deciding the state or by finding its  *)
(* context cancelled, and the flag is set and cleared with the goroutine.  *)
(***************************************************************************)
EXTENDS Registry, TLAPS

IInv == TypeOK /\ ReregisteringIsOwned /\ RegisteringIsOwned

PcType == {"idle", "send", "pause", "clear", "done"}

\* Every step of a goroutine inside register keeps the types: of the state, of
\* the context, of the loop and of its own program counter and counter.
LEMMA RegisterTypes == ASSUME TypeOK, NEW w \in Workers, Register(w)
                       PROVE  TypeOK'
<1>1. CASE RegisterAccepted(w)
  BY <1>1 DEF RegisterAccepted, Return, TypeOK
<1>2. CASE RegisterFailed(w)
  <2>1. CASE attempt[w] + 1 < MaxRetry
    <3>1. attempt[w] + 1 \in 0..(MaxRetry - 1)
      BY <2>1, MaxRetryAssumption DEF TypeOK
    <3>2. attempt' \in [Workers -> 0..(MaxRetry - 1)]
      BY <1>2, <2>1, <3>1 DEF RegisterFailed, TypeOK
    <3> QED BY <1>2, <2>1, <3>2 DEF RegisterFailed, TypeOK
  <2>2. CASE ~(attempt[w] + 1 < MaxRetry)
    BY <1>2, <2>2 DEF RegisterFailed, Return, TypeOK
  <2> QED BY <2>1, <2>2
<1>3. CASE Retry(w)
  BY <1>3 DEF Retry, TypeOK
<1>4. CASE GiveUp(w)
  BY <1>4 DEF GiveUp, Return, TypeOK
<1>5. CASE ClearReregistering(w)
  BY <1>5 DEF ClearReregistering, TypeOK
<1> QED BY <1>1, <1>2, <1>3, <1>4, <1>5 DEF Register

\* handleDrop keeps the types of the fields it assigns.
LEMMA DropTypes ==
  ASSUME TypeOK, HandleDrop
  PROVE  /\ state' \in {"Disconnected", "Registering", "Registered",
                        "RegistrationFailed"}
         /\ reregistering' \in BOOLEAN
         /\ pc' \in [Workers -> PcType]
         /\ attempt' \in [Workers -> 0..(MaxRetry - 1)]
<1>1. CASE UNCHANGED <<state, reregistering, registering>>
  BY <1>1 DEF TypeOK, registering, PcType
<1>2. CASE state' = "Registering" /\ reregistering' = TRUE /\ SpawnRegister
  <2>1. PICK w \in Rereg : /\ pc' = [pc EXCEPT ![w] = "send"]
                           /\ attempt' = [attempt EXCEPT ![w] = 0]
    BY <1>2 DEF SpawnRegister
  <2>2. 0 \in 0..(MaxRetry - 1)
    BY MaxRetryAssumption
  <2> QED BY <1>2, <2>1, <2>2 DEF TypeOK, PcType
<1> QED BY <1>1, <1>2 DEF HandleDrop

\* Every step keeps the types.
LEMMA TypeStep == ASSUME TypeOK, Next PROVE TypeOK'
<1>1. CASE Start
  BY <1>1 DEF Start, TypeOK, Workers
<1>2. CASE Stop \/ CancelCaller \/ LoopExit
  BY <1>2 DEF Stop, CancelCaller, LoopExit, TypeOK, registering
<1>3. CASE Unregister \/ UnregisterDone
  BY <1>3 DEF Unregister, UnregisterDone, TypeOK, registering
<1>4. CASE TransportDrop
  BY <1>4, DropTypes DEF TransportDrop, TypeOK, PcType
<1>5. ASSUME NEW r \in Refreshers, RefreshTick(r) \/ Refresh(r)
      PROVE  TypeOK'
  <2>1. CASE RefreshDrop(r)
    BY <2>1, DropTypes DEF RefreshDrop, TypeOK, PcType
  <2>2. CASE RefreshTick(r) \/ RefreshAccepted(r) \/ RefreshFailed(r)
    BY <2>2 DEF RefreshTick, RefreshAccepted, RefreshFailed, TypeOK, registering
  <2> QED BY <1>5, <2>1, <2>2 DEF Refresh
<1> QED
  BY <1>1, <1>2, <1>3, <1>4, <1>5, RegisterTypes DEF Next

\* A step that leaves the flag and the program counters alone keeps the owner.
LEMMA OwnerFrame == ASSUME ReregisteringIsOwned, UNCHANGED <<reregistering, pc>>
                    PROVE  ReregisteringIsOwned'
  BY DEF ReregisteringIsOwned

\* handleDrop starts a re-registration goroutine only when there is none.
LEMMA DropOwner == ASSUME TypeOK, ReregisteringIsOwned, HandleDrop
                   PROVE  ReregisteringIsOwned'
<1>1. CASE UNCHANGED <<state, reregistering, registering>>
  BY <1>1, OwnerFrame DEF registering
<1>2. CASE /\ ~reregistering
           /\ state' = "Registering" /\ reregistering' = TRUE /\ SpawnRegister
  <2>1. PICK w \in Rereg : pc' = [pc EXCEPT ![w] = "send"]
    BY <1>2 DEF SpawnRegister
  <2>2. \A v \in Rereg : pc[v] = "idle"
    BY <1>2 DEF ReregisteringIsOwned
  <2>3. \A v \in Rereg : v # w => pc'[v] = "idle"
    BY <2>1, <2>2 DEF TypeOK, Workers
  <2>4. pc'[w] # "idle"
    BY <2>1 DEF TypeOK, Workers
  <2> QED BY <1>2, <2>3, <2>4 DEF ReregisteringIsOwned
<1> QED BY <1>1, <1>2 DEF HandleDrop

\* The flag is cleared by its owner, and only when the goroutine ends.
LEMMA RegisterOwner == ASSUME TypeOK, ReregisteringIsOwned,
                              NEW w \in Workers, Register(w)
                       PROVE  ReregisteringIsOwned'
<1>1. CASE ClearReregistering(w)
  <2>1. /\ w \in Rereg /\ pc[w] # "idle" /\ reregistering' = FALSE
        /\ pc' = [pc EXCEPT ![w] = "idle"]
    BY <1>1 DEF ClearReregistering, Workers
  <2>2. \A v \in Rereg : pc'[v] = "idle"
    BY <2>1 DEF ReregisteringIsOwned, TypeOK, Workers
  <2> QED BY <2>1, <2>2 DEF ReregisteringIsOwned
<1>2. CASE ~ClearReregistering(w)
  <2>1. /\ pc[w] # "idle" /\ reregistering' = reregistering
        /\ \E p \in {"send", "pause", "clear", "done"} :
             pc' = [pc EXCEPT ![w] = p]
    BY <1>2 DEF Register, RegisterAccepted, RegisterFailed, Retry, GiveUp, Return
  <2>2. \A v \in Rereg : pc'[v] = "idle" <=> pc[v] = "idle"
    BY <2>1 DEF TypeOK, Workers
  <2> QED BY <2>1, <2>2, Zenon DEF ReregisteringIsOwned
<1> QED BY <1>1, <1>2

\* Every step keeps the flag and its goroutine together.
LEMMA OwnerStep == ASSUME TypeOK, ReregisteringIsOwned, Next
                   PROVE  ReregisteringIsOwned'
<1>1. CASE Start
  <2>1. \A v \in Rereg : pc'[v] = pc[v]
    BY <1>1, WorkersAssumption DEF Start, TypeOK, Workers
  <2>2. reregistering' = reregistering
    BY <1>1 DEF Start
  <2> QED BY <2>1, <2>2 DEF ReregisteringIsOwned
<1>2. CASE Stop \/ CancelCaller \/ LoopExit \/ Unregister \/ UnregisterDone
  BY <1>2, OwnerFrame
  DEF Stop, CancelCaller, LoopExit, Unregister, UnregisterDone, registering
<1>3. CASE TransportDrop
  BY <1>3, DropOwner DEF TransportDrop
<1>4. ASSUME NEW r \in Refreshers, RefreshTick(r) \/ Refresh(r)
      PROVE  ReregisteringIsOwned'
  BY <1>4, OwnerFrame, DropOwner
  DEF RefreshTick, Refresh, RefreshAccepted, RefreshFailed, RefreshDrop,
      registering
<1> QED
  BY <1>1, <1>2, <1>3, <1>4, RegisterOwner DEF Next

\* A step that leaves state, context and program counters alone.
LEMMA RegisteringFrame == ASSUME RegisteringIsOwned, UNCHANGED <<state, ctx, pc>>
                          PROVE  RegisteringIsOwned'
  BY DEF RegisteringIsOwned

\* handleDrop sets Registering together with the goroutine that resolves it.
LEMMA DropRegistering == ASSUME TypeOK, RegisteringIsOwned, HandleDrop,
                                ctx' = ctx
                         PROVE  RegisteringIsOwned'
<1>1. CASE UNCHANGED <<state, reregistering, registering>>
  BY <1>1, RegisteringFrame DEF registering
<1>2. CASE state' = "Registering" /\ reregistering' = TRUE /\ SpawnRegister
  BY <1>2 DEF SpawnRegister, RegisteringIsOwned, TypeOK, Workers
<1> QED BY <1>1, <1>2 DEF HandleDrop

\* register returns with another state, or with its context cancelled.
LEMMA RegisterRegistering == ASSUME TypeOK, RegisteringIsOwned,
                                    NEW w \in Workers, Register(w)
                             PROVE  RegisteringIsOwned'
<1>1. CASE RegisterAccepted(w)
  BY <1>1 DEF RegisterAccepted, RegisteringIsOwned
<1>2. CASE RegisterFailed(w)
  <2>1. CASE attempt[w] + 1 < MaxRetry
    BY <1>2, <2>1 DEF RegisterFailed, RegisteringIsOwned, TypeOK
  <2>2. CASE ~(attempt[w] + 1 < MaxRetry)
    BY <1>2, <2>2 DEF RegisterFailed, RegisteringIsOwned
  <2> QED BY <2>1, <2>2
<1>3. CASE Retry(w)
  BY <1>3 DEF Retry, RegisteringIsOwned, TypeOK
<1>4. CASE GiveUp(w)
  BY <1>4 DEF GiveUp, Return, CtxOf, RegisteringIsOwned
<1>5. CASE ClearReregistering(w)
  <2>1. /\ state' = state /\ ctx' = ctx
        /\ \A v \in Workers : pc[v] \in {"send", "pause"} => pc'[v] = pc[v]
    BY <1>5 DEF ClearReregistering, TypeOK
  <2> QED BY <2>1 DEF RegisteringIsOwned
<1> QED BY <1>1, <1>2, <1>3, <1>4, <1>5 DEF Register

\* Every step keeps a goroutine that resolves Registering.
LEMMA RegisteringStep == ASSUME TypeOK, RegisteringIsOwned, Next
                         PROVE  RegisteringIsOwned'
<1>1. CASE Start
  BY <1>1 DEF Start, RegisteringIsOwned, TypeOK, Workers
<1>2. CASE Stop
  BY <1>2 DEF Stop, RegisteringIsOwned
<1>3. CASE CancelCaller \/ LoopExit \/ Unregister \/ UnregisterDone
  BY <1>3, RegisteringFrame
  DEF CancelCaller, LoopExit, Unregister, UnregisterDone, registering
<1>4. CASE TransportDrop
  BY <1>4, DropRegistering DEF TransportDrop
<1>5. ASSUME NEW r \in Refreshers, RefreshTick(r) \/ Refresh(r)
      PROVE  RegisteringIsOwned'
  BY <1>5, RegisteringFrame, DropRegistering
  DEF RefreshTick, Refresh, RefreshAccepted, RefreshFailed, RefreshDrop,
      registering
<1> QED
  BY <1>1, <1>2, <1>3, <1>4, <1>5, RegisterRegistering DEF Next

\* IInv is an invariant of the registry: newRegistry establishes it and every
\* critical section and transaction of registry.go preserves it.
THEOREM Invariance == Spec => []IInv
<1>1. Init => IInv
  <2> SUFFICES ASSUME Init PROVE IInv
    OBVIOUS
  <2>1. TypeOK
    <3>1. 0 \in 0..(MaxRetry - 1)
      BY MaxRetryAssumption
    <3>2. attempt \in [Workers -> 0..(MaxRetry - 1)]
      BY <3>1 DEF Init
    <3>3. reregistering \in BOOLEAN
      BY DEF Init
    <3> QED BY <3>2, <3>3 DEF Init, TypeOK
  <2>2. \A w \in Rereg : pc[w] = "idle"
    BY DEF Init, Workers
  <2>3. ReregisteringIsOwned
    BY <2>2 DEF Init, ReregisteringIsOwned
  <2> QED BY <2>1, <2>3 DEF Init, IInv, RegisteringIsOwned
<1>2. IInv /\ [Next]_vars => IInv'
  <2> SUFFICES ASSUME IInv, [Next]_vars PROVE IInv'
    OBVIOUS
  <2>1. CASE Next
    BY <2>1, TypeStep, OwnerStep, RegisteringStep DEF IInv
  <2>2. CASE UNCHANGED vars
    <3>1. TypeOK'
      BY <2>2 DEF IInv, TypeOK, vars, registering
    <3> QED BY <2>2, <3>1, OwnerFrame, RegisteringFrame
            DEF IInv, vars, registering
  <2> QED BY <2>1, <2>2
<1> QED BY <1>1, <1>2, PTL DEF Spec

\* The fields keep their types, and register makes at most RegisterMaxRetry
\* attempts, for every value of RegisterMaxRetry (registry.go:167).
THEOREM TypeCorrect == Spec => []TypeOK
<1>1. IInv => TypeOK
  BY DEF IInv
<1> QED BY <1>1, Invariance, PTL

\* However many drops and failed refreshes arrive, r.reregistering is set
\* exactly while one re-registration goroutine runs (registry.go:29).
THEOREM DropsAreOwned == Spec => []ReregisteringIsOwned
<1>1. IInv => ReregisteringIsOwned
  BY DEF IInv
<1> QED BY <1>1, Invariance, PTL

\* A registry that was not stopped and reports Registering has a goroutine
\* inside register that will resolve it (registry.go:224, :51).
THEOREM NeverStuck == Spec => []RegisteringIsOwned
<1>1. IInv => RegisteringIsOwned
  BY DEF IInv
<1> QED BY <1>1, Invariance, PTL
=============================================================================
