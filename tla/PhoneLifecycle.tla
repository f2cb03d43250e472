--------------------------- MODULE PhoneLifecycle ---------------------------
(***************************************************************************)
(* The lifecycle of a phone (xphone.go): Prepare, Register, Connect,       *)
(* Unregister and Disconnect called by several goroutines at once.         *)
(*                                                                         *)
(* Every critical section of p.mu is one action.  Between two of them the  *)
(* call is unlocked (STUN, building the SIP stack, a REGISTER round trip,  *)
(* stopping services), so any other call may run there.  A lifecycle       *)
(* attempt is identified by the value it gave to lifecycleGen; a transport *)
(* is named by the attempt that built it and a registry by the attempt     *)
(* that created it.  Calls that return an error at once change nothing and *)
(* are stuttering steps.                                                   *)
(***************************************************************************)
EXTENDS Naturals

CONSTANTS
  Threads,    \* goroutines calling the phone
  Ops,        \* the operations they may call, a subset of AllOps
  Voicemail,  \* is cfg.VoicemailURI set?
  MaxGen      \* no attempt starts once lifecycleGen has this value

AllOps == {"Prepare", "Register", "Connect", "Unregister", "Disconnect"}

ASSUME OpsAssumption == Ops \subseteq AllOps
ASSUME VoicemailAssumption == Voicemail \in BOOLEAN
ASSUME MaxGenAssumption == MaxGen \in Nat

VARIABLES
  state,      \* p.state
  preparing,  \* p.preparing
  gen,        \* p.lifecycleGen
  regCancel,  \* p.regCancel: the attempts whose REGISTER it cancels, {} is nil
  tr,         \* p.tr, 0 is nil
  dialFn,     \* the transport p.dialFn dials through, 0 is nil
  reg,        \* p.reg
  mwi,        \* p.mwi
  subMgr,     \* p.subMgr
  pc,         \* where each goroutine is in its call
  op,         \* the operation it called
  myGen,      \* its local gen
  myTr,       \* a transport in its hands only, 0 is none
  myReg,      \* its local reg
  mySvc,      \* the MWI and subscription services in its hands
  cancelled,  \* the goroutines whose attempt has a cancelled context
  opened,     \* transports ever built
  closed,     \* transports on which Close was called
  live,       \* registries whose lifecycle context is not cancelled
  registered, \* registries whose own state is Registered
  running,    \* MWI and subscription services started and not stopped
  bindings    \* transports the registrar holds a contact for

phone == <<state, preparing, gen, regCancel, tr, dialFn, reg, mwi, subMgr>>
conns == <<opened, closed>>
regs  == <<live, registered>>
locals == <<op, myGen, myTr, myReg, mySvc, cancelled>>
vars  == <<phone, pc, locals, conns, regs, running, bindings>>

PhoneState == {"Disconnected", "Prepared", "Registering", "Registered",
               "RegistrationFailed", "Unregistering"}

Setup == {"stun", "build", "attach", "prepFailed"}
Registration == {"regStart", "regBegin", "regWait", "regAcked",
                 "regDone", "regFailed"}
Services == {"mwiStart", "mwiStore", "subStart", "subStore"}
Unreg == {"unStop", "unReg", "unRegStop", "unPublish"}
Disc == {"dStop", "dUnreg", "dRegStop"}
PC == {"idle", "prepPublish", "connTeardown", "close"}
        \cup Setup \cup Registration \cup Services \cup Unreg \cup Disc

Registry == [id : Nat, tr : Nat]
NoReg == [id |-> 0, tr |-> 0]
Service == [kind : {"mwi", "sub"}, gen : Nat, tr : Nat]
NoService == [kind |-> "mwi", gen |-> 0, tr |-> 0]

Open == opened \ closed

Init ==
  /\ state = "Disconnected" /\ preparing = FALSE /\ gen = 0
  /\ regCancel = {} /\ tr = 0 /\ dialFn = 0 /\ reg = NoReg
  /\ mwi = NoService /\ subMgr = NoService
  /\ pc = [t \in Threads |-> "idle"] /\ op = [t \in Threads |-> "none"]
  /\ myGen = [t \in Threads |-> 0] /\ myTr = [t \in Threads |-> 0]
  /\ myReg = [t \in Threads |-> NoReg] /\ mySvc = [t \in Threads |-> {}]
  /\ cancelled = {}
  /\ opened = {} /\ closed = {}
  /\ live = {} /\ registered = {} /\ running = {} /\ bindings = {}

-----------------------------------------------------------------------------
(* Local steps of a goroutine. *)

Calls(t, o) == pc[t] = "idle" /\ o \in Ops

Goto(t, p) == pc' = [pc EXCEPT ![t] = p]

\* The locals of a goroutine's call.
Frame(t, o, g, x, r, v) ==
  /\ op' = [op EXCEPT ![t] = o]
  /\ myGen' = [myGen EXCEPT ![t] = g]
  /\ myTr' = [myTr EXCEPT ![t] = x]
  /\ myReg' = [myReg EXCEPT ![t] = r]
  /\ mySvc' = [mySvc EXCEPT ![t] = v]

Begin(t, o, p) ==
  /\ Goto(t, p) /\ Frame(t, o, gen', 0, NoReg, {})
  /\ UNCHANGED cancelled

Return(t) ==
  /\ Goto(t, "idle") /\ Frame(t, "none", 0, 0, NoReg, {})
  /\ cancelled' = cancelled \ {t}

\* A caller's context expires while the call is in flight.
CancelCtx(t) ==
  /\ op[t] \in {"Prepare", "Register", "Connect"}
  /\ cancelled' = cancelled \cup {t}
  /\ UNCHANGED <<phone, pc, op, myGen, myTr, myReg, mySvc,
                 conns, regs, running, bindings>>

-----------------------------------------------------------------------------
(* prepareTransport *)

\* Mutant of StillValid: the generation is not compared.
StillValidAnyGen(t) ==
  /\ t \notin cancelled
  /\ IF op[t] = "Prepare" THEN preparing ELSE state = "Registering"

StillValid(t) ==
  /\ t \notin cancelled
  /\ gen = myGen[t]
  /\ IF op[t] = "Prepare" THEN preparing ELSE state = "Registering"

\* STUN has answered or timed out; the checkpoint after it.
PostStun(t) ==
  /\ pc[t] = "stun"
  /\ Goto(t, IF StillValid(t) THEN "build" ELSE "prepFailed")
  /\ UNCHANGED <<phone, locals, conns, regs, running, bindings>>

\* newSipUA succeeds and its server is started, unlocked.
BuildOK(t) ==
  /\ pc[t] = "build"
  /\ Goto(t, "attach")
  /\ myTr' = [myTr EXCEPT ![t] = myGen[t]]
  /\ opened' = opened \cup {myGen[t]}
  /\ UNCHANGED <<phone, op, myGen, myReg, mySvc, cancelled,
                 closed, regs, running, bindings>>

BuildFails(t) ==
  /\ pc[t] = "build"
  /\ Goto(t, "prepFailed")
  /\ UNCHANGED <<phone, locals, conns, regs, running, bindings>>

\* The second checkpoint: attach the transport, or close it and give up.
Attach(t) ==
  /\ pc[t] = "attach" /\ StillValid(t)
  /\ tr' = myTr[t] /\ dialFn' = myTr[t]
  /\ reg' = [id |-> myGen[t], tr |-> myTr[t]]
  /\ Goto(t, IF op[t] = "Prepare" THEN "prepPublish" ELSE "regStart")
  /\ myTr' = [myTr EXCEPT ![t] = 0]
  /\ UNCHANGED <<state, preparing, gen, regCancel, mwi, subMgr,
                 op, myGen, myReg, mySvc, cancelled,
                 conns, regs, running, bindings>>

AttachStale(t) ==
  /\ pc[t] = "attach" /\ ~StillValid(t)
  /\ closed' = closed \cup {myTr[t]}
  /\ Goto(t, "prepFailed")
  /\ myTr' = [myTr EXCEPT ![t] = 0]
  /\ UNCHANGED <<phone, op, myGen, myReg, mySvc, cancelled,
                 opened, regs, running, bindings>>

-----------------------------------------------------------------------------
(* Prepare *)

PrepareBegin(t) ==
  /\ Calls(t, "Prepare")
  /\ ~preparing /\ state = "Disconnected" /\ gen < MaxGen
  /\ preparing' = TRUE /\ gen' = gen + 1
  /\ Begin(t, "Prepare", "stun")
  /\ UNCHANGED <<state, regCancel, tr, dialFn, reg, mwi, subMgr,
                 conns, regs, running, bindings>>

\* A superseded Prepare leaves everything, its own preparing mark included.
PrepareSuperseded(t) ==
  /\ op[t] = "Prepare" /\ pc[t] \in {"prepPublish", "prepFailed"}
  /\ gen # myGen[t]
  /\ Return(t)
  /\ UNCHANGED <<phone, conns, regs, running, bindings>>

PreparePublish(t) ==
  /\ pc[t] = "prepPublish" /\ gen = myGen[t]
  /\ preparing' = FALSE /\ state' = "Prepared"
  /\ Return(t)
  /\ UNCHANGED <<gen, regCancel, tr, dialFn, reg, mwi, subMgr,
                 conns, regs, running, bindings>>

PrepareFails(t) ==
  /\ op[t] = "Prepare" /\ pc[t] = "prepFailed" /\ gen = myGen[t]
  /\ preparing' = FALSE /\ tr' = 0 /\ reg' = NoReg
  /\ Return(t)
  /\ UNCHANGED <<state, gen, regCancel, dialFn, mwi, subMgr,
                 conns, regs, running, bindings>>

-----------------------------------------------------------------------------
(* Connect and Register, up to the REGISTER *)

\* Neither looks at preparing: a Prepare in flight is superseded.
SetupBegin(t, o) ==
  /\ Calls(t, o)
  /\ state = "Disconnected" /\ gen < MaxGen
  /\ state' = "Registering" /\ gen' = gen + 1
  /\ Begin(t, o, "stun")
  /\ UNCHANGED <<preparing, regCancel, tr, dialFn, reg, mwi, subMgr,
                 conns, regs, running, bindings>>

ConnectBegin(t) == SetupBegin(t, "Connect")

RegisterBegin(t) == SetupBegin(t, "Register")

\* Register on a transport that is already attached.
RegisterAgain(t) ==
  /\ Calls(t, "Register")
  /\ state \in {"Prepared", "RegistrationFailed"} /\ gen < MaxGen
  /\ reg' = IF reg = NoReg THEN [id |-> gen + 1, tr |-> tr] ELSE reg
  /\ state' = "Registering" /\ gen' = gen + 1
  /\ Begin(t, "Register", "regStart")
  /\ UNCHANGED <<preparing, regCancel, tr, dialFn, mwi, subMgr,
                 conns, regs, running, bindings>>

\* Mutant of TeardownAfterPrepareError: the error is returned and the state
\* left as it is.
TeardownForgotten(t) ==
  /\ op[t] \in {"Connect", "Register"} /\ pc[t] = "prepFailed"
  /\ Return(t)
  /\ UNCHANGED <<phone, conns, regs, running, bindings>>

TeardownAfterPrepareError(t) ==
  /\ op[t] \in {"Connect", "Register"} /\ pc[t] = "prepFailed"
  /\ IF gen = myGen[t] /\ state = "Registering"
       THEN state' = "Disconnected" /\ tr' = 0 /\ reg' = NoReg
       ELSE UNCHANGED <<state, tr, reg>>
  /\ Return(t)
  /\ UNCHANGED <<preparing, gen, regCancel, dialFn, mwi, subMgr,
                 conns, regs, running, bindings>>

-----------------------------------------------------------------------------
(* runRegistration *)

RegStart(t) ==
  /\ pc[t] = "regStart" /\ gen = myGen[t]
  /\ regCancel' = {t}
  /\ Goto(t, "regBegin")
  /\ myReg' = [myReg EXCEPT ![t] = reg]
  /\ UNCHANGED <<state, preparing, gen, tr, dialFn, reg, mwi, subMgr,
                 op, myGen, myTr, mySvc, cancelled,
                 conns, regs, running, bindings>>

\* Superseded before the REGISTER; Connect's own check returns as well.
RegStartStale(t) ==
  /\ pc[t] = "regStart" /\ gen # myGen[t]
  /\ Return(t)
  /\ UNCHANGED <<phone, conns, regs, running, bindings>>

\* registry.Start: a new lifecycle context, state Registering.
RegBegin(t) ==
  /\ pc[t] = "regBegin"
  /\ Goto(t, "regWait")
  /\ live' = live \cup {myReg[t].id}
  /\ registered' = registered \ {myReg[t].id}
  /\ UNCHANGED <<phone, locals, conns, running, bindings>>

\* External: the registrar accepts a REGISTER sent by the attempt.  A
\* cancelled context or a closed transport sends none.
RegistrarAccepts(t) ==
  /\ pc[t] = "regWait" /\ t \notin cancelled /\ myReg[t].tr \notin closed
  /\ bindings' = bindings \cup {myReg[t].tr}
  /\ Goto(t, "regAcked")
  /\ UNCHANGED <<phone, locals, conns, regs, running>>

\* registry.register got its 200: state Registered whatever Stop did, and the
\* refresh loop runs as long as the lifecycle context does.
RegOK(t) ==
  /\ pc[t] = "regAcked"
  /\ Goto(t, "regDone")
  /\ registered' = registered \cup {myReg[t].id}
  /\ UNCHANGED <<phone, locals, conns, live, running, bindings>>

\* Mutants of RegFails: the REGISTER has no timeout; the lifecycle context of a
\* registry that failed is left alive.
RegFailsNoTimeout(t) ==
  /\ pc[t] = "regAcked"
  /\ Goto(t, "regFailed")
  /\ live' = live \ {myReg[t].id}
  /\ UNCHANGED <<phone, locals, conns, registered, running, bindings>>

RegFailsStaysLive(t) ==
  /\ pc[t] \in {"regWait", "regAcked"}
  /\ Goto(t, "regFailed")
  /\ UNCHANGED <<phone, locals, conns, regs, running, bindings>>

\* Rejected, timed out, cancelled or the answer was lost.
RegFails(t) ==
  /\ pc[t] \in {"regWait", "regAcked"}
  /\ Goto(t, "regFailed")
  /\ live' = live \ {myReg[t].id}
  /\ UNCHANGED <<phone, locals, conns, registered, running, bindings>>

\* Back in the caller after a registration that failed or is stale.
RegReturn(t) ==
  IF op[t] = "Connect" THEN Goto(t, "connTeardown") /\ UNCHANGED locals
                       ELSE Return(t)

\* The result is stale: touch nothing.
RegStale(t) ==
  /\ pc[t] \in {"regDone", "regFailed"}
  /\ gen # myGen[t] \/ state # "Registering"
  /\ RegReturn(t)
  /\ UNCHANGED <<phone, conns, regs, running, bindings>>

RegPublish(t) ==
  /\ pc[t] = "regDone" /\ gen = myGen[t] /\ state = "Registering"
  /\ regCancel' = {} /\ state' = "Registered"
  /\ Goto(t, IF Voicemail THEN "mwiStart" ELSE "subStart")
  /\ UNCHANGED <<preparing, gen, tr, dialFn, reg, mwi, subMgr,
                 locals, conns, regs, running, bindings>>

RegPublishFailed(t) ==
  /\ pc[t] = "regFailed" /\ gen = myGen[t] /\ state = "Registering"
  /\ regCancel' = {} /\ state' = "RegistrationFailed"
  /\ RegReturn(t)
  /\ UNCHANGED <<preparing, gen, tr, dialFn, reg, mwi, subMgr,
                 conns, regs, running, bindings>>

NewService(t, kind) == [kind |-> kind, gen |-> myGen[t], tr |-> myReg[t].tr]

\* sub.start() and sm.start(), unlocked.
ServiceStart(t, kind) ==
  /\ running' = running \cup {NewService(t, kind)}
  /\ mySvc' = [mySvc EXCEPT ![t] = {NewService(t, kind)}]
  /\ UNCHANGED <<phone, op, myGen, myTr, myReg, cancelled,
                 conns, regs, bindings>>

MWIStart(t) ==
  pc[t] = "mwiStart" /\ Goto(t, "mwiStore") /\ ServiceStart(t, "mwi")

SubStart(t) ==
  pc[t] = "subStart" /\ Goto(t, "subStore") /\ ServiceStart(t, "sub")

\* Mutant of ServiceWanted: only the generation is compared, which Unregister
\* leaves alone.
ServiceWantedSameGen(t) == gen = myGen[t]

ServiceWanted(t) == gen = myGen[t] /\ state = "Registered"

\* Mutant of MWIStore: a subscriber nobody wants any more is dropped without
\* being stopped.
MWIStoreDrops(t) ==
  /\ pc[t] = "mwiStore"
  /\ mwi' = IF ServiceWanted(t) THEN NewService(t, "mwi") ELSE mwi
  /\ Goto(t, "subStart")
  /\ mySvc' = [mySvc EXCEPT ![t] = {}]
  /\ UNCHANGED <<state, preparing, gen, regCancel, tr, dialFn, reg, subMgr,
                 op, myGen, myTr, myReg, cancelled,
                 conns, regs, running, bindings>>

\* Store the service if the registration it belongs to still stands, else
\* stop it.
MWIStore(t) ==
  /\ pc[t] = "mwiStore"
  /\ IF ServiceWanted(t)
       THEN mwi' = NewService(t, "mwi") /\ UNCHANGED running
       ELSE running' = running \ mySvc[t] /\ UNCHANGED mwi
  /\ Goto(t, "subStart")
  /\ mySvc' = [mySvc EXCEPT ![t] = {}]
  /\ UNCHANGED <<state, preparing, gen, regCancel, tr, dialFn, reg, subMgr,
                 op, myGen, myTr, myReg, cancelled, conns, regs, bindings>>

SubStore(t) ==
  /\ pc[t] = "subStore"
  /\ IF ServiceWanted(t)
       THEN subMgr' = NewService(t, "sub") /\ UNCHANGED running
       ELSE running' = running \ mySvc[t] /\ UNCHANGED subMgr
  /\ Return(t)
  /\ UNCHANGED <<state, preparing, gen, regCancel, tr, dialFn, reg, mwi,
                 conns, regs, bindings>>

\* Connect after a failed registration: tear the transport down, unless the
\* phone belongs to a newer attempt.
ConnTeardown(t) ==
  /\ pc[t] = "connTeardown" /\ gen = myGen[t]
  /\ tr' = 0 /\ reg' = NoReg /\ state' = "Disconnected"
  /\ Goto(t, "close")
  /\ myTr' = [myTr EXCEPT ![t] = tr]
  /\ UNCHANGED <<preparing, gen, regCancel, dialFn, mwi, subMgr,
                 op, myGen, myReg, mySvc, cancelled,
                 conns, regs, running, bindings>>

ConnTeardownStale(t) ==
  /\ pc[t] = "connTeardown" /\ gen # myGen[t]
  /\ Return(t)
  /\ UNCHANGED <<phone, conns, regs, running, bindings>>

\* Mutant of CloseTransport: nothing is closed.
CloseForgotten(t) ==
  /\ pc[t] = "close"
  /\ Return(t)
  /\ UNCHANGED <<phone, conns, regs, running, bindings>>

\* tr.Close(), the last step of Connect's teardown and of Disconnect.
CloseTransport(t) ==
  /\ pc[t] = "close"
  /\ closed' = closed \cup ({myTr[t]} \ {0})
  /\ Return(t)
  /\ UNCHANGED <<phone, opened, regs, running, bindings>>

-----------------------------------------------------------------------------
(* Unregister and Disconnect *)

\* The services the phone holds.
Held == {mwi, subMgr} \ {NoService}

\* Mutant of UnregisterBegin: Prepared is published before the un-REGISTER.
UnregisterPublishesFirst(t) ==
  /\ Calls(t, "Unregister")
  /\ state \in {"Registered", "RegistrationFailed"}
  /\ state' = "Prepared"
  /\ reg' = NoReg /\ mwi' = NoService /\ subMgr' = NoService
  /\ Goto(t, "unStop") /\ Frame(t, "Unregister", 0, 0, reg, Held)
  /\ UNCHANGED <<preparing, gen, regCancel, tr, dialFn, cancelled,
                 conns, regs, running, bindings>>

\* The generation is neither moved on nor remembered.
UnregisterBegin(t) ==
  /\ Calls(t, "Unregister")
  /\ state \in {"Registered", "RegistrationFailed"}
  /\ state' = "Unregistering"
  /\ reg' = NoReg /\ mwi' = NoService /\ subMgr' = NoService
  /\ Goto(t, "unStop") /\ Frame(t, "Unregister", 0, 0, reg, Held)
  /\ UNCHANGED <<preparing, gen, regCancel, tr, dialFn, cancelled,
                 conns, regs, running, bindings>>

\* Mutant of DisconnectBegin: the REGISTER in flight is not cancelled.
DisconnectNoCancel(t) ==
  /\ Calls(t, "Disconnect")
  /\ state # "Disconnected"
  /\ gen' = gen + 1 /\ regCancel' = {} /\ state' = "Disconnected"
  /\ reg' = NoReg /\ tr' = 0 /\ mwi' = NoService /\ subMgr' = NoService
  /\ Goto(t, "dStop") /\ Frame(t, "Disconnect", 0, tr, reg, Held)
  /\ UNCHANGED <<preparing, dialFn, cancelled, conns, regs, running, bindings>>

DisconnectBegin(t) ==
  /\ Calls(t, "Disconnect")
  /\ state # "Disconnected"
  /\ gen' = gen + 1 /\ regCancel' = {} /\ state' = "Disconnected"
  /\ reg' = NoReg /\ tr' = 0 /\ mwi' = NoService /\ subMgr' = NoService
  /\ Goto(t, "dStop") /\ Frame(t, "Disconnect", 0, tr, reg, Held)
  /\ cancelled' = cancelled \cup regCancel
  /\ UNCHANGED <<preparing, dialFn, conns, regs, running, bindings>>

\* Disconnect cancels a Prepare in flight.
DisconnectPrepare(t) ==
  /\ Calls(t, "Disconnect")
  /\ state = "Disconnected" /\ preparing
  /\ preparing' = FALSE /\ gen' = gen + 1 /\ tr' = 0 /\ reg' = NoReg
  /\ Goto(t, "close") /\ Frame(t, "Disconnect", 0, tr, NoReg, {})
  /\ UNCHANGED <<state, regCancel, dialFn, mwi, subMgr, cancelled,
                 conns, regs, running, bindings>>

\* sm.stop() and mwi.stop()
StopServices(t) ==
  /\ pc[t] \in {"unStop", "dStop"}
  /\ running' = running \ mySvc[t]
  /\ Goto(t, IF pc[t] = "unStop" THEN "unReg" ELSE "dUnreg")
  /\ mySvc' = [mySvc EXCEPT ![t] = {}]
  /\ UNCHANGED <<phone, op, myGen, myTr, myReg, cancelled,
                 conns, regs, bindings>>

\* registry.UnregisterCtx: an un-REGISTER only when Registered, removing the
\* contact unless it is lost or rejected.
UnregisterCtx(t) ==
  /\ pc[t] \in {"unReg", "dUnreg"}
  /\ \/ UNCHANGED bindings
     \/ /\ myReg[t].id \in registered /\ myReg[t].tr \notin closed
        /\ bindings' = bindings \ {myReg[t].tr}
  /\ Goto(t, IF pc[t] = "unReg" THEN "unRegStop" ELSE "dRegStop")
  /\ UNCHANGED <<phone, locals, conns, regs, running>>

\* registry.Stop
RegistryStop(t) ==
  /\ pc[t] \in {"unRegStop", "dRegStop"}
  /\ live' = live \ {myReg[t].id}
  /\ registered' = registered \ {myReg[t].id}
  /\ Goto(t, IF pc[t] = "unRegStop" THEN "unPublish" ELSE "close")
  /\ UNCHANGED <<phone, locals, conns, running, bindings>>

\* Mutants of UnregisterPublish: Prepared whatever Disconnect did meanwhile; a
\* state the phone does not have.
UnregisterPublishesAnyway(t) ==
  /\ pc[t] = "unPublish"
  /\ state' = "Prepared"
  /\ Return(t)
  /\ UNCHANGED <<preparing, gen, regCancel, tr, dialFn, reg, mwi, subMgr,
                 conns, regs, running, bindings>>

UnregisterPublishesUnregistered(t) ==
  /\ pc[t] = "unPublish"
  /\ state' = IF state = "Unregistering" THEN "Unregistered" ELSE state
  /\ Return(t)
  /\ UNCHANGED <<preparing, gen, regCancel, tr, dialFn, reg, mwi, subMgr,
                 conns, regs, running, bindings>>

\* Prepared, unless the state has moved on.
UnregisterPublish(t) ==
  /\ pc[t] = "unPublish"
  /\ state' = IF state = "Unregistering" THEN "Prepared" ELSE state
  /\ Return(t)
  /\ UNCHANGED <<preparing, gen, regCancel, tr, dialFn, reg, mwi, subMgr,
                 conns, regs, running, bindings>>

-----------------------------------------------------------------------------
PrepareTransport(t) ==
  \/ PostStun(t) \/ BuildOK(t) \/ BuildFails(t) \/ Attach(t) \/ AttachStale(t)

RunRegistration(t) ==
  \/ RegStart(t) \/ RegStartStale(t) \/ RegBegin(t) \/ RegOK(t) \/ RegFails(t)
  \/ RegStale(t) \/ RegPublish(t) \/ RegPublishFailed(t)
  \/ MWIStart(t) \/ MWIStore(t) \/ SubStart(t) \/ SubStore(t)

\* What a goroutine inside a call does.
Step(t) ==
  \/ PrepareTransport(t) \/ RunRegistration(t)
  \/ PrepareSuperseded(t) \/ PreparePublish(t) \/ PrepareFails(t)
  \/ TeardownAfterPrepareError(t)
  \/ ConnTeardown(t) \/ ConnTeardownStale(t) \/ CloseTransport(t)
  \/ StopServices(t) \/ UnregisterCtx(t) \/ RegistryStop(t)
  \/ UnregisterPublish(t)

\* A goroutine enters a call.
Enter(t) ==
  \/ PrepareBegin(t) \/ ConnectBegin(t) \/ RegisterBegin(t) \/ RegisterAgain(t)
  \/ UnregisterBegin(t) \/ DisconnectBegin(t) \/ DisconnectPrepare(t)

Next ==
  \E t \in Threads : Enter(t) \/ Step(t) \/ CancelCtx(t) \/ RegistrarAccepts(t)

Spec == Init /\ [][Next]_vars

FairSpec == Spec /\ \A t \in Threads : WF_vars(Step(t))

-----------------------------------------------------------------------------
(* Properties *)

\* Type correctness: every field of the phone struct, and every local of a
\* call in flight, has the type its Go declaration gives it.
TypeOK ==
  /\ state \in PhoneState /\ preparing \in BOOLEAN /\ gen \in Nat
  /\ regCancel \in SUBSET Threads /\ tr \in Nat /\ dialFn \in Nat
  /\ reg \in Registry /\ mwi \in Service /\ subMgr \in Service
  /\ pc \in [Threads -> PC] /\ op \in [Threads -> AllOps \cup {"none"}]
  /\ myGen \in [Threads -> Nat] /\ myTr \in [Threads -> Nat]
  /\ myReg \in [Threads -> Registry] /\ mySvc \in [Threads -> SUBSET Service]
  /\ cancelled \in SUBSET Threads
  /\ opened \in SUBSET Nat /\ closed \in SUBSET Nat
  /\ live \in SUBSET Nat /\ registered \in SUBSET Nat
  /\ running \in SUBSET Service /\ bindings \in SUBSET Nat

Ready == {"Prepared", "Registered", "RegistrationFailed", "Unregistering"}

\* A phone that tells its user it has a transport has one: in Prepared,
\* Registered, RegistrationFailed and Unregistering, p.tr is attached and was
\* never closed, p.dialFn dials through that very transport, and the registry,
\* if there is one, registers over it.  (The stale-attempt checks of
\* prepareTransport, runRegistration and Unregister are there for this.)
ReadyHasTransport ==
  state \in Ready =>
    /\ tr \in Open
    /\ dialFn = tr
    /\ reg # NoReg => reg.tr = tr
    /\ state \in {"Registered", "RegistrationFailed"} => reg # NoReg

\* Nobody uses a service of a registration that is gone: a stored MWI
\* subscriber or subscription manager runs, and over the attached transport,
\* and the phone is Registered (runRegistration stores under the lock only if
\* the generation and the state still match).
ServicesMatchRegistration ==
  \A s \in Held : s \in running /\ s.tr = tr /\ state = "Registered"

\* No MWI subscriber or subscription manager is left running with nobody to
\* stop it, however Unregister and Disconnect race with the registration that
\* starts them.
NoOrphanService ==
  running = Held \cup UNION {mySvc[t] : t \in Threads}

\* The REGISTER of a superseded attempt is always cancelled: an attempt that
\* may still send one owns the current generation and p.regCancel, so that
\* Disconnect reaches it.
OnlyCurrentAttemptRegisters ==
  \A t \in Threads :
    pc[t] \in {"regBegin", "regWait"} =>
      \/ t \in cancelled
      \/ regCancel = {t} /\ gen = myGen[t] /\ state = "Registering"

\* The phone is never stuck in a transient state: while it is Registering, the
\* attempt that owns the current generation is still in flight and will publish
\* an outcome; while it is Unregistering, an Unregister is.
TransientHasOwner ==
  /\ state = "Registering" =>
       \E t \in Threads : /\ op[t] \in {"Register", "Connect"}
                          /\ myGen[t] = gen
                          /\ pc[t] \in Setup \cup Registration
  /\ state = "Unregistering" => \E t \in Threads : op[t] = "Unregister"

\* No registry keeps refreshing with nobody to stop it: one whose lifecycle
\* context is live is p.reg, or in the hands of a call that will stop it or
\* whose own REGISTER will fail; and Start never replaces a live context
\* (whose cancel function would be lost).
NoOrphanRegistry ==
  /\ \A id \in live : \/ reg.id = id
                      \/ \E t \in Threads :
                           /\ myReg[t].id = id
                           /\ pc[t] \in {"regWait"} \cup Unreg \cup Disc
  /\ \A t \in Threads : pc[t] = "regBegin" => myReg[t].id \notin live

\* An open transport is attached, or some call holds it and will attach or
\* close it.
NoTransportLeak ==
  \A x \in Open : tr = x \/ \E t \in Threads : myTr[t] = x

\* A superseded attempt touches nothing: once another call moved the
\* generation on, no later step of a Prepare, Register or Connect changes a
\* field of the phone.
StaleTouchesNothing ==
  [][\A t \in Threads :
       /\ op[t] \in {"Prepare", "Register", "Connect"}
       /\ myGen[t] # gen
       /\ pc'[t] # pc[t]
       => UNCHANGED phone]_vars

\* A phone in state Registered has a contact at the registrar: no late
\* un-REGISTER of an earlier registration removes it.
RegisteredHasBinding == state = "Registered" => tr \in bindings

\* The transport the phone works over, for its user: none while Disconnected
\* and none before the current attempt has attached its own.
Line ==
  IF state = "Disconnected"
       \/ \E t \in Threads : pc[t] \in Setup /\ myGen[t] = gen
    THEN 0 ELSE tr

Abstract == INSTANCE PhoneService WITH line <- Line, retired <- closed

\* The phone implements the state machine it shows its user (PhoneService).
ImplementsService == Abstract!Spec

\* Every call returns, whatever the registrar and the other calls do.
CallsReturn == \A t \in Threads : pc[t] # "idle" ~> pc[t] = "idle"

\* A transport that is not (or no longer) attached is eventually closed.
DetachedIsClosed ==
  \A x \in 1..MaxGen : x \in Open /\ tr # x ~> x \notin Open \/ tr = x
=============================================================================
