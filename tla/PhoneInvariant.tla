--------------------------- MODULE PhoneInvariant ---------------------------
(***************************************************************************)
(* The inductive invariant of PhoneLifecycle.                              *)
(***************************************************************************)
EXTENDS PhoneLifecycle

Attempts == {"Prepare", "Register", "Connect"}

\* Which steps belong to which operation, and which locals they use.
Shape ==
  \A t \in Threads :
    /\ op[t] = "none" <=> pc[t] = "idle"
    /\ op[t] = "Prepare" => pc[t] \in Setup \cup {"prepPublish"}
    /\ op[t] \in {"Register", "Connect"} =>
         pc[t] \in Setup \cup Registration \cup Services
                        \cup {"connTeardown", "close"}
    /\ op[t] = "Unregister" => pc[t] \in Unreg
    /\ op[t] = "Disconnect" => pc[t] \in Disc \cup {"close"}
    /\ myTr[t] # 0 => pc[t] \in Disc \cup {"attach", "close"}

\* Attempts have distinct generations, none newer than the phone's.
Generations ==
  /\ \A t \in Threads : op[t] \in Attempts => myGen[t] \in 1..gen
  /\ \A s, t \in Threads :
       s # t /\ op[s] \in Attempts /\ op[t] \in Attempts =>
         myGen[s] # myGen[t]

\* A transport is in one place only: attached, or in the hands of one call.
\* An attached transport, and one about to be attached, is open.
Transports ==
  /\ opened \subseteq 1..gen /\ closed \subseteq opened
  /\ tr # 0 => tr \in Open
  /\ \A t \in Threads : myTr[t] # 0 => myTr[t] \in opened /\ myTr[t] # tr
  /\ \A s, t \in Threads : s # t /\ myTr[s] # 0 => myTr[s] # myTr[t]
  /\ \A t \in Threads : pc[t] = "attach" =>
                          myTr[t] = myGen[t] /\ myTr[t] \in Open
  /\ \A t \in Threads : pc[t] \in {"stun", "build"} =>
                          myGen[t] \notin opened

\* What p.tr, p.dialFn and p.reg look like once a transport is attached.
Attached == tr # 0 /\ dialFn = tr /\ reg # NoReg /\ reg.tr = tr

\* An attempt that owns the current generation knows the state of the phone.
Owner ==
  \A t \in Threads :
    op[t] \in Attempts /\ myGen[t] = gen =>
      /\ op[t] = "Prepare" => state = "Disconnected" /\ preparing
      /\ pc[t] = "prepPublish" => Attached
      /\ op[t] # "Prepare" /\ pc[t] \in Setup => state = "Registering"
      /\ pc[t] \in Registration => state = "Registering" /\ Attached
      /\ pc[t] \in Services \cup {"connTeardown"} => state \in Ready

\* ReadyHasTransport, with the transport's openness left to Transports.
ReadyAttached ==
  state \in Ready =>
    /\ tr # 0 /\ dialFn = tr
    /\ reg # NoReg => reg.tr = tr
    /\ state \in {"Registered", "RegistrationFailed"} => reg # NoReg

\* The inductive invariant.
IInv ==
  /\ TypeOK /\ Shape /\ Generations /\ Transports /\ Owner /\ ReadyAttached
  /\ OnlyCurrentAttemptRegisters /\ TransientHasOwner

-----------------------------------------------------------------------------
(* The part about the MWI subscriber and the subscription manager. *)

\* Which services a call has in its hands, and over which transport it started
\* them.
ServiceShape ==
  \A t \in Threads :
    /\ pc[t] = "mwiStore" => mySvc[t] = {NewService(t, "mwi")}
    /\ pc[t] = "subStore" => mySvc[t] = {NewService(t, "sub")}
    /\ pc[t] \notin {"mwiStore", "subStore", "unStop", "dStop"} => mySvc[t] = {}
    /\ pc[t] \in (Registration \ {"regStart"}) \cup Services
         /\ myGen[t] = gen => myReg[t].tr = tr

\* A stored service belongs to the current registration, and a Connect that is
\* about to tear the phone down finds none.
Stored ==
  /\ mwi # NoService => /\ state = "Registered" /\ mwi.kind = "mwi"
                        /\ mwi.gen = gen /\ mwi.tr = tr
  /\ subMgr # NoService => /\ state = "Registered" /\ subMgr.kind = "sub"
                           /\ subMgr.gen = gen /\ subMgr.tr = tr
  /\ \A t \in Threads : pc[t] = "connTeardown" /\ myGen[t] = gen =>
                          state # "Registered"

\* A running service is in one place: stored, or in the hands of one call.
ServiceOwned ==
  /\ \A x \in running : x \in Held \/ \E t \in Threads : x \in mySvc[t]
  /\ Held \subseteq running
  /\ \A t \in Threads : mySvc[t] \subseteq running
  /\ \A t \in Threads : mySvc[t] \cap Held = {}
  /\ \A s, t \in Threads : s # t => mySvc[s] \cap mySvc[t] = {}

\* An attempt starts each of its services once.
ServiceFresh ==
  /\ \A x \in running : x.gen \in 1..gen
  /\ \A t \in Threads : \A x \in running \ mySvc[t] :
       op[t] \in Attempts /\ x.gen = myGen[t] =>
         /\ pc[t] \in Services
         /\ pc[t] \notin {"mwiStart", "mwiStore"}
         /\ x.kind = "mwi"

SInv == ServiceShape /\ Stored /\ ServiceOwned /\ ServiceFresh

=============================================================================
