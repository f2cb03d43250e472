------------------------------ MODULE Registry ------------------------------
(***************************************************************************)
(* The registration of a phone (registry.go): Start with its initial       *)
(* register, the loop that spawns refreshes, handleDrop with its           *)
(* re-registration goroutines, Stop and UnregisterCtx, against a registrar *)
(* that accepts, rejects or does not answer.                               *)
(*                                                                         *)
(* A registry is started once (xphone.go makes a new one for each          *)
(* Register).  An action is one critical section of r.mu or one SIP        *)
(* transaction.  The user's callbacks change no state of the registry and  *)
(* are left out.                                                           *)
(***************************************************************************)
EXTENDS Integers, FiniteSets

CONSTANTS
  Rereg,       \* identities for the goroutines that handleDrop starts
  Refreshers,  \* identities for the goroutines that loop starts
  MaxRetry     \* cfg.RegisterMaxRetry

ASSUME MaxRetryAssumption == MaxRetry \in Nat \ {0}
ASSUME WorkersAssumption == "start" \notin Rereg

Workers == {"start"} \cup Rereg

VARIABLES
  state,          \* r.state
  ctx,            \* the lifecycle context r.ctx: nil, live or cancelled
  caller,         \* the context passed to Start
  reregistering,  \* r.reregistering
  pc,             \* where each goroutine inside register is
  attempt,        \* its loop counter
  loop,           \* the loop goroutine
  refresh,        \* where each refresh goroutine is
  unreg           \* where UnregisterCtx is

registering == <<pc, attempt>>
vars == <<state, ctx, caller, reregistering, registering, loop, refresh, unreg>>

Init ==
  /\ state = "Disconnected" /\ ctx = "nil" /\ caller = "live"
  /\ reregistering = FALSE
  /\ pc = [w \in Workers |-> "idle"] /\ attempt = [w \in Workers |-> 0]
  /\ loop = "none" /\ refresh = [r \in Refreshers |-> "idle"]
  /\ unreg = "idle"

-----------------------------------------------------------------------------
(* register *)

CtxOf(w) == IF w = "start" THEN caller ELSE ctx

Start ==
  /\ ctx = "nil"
  /\ ctx' = "live"
  /\ state' = "Registering"
  /\ pc' = [pc EXCEPT !["start"] = "send"]
  /\ UNCHANGED <<caller, reregistering, attempt, loop, refresh, unreg>>

\* register returns: Start begins the loop or, on an error, cancels the
\* lifecycle context; a re-registration goroutine goes on to clear its flag.
Return(w, ok) ==
  IF w = "start"
    THEN /\ pc' = [pc EXCEPT ![w] = "done"]
         /\ loop' = IF ok THEN "running" ELSE loop
         /\ ctx' = IF ok THEN ctx ELSE "cancelled"
    ELSE /\ pc' = [pc EXCEPT ![w] = "clear"]
         /\ UNCHANGED <<loop, ctx>>

\* A 200, also one that arrives after Stop or after another goroutine failed.
RegisterAccepted(w) ==
  /\ pc[w] = "send"
  /\ state' = "Registered"
  /\ Return(w, TRUE)
  /\ UNCHANGED <<caller, reregistering, attempt, refresh, unreg>>

\* Mutant: one attempt too many.
RegisterFailedOnceMore(w) ==
  /\ pc[w] = "send"
  /\ IF attempt[w] < MaxRetry
       THEN /\ pc' = [pc EXCEPT ![w] = "pause"]
            /\ attempt' = [attempt EXCEPT ![w] = @ + 1]
            /\ UNCHANGED <<state, loop, ctx>>
       ELSE /\ state' = "RegistrationFailed"
            /\ Return(w, FALSE)
            /\ UNCHANGED attempt
  /\ UNCHANGED <<caller, reregistering, refresh, unreg>>

\* Mutant: exhausting the retries is only reported, not recorded.
RegisterFailedSilently(w) ==
  /\ pc[w] = "send"
  /\ IF attempt[w] + 1 < MaxRetry
       THEN /\ pc' = [pc EXCEPT ![w] = "pause"]
            /\ attempt' = [attempt EXCEPT ![w] = @ + 1]
            /\ UNCHANGED <<loop, ctx>>
       ELSE Return(w, FALSE) /\ UNCHANGED attempt
  /\ UNCHANGED <<state, caller, reregistering, refresh, unreg>>

\* A rejection, an error or a time-out.
RegisterFailed(w) ==
  /\ pc[w] = "send"
  /\ IF attempt[w] + 1 < MaxRetry
       THEN /\ pc' = [pc EXCEPT ![w] = "pause"]
            /\ attempt' = [attempt EXCEPT ![w] = @ + 1]
            /\ UNCHANGED <<state, loop, ctx>>
       ELSE /\ state' = "RegistrationFailed"
            /\ Return(w, FALSE)
            /\ UNCHANGED attempt
  /\ UNCHANGED <<caller, reregistering, refresh, unreg>>

\* The delay between two attempts is over.
Retry(w) ==
  /\ pc[w] = "pause"
  /\ pc' = [pc EXCEPT ![w] = "send"]
  /\ UNCHANGED <<state, ctx, caller, reregistering, attempt, loop, refresh,
                 unreg>>

\* <-ctx.Done() in the delay: the state is left as it is.
GiveUp(w) ==
  /\ pc[w] = "pause" /\ CtxOf(w) = "cancelled"
  /\ Return(w, FALSE)
  /\ UNCHANGED <<state, caller, reregistering, attempt, refresh, unreg>>

\* The last lines of the goroutine of handleDrop.
ClearReregistering(w) ==
  /\ w # "start" /\ pc[w] = "clear"
  /\ reregistering' = FALSE
  /\ pc' = [pc EXCEPT ![w] = "idle"]
  /\ UNCHANGED <<state, ctx, caller, attempt, loop, refresh, unreg>>

-----------------------------------------------------------------------------
(* handleDrop, refresh and loop *)

SpawnRegister ==
  \E w \in Rereg :
    /\ pc[w] = "idle"
    /\ pc' = [pc EXCEPT ![w] = "send"]
    /\ attempt' = [attempt EXCEPT ![w] = 0]

\* Mutant: repeated drops are not deduplicated.
HandleDropAgain ==
  IF state = "Disconnected"
    THEN UNCHANGED <<state, reregistering, registering>>
    ELSE state' = "Registering" /\ reregistering' = TRUE /\ SpawnRegister

\* Mutant: the state is set before the guard on reregistering.
HandleDropEagerState ==
  /\ state' = IF state = "Disconnected" THEN state ELSE "Registering"
  /\ IF state = "Disconnected" \/ reregistering
       THEN UNCHANGED <<reregistering, registering>>
       ELSE reregistering' = TRUE /\ SpawnRegister

\* (r.ctx is nil only in a registry that is not started, and Disconnected.)
HandleDrop ==
  IF state = "Disconnected" \/ reregistering
    THEN UNCHANGED <<state, reregistering, registering>>
    ELSE state' = "Registering" /\ reregistering' = TRUE /\ SpawnRegister

\* The transport reports a dropped connection; Start has set the handler.
TransportDrop ==
  /\ ctx # "nil"
  /\ HandleDrop
  /\ UNCHANGED <<ctx, caller, loop, refresh, unreg>>

RefreshTick(r) ==
  /\ loop = "running" /\ refresh[r] = "idle"
  /\ refresh' = [refresh EXCEPT ![r] = "send"]
  /\ UNCHANGED <<state, ctx, caller, reregistering, registering, loop, unreg>>

\* "still registered": the state is not touched.
RefreshAccepted(r) ==
  /\ refresh[r] = "send"
  /\ refresh' = [refresh EXCEPT ![r] = "idle"]
  /\ UNCHANGED <<state, ctx, caller, reregistering, registering, loop, unreg>>

RefreshFailed(r) ==
  /\ refresh[r] = "send"
  /\ refresh' = [refresh EXCEPT ![r] = "drop"]
  /\ UNCHANGED <<state, ctx, caller, reregistering, registering, loop, unreg>>

RefreshDrop(r) ==
  /\ refresh[r] = "drop"
  /\ HandleDrop
  /\ refresh' = [refresh EXCEPT ![r] = "idle"]
  /\ UNCHANGED <<ctx, caller, loop, unreg>>

\* Mutant: the loop runs on the context of the caller of Start.
LoopExitOnCaller ==
  /\ loop = "running" /\ caller = "cancelled"
  /\ loop' = "done"
  /\ UNCHANGED <<state, ctx, caller, reregistering, registering, refresh,
                 unreg>>

LoopExit ==
  /\ loop = "running" /\ ctx = "cancelled"
  /\ loop' = "done"
  /\ UNCHANGED <<state, ctx, caller, reregistering, registering, refresh,
                 unreg>>

-----------------------------------------------------------------------------
(* The phone and the registrar *)

Stop ==
  /\ ctx # "nil"
  /\ ctx' = "cancelled"
  /\ state' = "Disconnected"
  /\ UNCHANGED <<caller, reregistering, registering, loop, refresh, unreg>>

\* Disconnect, or the caller of Register, cancels the context of Start.
CancelCaller ==
  /\ caller = "live" /\ pc["start"] \in {"send", "pause"}
  /\ caller' = "cancelled"
  /\ UNCHANGED <<state, ctx, reregistering, registering, loop, refresh, unreg>>

\* UnregisterCtx sends nothing unless the state is Registered.
Unregister ==
  /\ unreg = "idle" /\ pc["start"] = "done"
  /\ unreg' = IF state = "Registered" THEN "send" ELSE "done"
  /\ UNCHANGED <<state, ctx, caller, reregistering, registering, loop, refresh>>

\* The un-REGISTER is answered, rejected or times out.
UnregisterDone ==
  /\ unreg = "send"
  /\ unreg' = "done"
  /\ UNCHANGED <<state, ctx, caller, reregistering, registering, loop, refresh>>

-----------------------------------------------------------------------------
Register(w) ==
  RegisterAccepted(w) \/ RegisterFailed(w) \/ Retry(w) \/ GiveUp(w)
    \/ ClearReregistering(w)

Refresh(r) == RefreshAccepted(r) \/ RefreshFailed(r) \/ RefreshDrop(r)

Next ==
  \/ Start \/ Stop \/ CancelCaller \/ Unregister \/ UnregisterDone
  \/ TransportDrop \/ LoopExit
  \/ \E w \in Workers : Register(w)
  \/ \E r \in Refreshers : RefreshTick(r) \/ Refresh(r)

Spec == Init /\ [][Next]_vars

\* Goroutines make progress and every SIP transaction ends.
FairSpec ==
  /\ Spec /\ WF_vars(LoopExit)
  /\ \A w \in Workers : WF_vars(Register(w))
  /\ \A r \in Refreshers : WF_vars(Refresh(r))

-----------------------------------------------------------------------------
(* Properties *)

\* Type correctness: fields, contexts and program counters have their types,
\* and register makes at most RegisterMaxRetry attempts.
TypeOK ==
  /\ state \in {"Disconnected", "Registering", "Registered",
                "RegistrationFailed"}
  /\ ctx \in {"nil", "live", "cancelled"} /\ caller \in {"live", "cancelled"}
  /\ reregistering \in BOOLEAN
  /\ pc \in [Workers -> {"idle", "send", "pause", "clear", "done"}]
  /\ attempt \in [Workers -> 0..(MaxRetry - 1)]
  /\ loop \in {"none", "running", "done"}
  /\ refresh \in [Refreshers -> {"idle", "send", "drop"}]
  /\ unreg \in {"idle", "send", "done"}

\* The flag reregistering does what registry.go:29 wants of it: when it is set
\* one re-registration goroutine runs, which will clear it, so that no drop is
\* ignored for ever; when it is not set none runs.
ReregisteringIsOwned ==
  /\ \A v, w \in Rereg : pc[v] # "idle" /\ pc[w] # "idle" => v = w
  /\ reregistering <=> \E w \in Rereg : pc[w] # "idle"

\* A registry that says Registering, and was not stopped, is registering: some
\* goroutine is inside register, before its verdict.  Otherwise the phone
\* would wait for a registration nobody attempts.
RegisteringIsOwned ==
  state = "Registering" /\ ctx = "live" =>
    \E w \in Workers : pc[w] \in {"send", "pause"}

\* Registering does not last: the registration succeeds, is given up, or is
\* cancelled (register, whatever drops arrive meanwhile).
RegisteringEnds ==
  state = "Registering" ~> state # "Registering" \/ ctx = "cancelled"

\* Once the lifecycle context is cancelled, by Stop or by a failed Start, all
\* goroutines exit (registry.go:25).
StopStopsAll ==
  ctx = "cancelled" ~>
    /\ loop # "running" /\ \A r \in Refreshers : refresh[r] = "idle"
    /\ \A w \in Workers : pc[w] \in {"idle", "done"}
=============================================================================
