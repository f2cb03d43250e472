--------------------------- MODULE Subscriptions ---------------------------
(***************************************************************************)
(* The subscription manager (subscribe.go): Watch and SubscribeEvent,      *)
(* their refresh goroutines, the NOTIFYs of the server, each handled in a  *)
(* goroutine of its own (sipua.go:535), resubscription, Unwatch and the    *)
(* stop of the manager.                                                    *)
(*                                                                         *)
(* An action is one critical section of m.mu, one SIP transaction or one   *)
(* access to sub.refreshCancel outside of m.mu.  Which subscriptions a     *)
(* NOTIFY matches is left open: two of them may watch the same extension.  *)
(* The contents of a NOTIFY and the user's callbacks are left out.         *)
(***************************************************************************)
EXTENDS FiniteSets

CONSTANTS
  Subs,        \* subscriptions the user makes
  Refreshers,  \* bound: the refresh goroutines that are ever started
  Notifies     \* bound: the NOTIFYs that arrive; each may resubscribe once

ASSUME NilAssumption == "nil" \notin Subs \cup Refreshers

VARIABLES
  subs,       \* m.subs
  stop,       \* where stop is; m.ctx is cancelled by its first step
  task,       \* where doSubscribe of each subscription is
  removal,    \* where remove of each subscription is
  current,    \* sub.refreshCancel, as the goroutine it cancels
  owner,      \* the subscription of each refresh goroutine
  cancelled,  \* the refresh goroutines whose context is cancelled
  refresh,    \* where each refresh goroutine is
  notify,     \* where the handler of each NOTIFY is
  match,      \* the subscription it found
  cancelFn,   \* its cancelFn
  restart,    \* the handlers with restartRefresh
  resub,      \* the handlers that start resubscribe
  again       \* where the resubscribe goroutine of each NOTIFY is

goroutines == <<current, owner, cancelled, refresh>>
handlers   == <<notify, match, cancelFn, restart, resub>>
vars == <<subs, stop, task, removal, goroutines, handlers, again>>

Nil == "nil"

Init ==
  /\ subs = {} /\ stop = "none"
  /\ task = [s \in Subs |-> "none"] /\ removal = [s \in Subs |-> "none"]
  /\ current = [s \in Subs |-> Nil]
  /\ owner = [g \in Refreshers |-> Nil] /\ cancelled = {}
  /\ refresh = [g \in Refreshers |-> "none"]
  /\ notify = [n \in Notifies |-> "none"] /\ match = [n \in Notifies |-> Nil]
  /\ cancelFn = [n \in Notifies |-> Nil] /\ restart = {} /\ resub = {}
  /\ again = [n \in Notifies |-> "none"]

\* An identity that f has not used yet.
Unused(f) == {x \in DOMAIN f : f[x] = "none"}
Fresh(f)  == CHOOSE x \in Unused(f) : TRUE

\* startRefresh: the new goroutine replaces the old one in sub.refreshCancel,
\* but does not cancel it.
StartRefresh(s) ==
  LET g == Fresh(refresh)
  IN  /\ Unused(refresh) # {}
      /\ refresh' = [refresh EXCEPT ![g] = "waiting"]
      /\ owner' = [owner EXCEPT ![g] = s]
      /\ current' = [current EXCEPT ![s] = g]
      /\ UNCHANGED cancelled

\* Mutant: refreshCancel is called without the check for nil.
CancelUnchecked(g) ==
  /\ cancelled' = cancelled \cup {g}
  /\ UNCHANGED <<current, owner, refresh>>

Cancel(g) ==
  /\ cancelled' = cancelled \cup ({g} \ {Nil})
  /\ UNCHANGED <<current, owner, refresh>>

-----------------------------------------------------------------------------
(* watch, subscribeEvent and unwatch, unsubscribeEvent *)

\* The entry is made before the SUBSCRIBE is sent.
DoSubscribe(s) ==
  /\ task[s] = "none"
  /\ task' = [task EXCEPT ![s] = "send"]
  /\ subs' = subs \cup {s}
  /\ UNCHANGED <<stop, removal, goroutines, handlers, again>>

SubscribeRejected(s) ==
  /\ task[s] = "send"
  /\ task' = [task EXCEPT ![s] = "failed"]
  /\ subs' = subs \ {s}
  /\ UNCHANGED <<stop, removal, goroutines, handlers, again>>

SubscribeAccepted(s) ==
  /\ task[s] = "send"
  /\ task' = [task EXCEPT ![s] = "start"]
  /\ UNCHANGED <<subs, stop, removal, goroutines, handlers, again>>

SubscribeReturns(s) ==
  /\ task[s] = "start"
  /\ task' = [task EXCEPT ![s] = "done"]
  /\ StartRefresh(s)
  /\ UNCHANGED <<subs, stop, removal, handlers, again>>

\* remove; the user knows the ID once doSubscribe has returned.  What becomes
\* of its sendUnsubscribe changes nothing here.
Remove(s) ==
  /\ task[s] = "done" /\ s \in subs
  /\ subs' = subs \ {s}
  /\ removal' = [removal EXCEPT ![s] = "cancel"]
  /\ UNCHANGED <<stop, task, goroutines, handlers, again>>

RemoveCancels(s) ==
  /\ removal[s] = "cancel"
  /\ removal' = [removal EXCEPT ![s] = "done"]
  /\ Cancel(current[s])
  /\ UNCHANGED <<subs, stop, task, handlers, again>>

-----------------------------------------------------------------------------
(* The refresh goroutine *)

Done(g) == g \in cancelled \/ stop # "none"

\* A tick, and a refresh that is rejected; one that is accepted, or fails
\* without an answer, changes nothing.  The answer may come when the context
\* is cancelled already.
RefreshRejected(g) ==
  /\ refresh[g] = "waiting"
  /\ refresh' = [refresh EXCEPT ![g] = "reject"]
  /\ subs' = subs \ {owner[g]}
  /\ UNCHANGED <<stop, task, removal, current, owner, cancelled, handlers, again>>

RefreshCancels(g) ==
  /\ refresh[g] = "reject"
  /\ refresh' = [refresh EXCEPT ![g] = "waiting"]
  /\ cancelled' = cancelled \cup ({current[owner[g]]} \ {Nil})
  /\ UNCHANGED <<subs, stop, task, removal, current, owner, handlers, again>>

\* Mutant: the context of a refresh is not derived from m.ctx.
RefreshExitOwnContext(g) ==
  /\ refresh[g] = "waiting" /\ g \in cancelled
  /\ refresh' = [refresh EXCEPT ![g] = "exited"]
  /\ UNCHANGED <<subs, stop, task, removal, current, owner, cancelled, handlers,
                 again>>

RefreshExit(g) ==
  /\ refresh[g] = "waiting" /\ Done(g)
  /\ refresh' = [refresh EXCEPT ![g] = "exited"]
  /\ UNCHANGED <<subs, stop, task, removal, current, owner, cancelled, handlers,
                 again>>

-----------------------------------------------------------------------------
(* handleNotify and resubscribe *)

\* Under m.mu.  kind is active (or pending), resubscribe (terminated, reason
\* deactivated or timeout) or terminated; changed says whether the NOTIFY has
\* an expires parameter other than sub.expires.
HandleNotify(n, s, kind, changed) ==
  /\ notify[n] = "none" /\ n = Fresh(notify) /\ s \in subs
  /\ notify' = [notify EXCEPT ![n] = "cancel"]
  /\ match' = [match EXCEPT ![n] = s]
  /\ subs' = IF kind = "terminated" THEN subs \ {s} ELSE subs
  /\ cancelFn' = [cancelFn EXCEPT ![n] =
                    IF kind = "terminated" \/ changed THEN current[s] ELSE Nil]
  /\ restart' = IF changed THEN restart \cup {n} ELSE restart
  /\ resub' = IF kind = "resubscribe" THEN resub \cup {n} ELSE resub
  /\ UNCHANGED <<stop, task, removal, goroutines, again>>

NotifyCancels(n) ==
  /\ notify[n] = "cancel"
  /\ notify' = [notify EXCEPT ![n] = IF n \in restart THEN "start" ELSE "done"]
  /\ again' = [again EXCEPT ![n] = IF n \in resub THEN "cancel" ELSE @]
  /\ Cancel(cancelFn[n])
  /\ cancelFn' = [cancelFn EXCEPT ![n] = Nil]
  /\ restart' = restart \ {n} /\ resub' = resub \ {n}
  /\ UNCHANGED <<subs, stop, task, removal, match>>

\* Mutant: after a change of expires the old interval is cancelled only.
NotifyStartsNothing(n) ==
  /\ notify[n] = "start"
  /\ notify' = [notify EXCEPT ![n] = "done"]
  /\ UNCHANGED <<subs, stop, task, removal, goroutines, match, cancelFn,
                 restart, resub, again>>

NotifyRestarts(n) ==
  /\ notify[n] = "start"
  /\ notify' = [notify EXCEPT ![n] = "done"]
  /\ StartRefresh(match[n])
  /\ UNCHANGED <<subs, stop, task, removal, match, cancelFn, restart, resub,
                 again>>

Resubscribe(n) ==
  /\ again[n] = "cancel"
  /\ again' = [again EXCEPT ![n] = "check"]
  /\ Cancel(current[match[n]])
  /\ UNCHANGED <<subs, stop, task, removal, handlers>>

ResubscribeCheck(n) ==
  /\ again[n] = "check"
  /\ again' = [again EXCEPT ![n] = IF match[n] \in subs THEN "send" ELSE "done"]
  /\ UNCHANGED <<subs, stop, task, removal, goroutines, handlers>>

\* Rejected, not answered in five seconds, or m.ctx is cancelled.
ResubscribeFailed(n) ==
  /\ again[n] = "send"
  /\ again' = [again EXCEPT ![n] = "done"]
  /\ subs' = subs \ {match[n]}
  /\ UNCHANGED <<stop, task, removal, goroutines, handlers>>

ResubscribeAccepted(n) ==
  /\ again[n] = "send"
  /\ again' = [again EXCEPT ![n] = "start"]
  /\ UNCHANGED <<subs, stop, task, removal, goroutines, handlers>>

ResubscribeRestarts(n) ==
  /\ again[n] = "start"
  /\ again' = [again EXCEPT ![n] = "done"]
  /\ StartRefresh(match[n])
  /\ UNCHANGED <<subs, stop, task, removal, handlers>>

-----------------------------------------------------------------------------
(* stop *)

\* m.cancel(), which cancels the context of every refresh goroutine.
Stop ==
  /\ stop = "none"
  /\ stop' = "collect"
  /\ UNCHANGED <<subs, task, removal, goroutines, handlers, again>>

\* The map is emptied; the unsubscribes change nothing here.
StopCollects ==
  /\ stop = "collect"
  /\ stop' = "done"
  /\ subs' = {}
  /\ UNCHANGED <<task, removal, goroutines, handlers, again>>

-----------------------------------------------------------------------------
User(s) ==
  \/ DoSubscribe(s) \/ SubscribeRejected(s) \/ SubscribeAccepted(s)
  \/ SubscribeReturns(s) \/ Remove(s) \/ RemoveCancels(s)

Refresher(g) == RefreshRejected(g) \/ RefreshCancels(g) \/ RefreshExit(g)

Notified(n) ==
  \/ \E s \in Subs, kind \in {"active", "resubscribe", "terminated"},
        changed \in BOOLEAN : HandleNotify(n, s, kind, changed)
  \/ NotifyCancels(n) \/ NotifyRestarts(n)

Resubscriber(n) ==
  \/ Resubscribe(n) \/ ResubscribeCheck(n) \/ ResubscribeFailed(n)
  \/ ResubscribeAccepted(n) \/ ResubscribeRestarts(n)

Next ==
  \/ \E s \in Subs : User(s)
  \/ \E g \in Refreshers : Refresher(g)
  \/ \E n \in Notifies : Notified(n) \/ Resubscriber(n)
  \/ Stop \/ StopCollects

Spec == Init /\ [][Next]_vars

\* A refresh goroutine makes progress; its select takes <-refreshCtx.Done()
\* at some point, even when ticks are pending as well.
FairSpec ==
  /\ Spec
  /\ \A g \in Refreshers :
       SF_vars(RefreshExit(g)) /\ WF_vars(RefreshCancels(g))

-----------------------------------------------------------------------------
(* Properties *)

\* Type correctness: the map holds subscriptions that were made, and the
\* pointers between subscriptions and goroutines have their types.
TypeOK ==
  /\ subs \subseteq Subs /\ stop \in {"none", "collect", "done"}
  /\ task \in [Subs -> {"none", "send", "failed", "start", "done"}]
  /\ removal \in [Subs -> {"none", "cancel", "done"}]
  /\ current \in [Subs -> Refreshers \cup {Nil}]
  /\ owner \in [Refreshers -> Subs \cup {Nil}] /\ cancelled \subseteq Refreshers
  /\ refresh \in [Refreshers -> {"none", "waiting", "reject", "exited"}]
  /\ notify \in [Notifies -> {"none", "cancel", "start", "done"}]
  /\ match \in [Notifies -> Subs \cup {Nil}]
  /\ cancelFn \in [Notifies -> Refreshers \cup {Nil}]
  /\ restart \subseteq Notifies /\ resub \subseteq Notifies
  /\ again \in [Notifies ->
                 {"none", "cancel", "check", "send", "start", "done"}]

Running(g) == refresh[g] \in {"waiting", "reject"}
Live(g)    == Running(g) /\ ~Done(g)

\* Is a NOTIFY of s being handled, or s resubscribed?
Busy(s) ==
  \E n \in Notifies :
    /\ match[n] = s
    /\ notify[n] \in {"cancel", "start"}
         \/ again[n] \in {"cancel", "check", "send", "start"}

\* A subscription in the map is kept alive: unless a NOTIFY of it is just being
\* handled or the manager stopped, some goroutine refreshes it.  No order of
\* concurrent NOTIFYs, resubscriptions and refreshes cancels the last one.
ActiveIsRefreshed ==
  \A s \in subs :
    task[s] = "done" /\ stop = "none" /\ ~Busy(s)
      => \E g \in Refreshers : owner[g] = s /\ Live(g)

\* stop ends all refresh goroutines, those started late included (:70).
StopEndsRefresh == stop # "none" ~> \A g \in Refreshers : ~Running(g)

\* remove "stops refresh" (subscribe.go:162): once it has returned and no
\* NOTIFY of the subscription is being handled, no goroutine refreshes it.
RemovedIsNotRefreshed ==
  \A s \in Subs :
    removal[s] = "done" /\ ~Busy(s) =>
      \A g \in Refreshers : owner[g] = s => ~Live(g)
=============================================================================
