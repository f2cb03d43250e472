------------------------- MODULE SubscriptionsProofs -------------------------
(***************************************************************************)
(* ActiveIsRefreshed, for any number of subscriptions, NOTIFYs and refresh *)
(* goroutines.  The argument: whoever cancels the refresh of a             *)
(* subscription that stays in the map starts a new one afterwards.  Kept   *)
(* says so, Will(s) being the handlers that are still to start one; the    *)
(* other conjuncts say that a cancel function only reaches a goroutine of  *)
(* the same subscription, and that a subscription never returns to the map.*)
(***************************************************************************)
EXTENDS Subscriptions, TLAPS

\* sub.refreshCancel and cancelFn point to goroutines of their subscription;
\* a goroutine has an owner once it is started, and is cancelled only then.
Pointers ==
  /\ \A s \in Subs : current[s] # Nil => owner[current[s]] = s
  /\ \A n \in Notifies :
       cancelFn[n] # Nil => match[n] # Nil /\ owner[cancelFn[n]] = match[n]
  /\ \A g \in Refreshers : owner[g] = Nil <=> refresh[g] = "none"
  /\ \A g \in Refreshers : refresh[g] = "none" => g \notin cancelled

\* What refers to a subscription was made after doSubscribe had begun; a
\* subscription that was removed or rejected is not in the map.
Known ==
  /\ \A s \in subs : task[s] # "none"
  /\ \A g \in Refreshers : owner[g] # Nil => task[owner[g]] # "none"
  /\ \A n \in Notifies : match[n] # Nil => task[match[n]] # "none"
  /\ \A s \in Subs : removal[s] # "none" => task[s] # "none" /\ s \notin subs
  /\ \A g \in Refreshers : refresh[g] = "reject" => owner[g] \notin subs

\* A handler that has found a subscription has a match; one that cancels the
\* refresh of a subscription in the map restarts it.
Handlers ==
  /\ \A n \in Notifies : notify[n] = "none" <=> match[n] = Nil
  /\ \A n \in Notifies : notify[n] = "none" => again[n] = "none"
  /\ \A n \in Notifies :
       notify[n] = "cancel" /\ match[n] \in subs /\ cancelFn[n] # Nil
         => n \in restart

Exits == \A g \in Refreshers : refresh[g] = "exited" => Done(g)

\* The handler of n will start a refresh of s, or take s out of the map.
Pending(n, s) ==
  /\ match[n] = s
  /\ \/ notify[n] = "cancel" /\ (n \in restart \/ n \in resub)
     \/ notify[n] = "start"
     \/ again[n] \in {"cancel", "check", "send", "start"}
Will(s) == \E n \in Notifies : Pending(n, s)

Refreshed(s) ==
  \E g \in Refreshers : owner[g] = s /\ Running(g) /\ g \notin cancelled

Kept ==
  \A s \in subs : task[s] = "done" /\ stop = "none" => Refreshed(s) \/ Will(s)

IInv == TypeOK /\ Pointers /\ Known /\ Handlers /\ Exits /\ Kept

\* Nil is neither a subscription nor a goroutine.
LEMMA NilIsNone == Nil \notin Subs /\ Nil \notin Refreshers
  BY NilAssumption DEF Nil

\* Fresh picks an unused identity, if there is one.
LEMMA FreshIsUnused ==
  ASSUME NEW f, Unused(f) # {}
  PROVE  Fresh(f) \in DOMAIN f /\ f[Fresh(f)] = "none"
  BY DEF Fresh, Unused

\* startRefresh as a step of one goroutine that was not started before.
LEMMA Started ==
  ASSUME TypeOK, NEW s \in Subs, StartRefresh(s)
  PROVE  \E g \in Refreshers :
           /\ refresh[g] = "none"
           /\ refresh' = [refresh EXCEPT ![g] = "waiting"]
           /\ owner' = [owner EXCEPT ![g] = s]
           /\ current' = [current EXCEPT ![s] = g]
           /\ cancelled' = cancelled
<1>1. Fresh(refresh) \in Refreshers /\ refresh[Fresh(refresh)] = "none"
  BY FreshIsUnused DEF StartRefresh, TypeOK
<1> QED BY <1>1 DEF StartRefresh

\* The new goroutine h is one no pointer leads to, so the others keep theirs.
LEMMA StartedPointers ==
  ASSUME TypeOK, Pointers, NEW s \in Subs, NEW h \in Refreshers,
         refresh[h] = "none", cancelled' = cancelled,
         refresh' = [refresh EXCEPT ![h] = "waiting"],
         owner' = [owner EXCEPT ![h] = s],
         current' = [current EXCEPT ![s] = h],
         cancelFn' = cancelFn, match' = match
  PROVE  Pointers'
<1> USE NilIsNone
<1>0. owner[h] = Nil /\ h \notin cancelled
  BY DEF Pointers
<1>1. ASSUME NEW t \in Subs, current'[t] # Nil
      PROVE  owner'[current'[t]] = t
  <2>1. CASE t = s
    BY <2>1 DEF TypeOK
  <2>2. CASE t # s
    <3>1. current'[t] = current[t] /\ current[t] \in Refreshers
      BY <1>1, <2>2 DEF TypeOK
    <3>2. owner[current[t]] = t
      BY <1>1, <3>1 DEF Pointers
    <3>3. current[t] # h
      BY <1>0, <3>2
    <3> QED BY <3>1, <3>2, <3>3 DEF TypeOK
  <2> QED BY <2>1, <2>2
<1>2. ASSUME NEW n \in Notifies, cancelFn[n] # Nil
      PROVE  match[n] # Nil /\ owner'[cancelFn[n]] = match[n]
  <2>1. /\ cancelFn[n] \in Refreshers
        /\ match[n] # Nil /\ owner[cancelFn[n]] = match[n]
    BY <1>2 DEF TypeOK, Pointers
  <2>2. cancelFn[n] # h
    BY <1>0, <2>1
  <2> QED BY <2>1, <2>2 DEF TypeOK
<1>3. \A g \in Refreshers : /\ owner'[g] = Nil <=> refresh'[g] = "none"
                            /\ refresh'[g] = "none" => g \notin cancelled'
  BY DEF TypeOK, Pointers
<1> QED BY <1>1, <1>2, <1>3 DEF Pointers

\* DoSubscribe preserves the invariant.
LEMMA DoSubscribeStep ==
  ASSUME IInv, NEW s \in Subs, DoSubscribe(s)
  PROVE  IInv'
<1> USE NilIsNone
<1>1. TypeOK'
  BY DEF IInv, TypeOK, Pointers, Handlers, DoSubscribe, goroutines, handlers
<1>2. Pointers'
  BY DEF IInv, TypeOK, Pointers, Handlers, DoSubscribe, goroutines, handlers
<1>3. Known'
  BY DEF IInv, TypeOK, Pointers, Known, Handlers, DoSubscribe, goroutines,
         handlers
<1>4. Handlers'
  BY DEF IInv, TypeOK, Known, Handlers, DoSubscribe, goroutines, handlers
<1>5. Exits'
  BY DEF IInv, TypeOK, Exits, Done, DoSubscribe, goroutines, handlers
<1>6. Kept'
  BY DEF IInv, TypeOK, Pointers, Known, Handlers, Exits, Kept, Refreshed,
         Running, Done, Will, Pending, DoSubscribe, goroutines, handlers
<1> QED BY <1>1, <1>2, <1>3, <1>4, <1>5, <1>6 DEF IInv

\* SubscribeRejected preserves the invariant.
LEMMA SubscribeRejectedStep ==
  ASSUME IInv, NEW s \in Subs, SubscribeRejected(s)
  PROVE  IInv'
<1> USE NilIsNone
<1>1. TypeOK'
  BY DEF IInv, TypeOK, Pointers, Handlers, SubscribeRejected, goroutines,
         handlers
<1>2. Pointers'
  BY DEF IInv, TypeOK, Pointers, Handlers, SubscribeRejected, goroutines,
         handlers
<1>3. Known'
  BY DEF IInv, TypeOK, Pointers, Known, Handlers, SubscribeRejected,
         goroutines, handlers
<1>4. Handlers'
  BY DEF IInv, TypeOK, Known, Handlers, SubscribeRejected, goroutines, handlers
<1>5. Exits'
  BY DEF IInv, TypeOK, Exits, Done, SubscribeRejected, goroutines, handlers
<1>6. Kept'
  BY DEF IInv, TypeOK, Pointers, Known, Handlers, Exits, Kept, Refreshed,
         Running, Done, Will, Pending, SubscribeRejected, goroutines, handlers
<1> QED BY <1>1, <1>2, <1>3, <1>4, <1>5, <1>6 DEF IInv

\* SubscribeAccepted preserves the invariant.
LEMMA SubscribeAcceptedStep ==
  ASSUME IInv, NEW s \in Subs, SubscribeAccepted(s)
  PROVE  IInv'
<1> USE NilIsNone
<1>1. TypeOK'
  BY DEF IInv, TypeOK, Pointers, Handlers, SubscribeAccepted, goroutines,
         handlers
<1>2. Pointers'
  BY DEF IInv, TypeOK, Pointers, Handlers, SubscribeAccepted, goroutines,
         handlers
<1>3. Known'
  BY DEF IInv, TypeOK, Pointers, Known, Handlers, SubscribeAccepted,
         goroutines, handlers
<1>4. Handlers'
  BY DEF IInv, TypeOK, Known, Handlers, SubscribeAccepted, goroutines, handlers
<1>5. Exits'
  BY DEF IInv, TypeOK, Exits, Done, SubscribeAccepted, goroutines, handlers
<1>6. Kept'
  BY DEF IInv, TypeOK, Pointers, Known, Handlers, Exits, Kept, Refreshed,
         Running, Done, Will, Pending, SubscribeAccepted, goroutines, handlers
<1> QED BY <1>1, <1>2, <1>3, <1>4, <1>5, <1>6 DEF IInv

\* SubscribeReturns preserves the invariant.
LEMMA SubscribeReturnsStep ==
  ASSUME IInv, NEW s \in Subs, SubscribeReturns(s)
  PROVE  IInv'
<1> USE NilIsNone
<1>a. s \in Subs
  OBVIOUS
<1>b. PICK h \in Refreshers :
           /\ refresh[h] = "none"
           /\ refresh' = [refresh EXCEPT ![h] = "waiting"]
           /\ owner' = [owner EXCEPT ![h] = s]
           /\ current' = [current EXCEPT ![s] = h]
           /\ cancelled' = cancelled
  BY <1>a, Started DEF SubscribeReturns, IInv
<1>1. TypeOK'
  BY <1>a, <1>b DEF IInv, TypeOK, Pointers, Handlers, SubscribeReturns,
                    goroutines, handlers
<1>2. Pointers'
  BY <1>a, <1>b, StartedPointers DEF IInv, SubscribeReturns, goroutines,
                                     handlers
<1>3. Known'
  BY <1>a, <1>b DEF IInv, TypeOK, Pointers, Known, Handlers, SubscribeReturns,
                    goroutines, handlers
<1>4. Handlers'
  BY <1>a, <1>b DEF IInv, TypeOK, Known, Handlers, SubscribeReturns,
                    goroutines, handlers
<1>5. Exits'
  BY <1>a, <1>b DEF IInv, TypeOK, Exits, Done, SubscribeReturns, goroutines,
                    handlers
<1>6. Kept'
  BY <1>a, <1>b DEF IInv, TypeOK, Pointers, Known, Handlers, Exits, Kept,
                    Refreshed, Running, Done, Will, Pending, SubscribeReturns,
                    goroutines, handlers
<1> QED BY <1>1, <1>2, <1>3, <1>4, <1>5, <1>6 DEF IInv

\* Remove preserves the invariant.
LEMMA RemoveStep ==
  ASSUME IInv, NEW s \in Subs, Remove(s)
  PROVE  IInv'
<1> USE NilIsNone
<1>1. TypeOK'
  BY DEF IInv, TypeOK, Pointers, Handlers, Remove, goroutines, handlers
<1>2. Pointers'
  BY DEF IInv, TypeOK, Pointers, Handlers, Remove, goroutines, handlers
<1>3. Known'
  BY DEF IInv, TypeOK, Pointers, Known, Handlers, Remove, goroutines, handlers
<1>4. Handlers'
  BY DEF IInv, TypeOK, Known, Handlers, Remove, goroutines, handlers
<1>5. Exits'
  BY DEF IInv, TypeOK, Exits, Done, Remove, goroutines, handlers
<1>6. Kept'
  BY DEF IInv, TypeOK, Pointers, Known, Handlers, Exits, Kept, Refreshed,
         Running, Done, Will, Pending, Remove, goroutines, handlers
<1> QED BY <1>1, <1>2, <1>3, <1>4, <1>5, <1>6 DEF IInv

\* RemoveCancels preserves the invariant.
LEMMA RemoveCancelsStep ==
  ASSUME IInv, NEW s \in Subs, RemoveCancels(s)
  PROVE  IInv'
<1> USE NilIsNone
<1>1. TypeOK'
  BY DEF IInv, TypeOK, Pointers, Handlers, RemoveCancels, goroutines, handlers,
         Cancel
<1>2. Pointers'
  BY DEF IInv, TypeOK, Pointers, Handlers, RemoveCancels, goroutines, handlers,
         Cancel
<1>3. Known'
  BY DEF IInv, TypeOK, Pointers, Known, Handlers, RemoveCancels, goroutines,
         handlers, Cancel
<1>4. Handlers'
  BY DEF IInv, TypeOK, Known, Handlers, RemoveCancels, goroutines, handlers,
         Cancel
<1>5. Exits'
  BY DEF IInv, TypeOK, Exits, Done, RemoveCancels, goroutines, handlers, Cancel
<1>6. Kept'
  BY DEF IInv, TypeOK, Pointers, Known, Handlers, Exits, Kept, Refreshed,
         Running, Done, Will, Pending, RemoveCancels, goroutines, handlers,
         Cancel
<1> QED BY <1>1, <1>2, <1>3, <1>4, <1>5, <1>6 DEF IInv

\* RefreshRejected preserves the invariant.
LEMMA RefreshRejectedStep ==
  ASSUME IInv, NEW g \in Refreshers, RefreshRejected(g)
  PROVE  IInv'
<1> USE NilIsNone
<1>1. TypeOK'
  BY DEF IInv, TypeOK, Pointers, Handlers, RefreshRejected, goroutines,
         handlers
<1>2. Pointers'
  BY DEF IInv, TypeOK, Pointers, Handlers, RefreshRejected, goroutines,
         handlers
<1>3. Known'
  BY DEF IInv, TypeOK, Pointers, Known, Handlers, RefreshRejected, goroutines,
         handlers
<1>4. Handlers'
  BY DEF IInv, TypeOK, Known, Handlers, RefreshRejected, goroutines, handlers
<1>5. Exits'
  BY DEF IInv, TypeOK, Exits, Done, RefreshRejected, goroutines, handlers
<1>6. Kept'
  BY DEF IInv, TypeOK, Pointers, Known, Handlers, Exits, Kept, Refreshed,
         Running, Done, Will, Pending, RefreshRejected, goroutines, handlers
<1> QED BY <1>1, <1>2, <1>3, <1>4, <1>5, <1>6 DEF IInv

\* RefreshCancels preserves the invariant.
LEMMA RefreshCancelsStep ==
  ASSUME IInv, NEW g \in Refreshers, RefreshCancels(g)
  PROVE  IInv'
<1> USE NilIsNone
<1>1. TypeOK'
  BY DEF IInv, TypeOK, Pointers, Handlers, RefreshCancels, goroutines, handlers
<1>2. Pointers'
  BY DEF IInv, TypeOK, Pointers, Handlers, RefreshCancels, goroutines, handlers
<1>3. Known'
  BY DEF IInv, TypeOK, Pointers, Known, Handlers, RefreshCancels, goroutines,
         handlers
<1>4. Handlers'
  BY DEF IInv, TypeOK, Known, Handlers, RefreshCancels, goroutines, handlers
<1>5. Exits'
  BY DEF IInv, TypeOK, Exits, Done, RefreshCancels, goroutines, handlers
<1>6. Kept'
  BY DEF IInv, TypeOK, Pointers, Known, Handlers, Exits, Kept, Refreshed,
         Running, Done, Will, Pending, RefreshCancels, goroutines, handlers
<1> QED BY <1>1, <1>2, <1>3, <1>4, <1>5, <1>6 DEF IInv

\* RefreshExit preserves the invariant.
LEMMA RefreshExitStep ==
  ASSUME IInv, NEW g \in Refreshers, RefreshExit(g)
  PROVE  IInv'
<1> USE NilIsNone
<1>1. TypeOK'
  BY DEF IInv, TypeOK, Pointers, Handlers, RefreshExit, goroutines, handlers
<1>2. Pointers'
  BY DEF IInv, TypeOK, Pointers, Handlers, RefreshExit, goroutines, handlers
<1>3. Known'
  BY DEF IInv, TypeOK, Pointers, Known, Handlers, RefreshExit, goroutines,
         handlers
<1>4. Handlers'
  BY DEF IInv, TypeOK, Known, Handlers, RefreshExit, goroutines, handlers
<1>5. Exits'
  BY DEF IInv, TypeOK, Exits, Done, RefreshExit, goroutines, handlers
<1>6. Kept'
  BY DEF IInv, TypeOK, Pointers, Known, Handlers, Exits, Kept, Refreshed,
         Running, Done, Will, Pending, RefreshExit, goroutines, handlers
<1> QED BY <1>1, <1>2, <1>3, <1>4, <1>5, <1>6 DEF IInv

\* HandleNotify preserves the invariant.
LEMMA HandleNotifyStep ==
  ASSUME IInv, NEW n \in Notifies, NEW s \in Subs,
         NEW kind \in {"active", "resubscribe", "terminated"},
         NEW changed \in BOOLEAN, HandleNotify(n, s, kind, changed)
  PROVE  IInv'
<1> USE NilIsNone
<1>1. TypeOK'
  BY DEF IInv, TypeOK, Pointers, Handlers, HandleNotify, goroutines, handlers
<1>2. Pointers'
  BY DEF IInv, TypeOK, Pointers, Handlers, HandleNotify, goroutines, handlers
<1>3. Known'
  BY DEF IInv, TypeOK, Pointers, Known, Handlers, HandleNotify, goroutines,
         handlers
<1>4. Handlers'
  BY DEF IInv, TypeOK, Known, Handlers, HandleNotify, goroutines, handlers
<1>5. Exits'
  BY DEF IInv, TypeOK, Exits, Done, HandleNotify, goroutines, handlers
<1>6. Kept'
  BY DEF IInv, TypeOK, Pointers, Known, Handlers, Exits, Kept, Refreshed,
         Running, Done, Will, Pending, HandleNotify, goroutines, handlers
<1> QED BY <1>1, <1>2, <1>3, <1>4, <1>5, <1>6 DEF IInv

\* NotifyCancels preserves the invariant.
LEMMA NotifyCancelsStep ==
  ASSUME IInv, NEW n \in Notifies, NotifyCancels(n)
  PROVE  IInv'
<1> USE NilIsNone
<1>1. TypeOK'
  BY DEF IInv, TypeOK, Pointers, Handlers, NotifyCancels, goroutines, handlers,
         Cancel
<1>2. Pointers'
  BY DEF IInv, TypeOK, Pointers, Handlers, NotifyCancels, goroutines, handlers,
         Cancel
<1>3. Known'
  BY DEF IInv, TypeOK, Pointers, Known, Handlers, NotifyCancels, goroutines,
         handlers, Cancel
<1>4. Handlers'
  BY DEF IInv, TypeOK, Known, Handlers, NotifyCancels, goroutines, handlers,
         Cancel
<1>5. Exits'
  BY DEF IInv, TypeOK, Exits, Done, NotifyCancels, goroutines, handlers, Cancel
<1>6. Kept'
  BY DEF IInv, TypeOK, Pointers, Known, Handlers, Exits, Kept, Refreshed,
         Running, Done, Will, Pending, NotifyCancels, goroutines, handlers,
         Cancel
<1> QED BY <1>1, <1>2, <1>3, <1>4, <1>5, <1>6 DEF IInv

\* NotifyRestarts preserves the invariant.
LEMMA NotifyRestartsStep ==
  ASSUME IInv, NEW n \in Notifies, NotifyRestarts(n)
  PROVE  IInv'
<1> USE NilIsNone
<1>a. match[n] \in Subs
  BY DEF IInv, TypeOK, Handlers, NotifyRestarts
<1>b. PICK h \in Refreshers :
           /\ refresh[h] = "none"
           /\ refresh' = [refresh EXCEPT ![h] = "waiting"]
           /\ owner' = [owner EXCEPT ![h] = match[n]]
           /\ current' = [current EXCEPT ![match[n]] = h]
           /\ cancelled' = cancelled
  BY <1>a, Started DEF NotifyRestarts, IInv
<1>1. TypeOK'
  BY <1>a, <1>b DEF IInv, TypeOK, Pointers, Handlers, NotifyRestarts,
                    goroutines, handlers
<1>2. Pointers'
  BY <1>a, <1>b, StartedPointers DEF IInv, NotifyRestarts, goroutines, handlers
<1>3. Known'
  BY <1>a, <1>b DEF IInv, TypeOK, Pointers, Known, Handlers, NotifyRestarts,
                    goroutines, handlers
<1>4. Handlers'
  BY <1>a, <1>b DEF IInv, TypeOK, Known, Handlers, NotifyRestarts, goroutines,
                    handlers
<1>5. Exits'
  BY <1>a, <1>b DEF IInv, TypeOK, Exits, Done, NotifyRestarts, goroutines,
                    handlers
<1>6. Kept'
  BY <1>a, <1>b DEF IInv, TypeOK, Pointers, Known, Handlers, Exits, Kept,
                    Refreshed, Running, Done, Will, Pending, NotifyRestarts,
                    goroutines, handlers
<1> QED BY <1>1, <1>2, <1>3, <1>4, <1>5, <1>6 DEF IInv

\* Resubscribe preserves the invariant.
LEMMA ResubscribeStep ==
  ASSUME IInv, NEW n \in Notifies, Resubscribe(n)
  PROVE  IInv'
<1> USE NilIsNone
<1>1. TypeOK'
  BY DEF IInv, TypeOK, Pointers, Handlers, Resubscribe, goroutines, handlers,
         Cancel
<1>2. Pointers'
  BY DEF IInv, TypeOK, Pointers, Handlers, Resubscribe, goroutines, handlers,
         Cancel
<1>3. Known'
  BY DEF IInv, TypeOK, Pointers, Known, Handlers, Resubscribe, goroutines,
         handlers, Cancel
<1>4. Handlers'
  BY DEF IInv, TypeOK, Known, Handlers, Resubscribe, goroutines, handlers,
         Cancel
<1>5. Exits'
  BY DEF IInv, TypeOK, Exits, Done, Resubscribe, goroutines, handlers, Cancel
<1>6. Kept'
  BY DEF IInv, TypeOK, Pointers, Known, Handlers, Exits, Kept, Refreshed,
         Running, Done, Will, Pending, Resubscribe, goroutines, handlers,
         Cancel
<1> QED BY <1>1, <1>2, <1>3, <1>4, <1>5, <1>6 DEF IInv

\* ResubscribeCheck preserves the invariant.
LEMMA ResubscribeCheckStep ==
  ASSUME IInv, NEW n \in Notifies, ResubscribeCheck(n)
  PROVE  IInv'
<1> USE NilIsNone
<1>1. TypeOK'
  BY DEF IInv, TypeOK, Pointers, Handlers, ResubscribeCheck, goroutines,
         handlers
<1>2. Pointers'
  BY DEF IInv, TypeOK, Pointers, Handlers, ResubscribeCheck, goroutines,
         handlers
<1>3. Known'
  BY DEF IInv, TypeOK, Pointers, Known, Handlers, ResubscribeCheck, goroutines,
         handlers
<1>4. Handlers'
  BY DEF IInv, TypeOK, Known, Handlers, ResubscribeCheck, goroutines, handlers
<1>5. Exits'
  BY DEF IInv, TypeOK, Exits, Done, ResubscribeCheck, goroutines, handlers
<1>6. Kept'
  BY DEF IInv, TypeOK, Pointers, Known, Handlers, Exits, Kept, Refreshed,
         Running, Done, Will, Pending, ResubscribeCheck, goroutines, handlers
<1> QED BY <1>1, <1>2, <1>3, <1>4, <1>5, <1>6 DEF IInv

\* ResubscribeFailed preserves the invariant.
LEMMA ResubscribeFailedStep ==
  ASSUME IInv, NEW n \in Notifies, ResubscribeFailed(n)
  PROVE  IInv'
<1> USE NilIsNone
<1>1. TypeOK'
  BY DEF IInv, TypeOK, Pointers, Handlers, ResubscribeFailed, goroutines,
         handlers
<1>2. Pointers'
  BY DEF IInv, TypeOK, Pointers, Handlers, ResubscribeFailed, goroutines,
         handlers
<1>3. Known'
  BY DEF IInv, TypeOK, Pointers, Known, Handlers, ResubscribeFailed,
         goroutines, handlers
<1>4. Handlers'
  BY DEF IInv, TypeOK, Known, Handlers, ResubscribeFailed, goroutines, handlers
<1>5. Exits'
  BY DEF IInv, TypeOK, Exits, Done, ResubscribeFailed, goroutines, handlers
<1>6. Kept'
  BY DEF IInv, TypeOK, Pointers, Known, Handlers, Exits, Kept, Refreshed,
         Running, Done, Will, Pending, ResubscribeFailed, goroutines, handlers
<1> QED BY <1>1, <1>2, <1>3, <1>4, <1>5, <1>6 DEF IInv

\* ResubscribeAccepted preserves the invariant.
LEMMA ResubscribeAcceptedStep ==
  ASSUME IInv, NEW n \in Notifies, ResubscribeAccepted(n)
  PROVE  IInv'
<1> USE NilIsNone
<1>1. TypeOK'
  BY DEF IInv, TypeOK, Pointers, Handlers, ResubscribeAccepted, goroutines,
         handlers
<1>2. Pointers'
  BY DEF IInv, TypeOK, Pointers, Handlers, ResubscribeAccepted, goroutines,
         handlers
<1>3. Known'
  BY DEF IInv, TypeOK, Pointers, Known, Handlers, ResubscribeAccepted,
         goroutines, handlers
<1>4. Handlers'
  BY DEF IInv, TypeOK, Known, Handlers, ResubscribeAccepted, goroutines,
         handlers
<1>5. Exits'
  BY DEF IInv, TypeOK, Exits, Done, ResubscribeAccepted, goroutines, handlers
<1>6. Kept'
  BY DEF IInv, TypeOK, Pointers, Known, Handlers, Exits, Kept, Refreshed,
         Running, Done, Will, Pending, ResubscribeAccepted, goroutines,
         handlers
<1> QED BY <1>1, <1>2, <1>3, <1>4, <1>5, <1>6 DEF IInv

\* ResubscribeRestarts preserves the invariant.
LEMMA ResubscribeRestartsStep ==
  ASSUME IInv, NEW n \in Notifies, ResubscribeRestarts(n)
  PROVE  IInv'
<1> USE NilIsNone
<1>a. match[n] \in Subs
  BY DEF IInv, TypeOK, Handlers, ResubscribeRestarts
<1>b. PICK h \in Refreshers :
           /\ refresh[h] = "none"
           /\ refresh' = [refresh EXCEPT ![h] = "waiting"]
           /\ owner' = [owner EXCEPT ![h] = match[n]]
           /\ current' = [current EXCEPT ![match[n]] = h]
           /\ cancelled' = cancelled
  BY <1>a, Started DEF ResubscribeRestarts, IInv
<1>1. TypeOK'
  BY <1>a, <1>b DEF IInv, TypeOK, Pointers, Handlers, ResubscribeRestarts,
                    goroutines, handlers
<1>2. Pointers'
  BY <1>a, <1>b, StartedPointers DEF IInv, ResubscribeRestarts, goroutines,
                                     handlers
<1>3. Known'
  BY <1>a, <1>b DEF IInv, TypeOK, Pointers, Known, Handlers,
                    ResubscribeRestarts, goroutines, handlers
<1>4. Handlers'
  BY <1>a, <1>b DEF IInv, TypeOK, Known, Handlers, ResubscribeRestarts,
                    goroutines, handlers
<1>5. Exits'
  BY <1>a, <1>b DEF IInv, TypeOK, Exits, Done, ResubscribeRestarts, goroutines,
                    handlers
<1>6. Kept'
  BY <1>a, <1>b DEF IInv, TypeOK, Pointers, Known, Handlers, Exits, Kept,
                    Refreshed, Running, Done, Will, Pending,
                    ResubscribeRestarts, goroutines, handlers
<1> QED BY <1>1, <1>2, <1>3, <1>4, <1>5, <1>6 DEF IInv

\* Stop preserves the invariant.
LEMMA StopStep ==
  ASSUME IInv, Stop
  PROVE  IInv'
<1> USE NilIsNone
<1>1. TypeOK'
  BY DEF IInv, TypeOK, Pointers, Handlers, Stop, goroutines, handlers
<1>2. Pointers'
  BY DEF IInv, TypeOK, Pointers, Handlers, Stop, goroutines, handlers
<1>3. Known'
  BY DEF IInv, TypeOK, Pointers, Known, Handlers, Stop, goroutines, handlers
<1>4. Handlers'
  BY DEF IInv, TypeOK, Known, Handlers, Stop, goroutines, handlers
<1>5. Exits'
  BY DEF IInv, TypeOK, Exits, Done, Stop, goroutines, handlers
<1>6. Kept'
  BY DEF IInv, TypeOK, Pointers, Known, Handlers, Exits, Kept, Refreshed,
         Running, Done, Will, Pending, Stop, goroutines, handlers
<1> QED BY <1>1, <1>2, <1>3, <1>4, <1>5, <1>6 DEF IInv

\* StopCollects preserves the invariant.
LEMMA StopCollectsStep ==
  ASSUME IInv, StopCollects
  PROVE  IInv'
<1> USE NilIsNone
<1>1. TypeOK'
  BY DEF IInv, TypeOK, Pointers, Handlers, StopCollects, goroutines, handlers
<1>2. Pointers'
  BY DEF IInv, TypeOK, Pointers, Handlers, StopCollects, goroutines, handlers
<1>3. Known'
  BY DEF IInv, TypeOK, Pointers, Known, Handlers, StopCollects, goroutines,
         handlers
<1>4. Handlers'
  BY DEF IInv, TypeOK, Known, Handlers, StopCollects, goroutines, handlers
<1>5. Exits'
  BY DEF IInv, TypeOK, Exits, Done, StopCollects, goroutines, handlers
<1>6. Kept'
  BY DEF IInv, TypeOK, Pointers, Known, Handlers, Exits, Kept, Refreshed,
         Running, Done, Will, Pending, StopCollects, goroutines, handlers
<1> QED BY <1>1, <1>2, <1>3, <1>4, <1>5, <1>6 DEF IInv

\* IInv is an invariant: the new manager satisfies it, and every critical
\* section, cancellation and transaction of subscribe.go preserves it.
THEOREM Invariance == Spec => []IInv
<1>1. Init => IInv
  <2> SUFFICES ASSUME Init PROVE IInv
    OBVIOUS
  <2> USE NilIsNone
  <2>1. TypeOK
    BY DEF Init, TypeOK
  <2>2. Pointers /\ Known
    BY DEF Init, Pointers, Known
  <2>3. Handlers /\ Exits /\ Kept
    BY DEF Init, Handlers, Exits, Kept
  <2> QED BY <2>1, <2>2, <2>3 DEF IInv
<1>2. IInv /\ [Next]_vars => IInv'
  <2> SUFFICES ASSUME IInv, [Next]_vars PROVE IInv'
    OBVIOUS
  <2>1. ASSUME NEW s \in Subs, User(s) PROVE IInv'
    BY <2>1, DoSubscribeStep, SubscribeRejectedStep, SubscribeAcceptedStep,
       SubscribeReturnsStep, RemoveStep, RemoveCancelsStep, Zenon DEF User
  <2>2. ASSUME NEW g \in Refreshers, Refresher(g) PROVE IInv'
    BY <2>2, RefreshRejectedStep, RefreshCancelsStep, RefreshExitStep, Zenon
    DEF Refresher
  <2>3. ASSUME NEW n \in Notifies, Notified(n) PROVE IInv'
    BY <2>3, HandleNotifyStep, NotifyCancelsStep, NotifyRestartsStep, Zenon
    DEF Notified
  <2>4. ASSUME NEW n \in Notifies, Resubscriber(n) PROVE IInv'
    BY <2>4, ResubscribeStep, ResubscribeCheckStep, ResubscribeFailedStep,
       ResubscribeAcceptedStep, ResubscribeRestartsStep, Zenon
    DEF Resubscriber
  <2>5. CASE UNCHANGED vars
    <3>1. TypeOK' /\ Pointers' /\ Known' /\ Handlers' /\ Exits'
      BY <2>5 DEF IInv, TypeOK, Pointers, Known, Handlers, Exits, Done, vars,
                  goroutines, handlers
    <3>2. Kept'
      BY <2>5 DEF IInv, Kept, Refreshed, Running, Will, Pending, vars,
                  goroutines, handlers
    <3> QED BY <3>1, <3>2 DEF IInv
  <2> QED
    BY <2>1, <2>2, <2>3, <2>4, <2>5, StopStep, StopCollectsStep, Zenon DEF Next
<1> QED BY <1>1, <1>2, PTL DEF Spec

\* Whatever NOTIFYs, refreshes and resubscriptions run concurrently, and in
\* whatever order, a subscription in m.subs whose NOTIFYs are handled has a
\* live refresh goroutine (handleNotify, resubscribe and startRefresh).
THEOREM SubscriptionsStayAlive == Spec => []ActiveIsRefreshed
<1>1. IInv => ActiveIsRefreshed
  <2> SUFFICES ASSUME IInv, NEW s \in subs, task[s] = "done", stop = "none",
                      ~Busy(s)
               PROVE  \E g \in Refreshers : owner[g] = s /\ Live(g)
    BY DEF ActiveIsRefreshed
  <2>1. Refreshed(s) \/ Will(s)
    BY DEF IInv, Kept
  <2>2. ~Will(s)
    BY DEF Busy, Will, Pending
  <2> QED BY <2>1, <2>2 DEF Refreshed, Live, Done
<1> QED BY <1>1, Invariance, PTL
=============================================================================
