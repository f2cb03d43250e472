------------------------------ MODULE Transfer ------------------------------
(***************************************************************************)
(* Blind and attended transfers between calls (call.go, sipgo_dialog.go).  *)
(* A call is Active, OnHold or Ended here, and what Call says of its end   *)
(* is taken for granted.                                                   *)
(*                                                                         *)
(* A transfer keeps c.mu from its REFER until the NOTIFY handler of the    *)
(* dialog is set.  The handler is guarded by the dialog's own mutex, so a  *)
(* NOTIFY that arrives before the answer to the REFER finds none.          *)
(***************************************************************************)
EXTENDS Naturals, Sequences

CONSTANTS Calls

VARIABLES
  state,     \* c.state
  checked,   \* the calls of an AttendedTransfer whose first checks passed
  refer,     \* the calls of the transfer that holds c.mu for its REFER
  onNotify,  \* the calls that d.onNotify ends; <<>> stands for nil
  handler,   \* the calls that a handler which was invoked has yet to end
  referred,  \* the calls of the transfer whose REFER reached the peer
  notified   \* calls whose peer sent the final NOTIFY

vars == <<state, checked, refer, onNotify, handler, referred, notified>>

InCall == {"Active", "OnHold"}

Init ==
  /\ state = [c \in Calls |-> "Active"]
  /\ checked = [c \in Calls |-> <<>>] /\ refer = [c \in Calls |-> <<>>]
  /\ onNotify = [c \in Calls |-> <<>>] /\ handler = [c \in Calls |-> <<>>]
  /\ referred = [c \in Calls |-> <<>>] /\ notified = {}

\* Mutant: a transfer does not keep c.mu while its REFER is answered.
UnlockedAlways(c) == TRUE

\* c.mu is free.
Unlocked(c) == refer[c] = <<>>

\* Hold and Resume, from either side.
HoldResume(c) ==
  /\ Unlocked(c) /\ state[c] \in InCall
  /\ \E s \in InCall \ {state[c]} : state' = [state EXCEPT ![c] = s]
  /\ UNCHANGED <<checked, refer, onNotify, handler, referred, notified>>

\* fireOnEnded clears the NOTIFY handler.
Ends(c) ==
  /\ state' = [state EXCEPT ![c] = "Ended"]
  /\ onNotify' = [onNotify EXCEPT ![c] = <<>>]

\* End, a BYE or the media timeout.
End(c) ==
  /\ Unlocked(c) /\ state[c] # "Ended"
  /\ Ends(c)
  /\ UNCHANGED <<checked, refer, handler, referred, notified>>

\* SendRefer, with c.mu held.  One REFER of each call.
SendRefer(c, calls) ==
  /\ refer' = [refer EXCEPT ![c] = calls]
  /\ referred' = [referred EXCEPT ![c] = calls]
  /\ UNCHANGED <<state, onNotify, handler, notified>>

BlindTransfer(c) ==
  /\ Unlocked(c) /\ state[c] \in InCall /\ referred[c] = <<>>
  /\ SendRefer(c, <<c>>) /\ UNCHANGED checked

\* Mutant: a call may be transferred to itself.
AttendedTransferSelf(c, b) ==
  /\ checked[c] = <<>> /\ referred[c] = <<>>
  /\ Unlocked(c) /\ state[c] \in InCall
  /\ checked' = [checked EXCEPT ![c] = <<c, b>>]
  /\ UNCHANGED <<state, refer, onNotify, handler, referred, notified>>

\* AttendedTransfer looks at both states and reads the other call's dialog
\* before it takes c.mu; its own state it checks again under the lock.
AttendedTransfer(c, b) ==
  /\ b # c /\ checked[c] = <<>> /\ referred[c] = <<>>
  /\ Unlocked(b) /\ state[b] \in InCall /\ Unlocked(c) /\ state[c] \in InCall
  /\ checked' = [checked EXCEPT ![c] = <<c, b>>]
  /\ UNCHANGED <<state, refer, onNotify, handler, referred, notified>>

AttendedRefer(c) ==
  /\ checked[c] # <<>> /\ Unlocked(c)
  /\ checked' = [checked EXCEPT ![c] = <<>>]
  /\ IF state[c] \in InCall /\ referred[c] = <<>>
       THEN SendRefer(c, checked[c])
       ELSE UNCHANGED <<state, refer, onNotify, handler, referred, notified>>

\* SendRefer returned nil: wire the NOTIFY handler.
WireNotify(c) ==
  /\ refer[c] # <<>>
  /\ refer' = [refer EXCEPT ![c] = <<>>]
  /\ onNotify' = [onNotify EXCEPT ![c] = refer[c]]
  /\ UNCHANGED <<state, checked, handler, referred, notified>>

\* SendRefer failed, the REFER never reached the peer: an attended transfer
\* returns the error, a blind one wires the handler all the same.
ReferFailed(c) ==
  /\ refer[c] # <<>> /\ c \notin notified
  /\ refer' = [refer EXCEPT ![c] = <<>>]
  /\ referred' = [referred EXCEPT ![c] = <<>>]
  /\ onNotify' = IF refer[c] = <<c>> THEN [onNotify EXCEPT ![c] = refer[c]]
                                     ELSE onNotify
  /\ UNCHANGED <<state, checked, handler, notified>>

\* The peer's final NOTIFY; handleDialogNotify and FireNotify invoke the
\* handler they find.
FireNotify(c) ==
  /\ referred[c] # <<>> /\ c \notin notified
  /\ notified' = notified \cup {c}
  /\ handler' = [handler EXCEPT ![c] = onNotify[c]]
  /\ UNCHANGED <<state, checked, refer, onNotify, referred>>

\* Mutant: the handler of an attended transfer ends its own call only.
EndWithReasonOwn(c) ==
  /\ handler[c] # <<>> /\ Unlocked(c)
  /\ handler' = [handler EXCEPT ![c] = <<>>]
  /\ Ends(c)
  /\ UNCHANGED <<checked, refer, referred, notified>>

\* endWithReason of the call that was transferred, and then of the other one.
EndWithReason(c) ==
  /\ handler[c] # <<>> /\ Unlocked(Head(handler[c]))
  /\ handler' = [handler EXCEPT ![c] = Tail(@)]
  /\ IF state[Head(handler[c])] = "Ended"
       THEN UNCHANGED <<state, onNotify>> ELSE Ends(Head(handler[c]))
  /\ UNCHANGED <<checked, refer, referred, notified>>

Answer(c) == WireNotify(c) \/ ReferFailed(c)

Next ==
  \E c \in Calls :
    \/ HoldResume(c) \/ End(c) \/ BlindTransfer(c) \/ AttendedRefer(c)
    \/ Answer(c) \/ FireNotify(c) \/ EndWithReason(c)
    \/ \E b \in Calls : AttendedTransfer(c, b)

Spec == Init /\ [][Next]_vars

\* A REFER is answered or times out; a handler gets c.mu when it is free often
\* enough (Go's mutexes do not starve a waiter).
FairSpec ==
  Spec /\ \A c \in Calls : WF_vars(Answer(c)) /\ SF_vars(EndWithReason(c))

-----------------------------------------------------------------------------
(* Properties *)

\* Type correctness; a transfer concerns the call itself and at most one other.
TypeOK ==
  LET Involved(c) == {<<>>, <<c>>} \cup {<<c, b>> : b \in Calls \ {c}}
  IN  /\ state \in [Calls -> InCall \cup {"Ended"}]
      /\ notified \subseteq Calls
      /\ \A c \in Calls :
           /\ checked[c] \in Involved(c) /\ refer[c] \in Involved(c)
           /\ onNotify[c] \in Involved(c) /\ referred[c] \in Involved(c)
           /\ handler[c] \in Involved(c) \cup {<<b>> : b \in Calls}

\* A call that has ended keeps no NOTIFY handler, however its end races with
\* a transfer: no closure keeps the other call alive, and no late NOTIFY of an
\* ended call ends another one (call.go:1114).
NoHandlerOfEnded == \A c \in Calls : state[c] = "Ended" => onNotify[c] = <<>>

\* A handler that was invoked ends every call of its transfer, also when the
\* calls are transferred to one another at the same time: nobody waits for a
\* mutex that is never released.
HandlerEndsCalls ==
  \A c, b \in Calls :
    (handler[c] # <<>> /\ b \in {handler[c][i] : i \in DOMAIN handler[c]})
      ~> state[b] = "Ended"

\* The final NOTIFY of an attended transfer ends both calls (call.go:1507).
NotifyEndsBoth ==
  \A c, b \in Calls :
    /\ referred[c] = <<c, b>> /\ c \in notified
    /\ refer[c] = <<>> /\ handler[c] = <<>>
    => state[c] = "Ended" /\ state[b] = "Ended"
=============================================================================
