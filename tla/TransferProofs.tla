--------------------------- MODULE TransferProofs ---------------------------
(***************************************************************************)
(* Proof that an ended call keeps no NOTIFY handler, for any set of calls. *)
(***************************************************************************)
EXTENDS Transfer, TLAPS

\* A transfer that holds c.mu keeps the call from ending, so the handler it is
\* about to set belongs to a call that is up.
IInv ==
  /\ DOMAIN state = Calls /\ DOMAIN onNotify = Calls /\ DOMAIN refer = Calls
  /\ \A c \in Calls : state[c] = "Ended" => refer[c] = <<>> /\ onNotify[c] = <<>>

LEMMA Initially == Init => IInv
  BY DEF Init, IInv

\* The end of a call whose mutex is free.
LEMMA EndStep ==
  ASSUME IInv, NEW c, Unlocked(c), Ends(c), UNCHANGED refer
  PROVE  IInv'
  BY DEF IInv, Unlocked, Ends

\* Every step preserves the invariant.
LEMMA Step == IInv /\ [Next]_vars => IInv'
<1> SUFFICES ASSUME IInv, [Next]_vars PROVE IInv'
  OBVIOUS
<1>1. ASSUME NEW c \in Calls, HoldResume(c) PROVE IInv'
  BY <1>1 DEF HoldResume, IInv, InCall
<1>2. ASSUME NEW c \in Calls, End(c) PROVE IInv'
  BY <1>2, EndStep DEF End
<1>3. ASSUME NEW c \in Calls, NEW calls, state[c] \in InCall, SendRefer(c, calls)
      PROVE  IInv'
  BY <1>3 DEF SendRefer, IInv, InCall
<1>4. ASSUME NEW c \in Calls, BlindTransfer(c) PROVE IInv'
  BY <1>3, <1>4 DEF BlindTransfer
<1>5. ASSUME NEW c \in Calls, NEW b \in Calls, AttendedTransfer(c, b)
      PROVE  IInv'
  BY <1>5 DEF AttendedTransfer, IInv
<1>6. ASSUME NEW c \in Calls, AttendedRefer(c) PROVE IInv'
  <2>1. CASE UNCHANGED <<state, refer, onNotify>>
    BY <2>1 DEF IInv
  <2> QED
    BY <1>3, <1>6, <2>1 DEF AttendedRefer
<1>7. ASSUME NEW c \in Calls, WireNotify(c) PROVE IInv'
  BY <1>7 DEF WireNotify, IInv
<1>8. ASSUME NEW c \in Calls, ReferFailed(c) PROVE IInv'
  BY <1>8 DEF ReferFailed, IInv
<1>9. ASSUME NEW c \in Calls, FireNotify(c) PROVE IInv'
  BY <1>9 DEF FireNotify, IInv
<1>10. ASSUME NEW c \in Calls, EndWithReason(c) PROVE IInv'
  <2>1. CASE UNCHANGED <<state, onNotify>>
    BY <1>10, <2>1 DEF EndWithReason, IInv
  <2> QED
    BY <1>10, <2>1, EndStep DEF EndWithReason
<1>11. CASE UNCHANGED vars
  BY <1>11 DEF vars, IInv
<1> QED
  BY <1>1, <1>2, <1>4, <1>5, <1>6, <1>7, <1>8, <1>9, <1>10, <1>11
     DEF Next, Answer

\* A call that has ended keeps no NOTIFY handler, however its end races with a
\* transfer (BlindTransfer, AttendedTransfer and fireOnEnded, call.go:1114).
THEOREM NoHandlerLeft == Spec => []NoHandlerOfEnded
<1>1. IInv => NoHandlerOfEnded
  BY DEF IInv, NoHandlerOfEnded
<1> QED
  BY Initially, Step, <1>1, PTL DEF Spec
=============================================================================
