---------------------------- MODULE PhoneService ----------------------------
(***************************************************************************)
(* What a phone promises its user, whatever number of goroutines call it:  *)
(* the PhoneState machine (xphone.go), and the transport (line) behind it. *)
(*                                                                         *)
(* Once a line serves the phone it is the same one until the phone is      *)
(* Disconnected, through any number of registrations, and it is never      *)
(* retired (closed) before that.  A phone that comes back is never served  *)
(* by a retired line.                                                      *)
(***************************************************************************)
EXTENDS Naturals

VARIABLES
  state,    \* p.state
  line,     \* the transport that serves the phone, 0 when there is none
  retired   \* transports closed so far

Init == state = "Disconnected" /\ line = 0 /\ retired = {}

\* Transports may be closed at any step, never the one that serves the phone.
Retire == retired \subseteq retired' /\ line' \notin retired'

SetupBegins ==
  state = "Disconnected" /\ state' = "Registering" /\ line' = 0 /\ Retire

LineUp ==
  state = "Registering" /\ line = 0 /\ line' # 0 /\ UNCHANGED state /\ Retire

PrepareDone ==
  state = "Disconnected" /\ state' = "Prepared" /\ line' # 0 /\ Retire

RegisterBegins ==
  /\ state \in {"Prepared", "RegistrationFailed"} /\ state' = "Registering"
  /\ UNCHANGED line /\ Retire

RegisterEnds ==
  /\ state = "Registering" /\ line # 0
  /\ state' \in {"Registered", "RegistrationFailed"}
  /\ UNCHANGED line /\ Retire

UnregisterBegins ==
  /\ state \in {"Registered", "RegistrationFailed"}
  /\ state' = "Unregistering"
  /\ UNCHANGED line /\ Retire

UnregisterEnds ==
  /\ state = "Unregistering" /\ state' = "Prepared"
  /\ UNCHANGED line /\ Retire

Down ==
  state # "Disconnected" /\ state' = "Disconnected" /\ line' = 0 /\ Retire

RetireOther == UNCHANGED <<state, line>> /\ Retire

Next ==
  \/ SetupBegins \/ LineUp \/ PrepareDone \/ RegisterBegins \/ RegisterEnds
  \/ UnregisterBegins \/ UnregisterEnds \/ Down \/ RetireOther

Spec == Init /\ [][Next]_<<state, line, retired>>
=============================================================================
