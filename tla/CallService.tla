----------------------------- MODULE CallService -----------------------------
(***************************************************************************)
(* What a call promises its user: the states it goes through, the RTP port *)
(* it holds from its creation until it ends, and the channels the user     *)
(* reads media from, which are closed, once, after the end.                *)
(***************************************************************************)
VARIABLES state, port, outputs

vars == <<state, port, outputs>>

Live == {"Ringing", "Dialing", "RemoteRinging", "EarlyMedia", "Active", "OnHold"}

\* The moves between the states of a call that is alive.
Moves == {<<"Ringing", "Active">>,
          <<"Dialing", "RemoteRinging">>, <<"Dialing", "EarlyMedia">>,
          <<"Dialing", "Active">>, <<"RemoteRinging", "EarlyMedia">>,
          <<"RemoteRinging", "Active">>, <<"EarlyMedia", "Active">>,
          <<"Active", "OnHold">>, <<"OnHold", "Active">>}

Init == state \in {"Ringing", "Dialing"} /\ port = "held" /\ outputs = "open"

Move == <<state, state'>> \in Moves /\ UNCHANGED <<port, outputs>>

\* Ending the call frees its port.
Finish ==
  /\ state \in Live
  /\ state' = "Ended" /\ port' = "free" /\ outputs' \in {"open", "closed"}

CloseOutputs ==
  /\ state = "Ended" /\ outputs = "open"
  /\ outputs' = "closed" /\ UNCHANGED <<state, port>>

Next == Move \/ Finish \/ CloseOutputs

Spec == Init /\ [][Next]_vars
=============================================================================
