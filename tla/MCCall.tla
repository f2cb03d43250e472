------------------------------- MODULE MCCall -------------------------------
(* Instances of Call for TLC. *)
EXTENDS Call

\* All that ends a call.
EndingOps == {"Reject", "End", "Hold", "Bye", "Cancel", "Timeout", "Transfer"}

HoldOps == {"Hold", "ReInvite", "RTP"}
=============================================================================
