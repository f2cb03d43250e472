-------------------------- MODULE MCPhoneLifecycle --------------------------
(***************************************************************************)
(* Instances of PhoneLifecycle for TLC.                                    *)
(***************************************************************************)
EXTENDS PhoneInvariant, TLC

ThreadSymmetry == Permutations(Threads)

SetupOps == {"Connect", "Register", "Unregister", "Disconnect"}
PrepareOps == {"Prepare", "Register", "Unregister"}
=============================================================================
