-------------------------- MODULE MCHostTreeStore --------------------------
(* Instances of HostTreeStore for TLC: how many failures and crashes.      *)
EXTENDS HostTreeStore

TwoFaultsAndTwoCrashes == [event \in Events |-> 2]
=============================================================================
