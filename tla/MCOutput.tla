------------------------------ MODULE MCOutput ------------------------------
(***************************************************************************)
(* Instances of Output for TLC, with the hosts files main starts from.     *)
(***************************************************************************)
EXTENDS Output, Hosts

=============================================================================
