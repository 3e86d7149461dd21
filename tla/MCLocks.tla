------------------------------ MODULE MCLocks ------------------------------
(***************************************************************************)
(* Instances of Locks for TLC.                                             *)
(***************************************************************************)
EXTENDS Locks, TLC

CONSTANTS l1, l2

(* The links are alike.                                                     *)
Symmetry == Permutations(Link)

=============================================================================
