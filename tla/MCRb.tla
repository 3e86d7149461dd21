-------------------------------- MODULE MCRb --------------------------------
(***************************************************************************)
(* Instances of Rb for TLC.                                                *)
(***************************************************************************)
EXTENDS Rb

CONSTANTS p1, p2, p3, m1

(* One broadcaster.                                                         *)
OneMessage == [p \in Proc |-> IF p = p1 THEN {m1} ELSE {}]

=============================================================================
