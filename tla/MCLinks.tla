------------------------------ MODULE MCLinks ------------------------------
(***************************************************************************)
(* Instances of Links for TLC.                                             *)
(***************************************************************************)
EXTENDS Links, TLC

CONSTANTS p1, p2, p3, m1, m2

(* One broadcaster, whose packet each receiver has two threads to read.     *)
OneSender == [p \in Proc |-> IF p = p1 THEN {m1} ELSE {}]

(* A message each way, of the same body.                                    *)
Exchange == [p \in Proc |-> {m1}]

Symmetry == Permutations(Proc \ {p1})

=============================================================================
