------------------------------- MODULE MCFifo -------------------------------
(***************************************************************************)
(* Instances of Fifo for TLC.                                              *)
(***************************************************************************)
EXTENDS Fifo, TLC

CONSTANTS p1, p2

(* p1 starts with three messages, that may arrive in any order, and goes on *)
(* with one that has no number; p2 starts with one.                         *)
Three == (p1 :> 3) @@ (p2 :> 1)
OneMore == (p1 :> 1) @@ (p2 :> 0)

Texts == {Text(n, numbered) : n \in 1..4, numbered \in BOOLEAN}

(* Sender 1, a group of one and then message 1, as main writes them: the    *)
(* digits 1011, whoever reads them.                                         *)
Digits == [k \in Key |-> 1011]

Calls ==
    [p \in Proc |-> {Text(n, n <= Batch[p]) : n \in 1..(Batch[p] + Extra[p])}]

=============================================================================
