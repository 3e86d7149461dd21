------------------------------- MODULE MCUrb -------------------------------
(***************************************************************************)
(* Instances of Urb for TLC.                                               *)
(***************************************************************************)
EXTENDS Urb, TLC

CONSTANTS p1, p2, p3, m1

(* One broadcaster: every interleaving of a single message's relays.        *)
OneMessage == [p \in Proc |-> IF p = p1 THEN {m1} ELSE {}]

(* The processes that broadcast nothing are interchangeable.                *)
Symmetry == Permutations(Proc \ {p1})

(* Everyone has a message, but two broadcast only where the third never ran. *)
Everyone == [p \in Proc |-> {m1}]

NeverRan(p) == ~alive[p] /\ poller[p] = "off" /\ seen[p] = {} /\ sent[p] = {}

OneOrPair ==
    \A p \in Proc \ {p1} : sent[p] # {} => \E q \in Proc \ {p1, p} : NeverRan(q)

=============================================================================
