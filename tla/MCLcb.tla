------------------------------- MODULE MCLcb -------------------------------
(***************************************************************************)
(* Instances of Lcb for TLC.                                               *)
(***************************************************************************)
EXTENDS Lcb, TLC

CONSTANTS p1, p2, p3

(* p1 and p2 depend on each other, p3 looks on.  p1 sends two messages, so  *)
(* that a stamp can lag behind by one and the order of p1's messages        *)
(* matters.                                                                 *)
MutualDeps == (p1 :> {p2}) @@ (p2 :> {p1}) @@ (p3 :> {})
MutualCount == (p1 :> 2) @@ (p2 :> 1) @@ (p3 :> 0)

(* p2 depends on p1.                                                        *)
ObserverDeps == (p1 :> {}) @@ (p2 :> {p1}) @@ (p3 :> {})

(* One message of p1 and one that depends on it.                            *)
PairCount == (p1 :> 1) @@ (p2 :> 1) @@ (p3 :> 0)

=============================================================================
