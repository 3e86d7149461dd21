---------------------------- MODULE FifoContract ----------------------------
(***************************************************************************)
(* What the output files must look like message by message, whatever the   *)
(* broadcast.  A process logs its broadcasts in order and its deliveries   *)
(* from each sender in order, without gaps or repetitions, which is what   *)
(* tools/validate_fifo.py checks of one file; and it logs no delivery that *)
(* the sender has not logged as a broadcast, which takes two files to see. *)
(***************************************************************************)
EXTENDS Naturals, Sequences

CONSTANT Proc

VARIABLES bcast,  \* bcast[p]: how many messages p has logged as broadcast
          dlv,    \* dlv[p][s]: how many of s's messages p has logged as delivered
          log     \* log[p]: the lines of p's output file

vars == <<bcast, dlv, log>>

Init ==
    /\ bcast = [p \in Proc |-> 0]
    /\ dlv = [p \in Proc |-> [s \in Proc |-> 0]]
    /\ log = [p \in Proc |-> <<>>]

Broadcast(p) ==
    /\ log' = [log EXCEPT ![p] = Append(@, [ev |-> "b", src |-> p, sn |-> bcast[p]])]
    /\ bcast' = [bcast EXCEPT ![p] = @ + 1]
    /\ UNCHANGED dlv

Deliver(p, s) ==
    /\ dlv[p][s] < bcast[s]
    /\ log' = [log EXCEPT ![p] = Append(@, [ev |-> "d", src |-> s, sn |-> dlv[p][s]])]
    /\ dlv' = [dlv EXCEPT ![p][s] = @ + 1]
    /\ UNCHANGED bcast

Next == \E p \in Proc : Broadcast(p) \/ \E s \in Proc : Deliver(p, s)

Spec == Init /\ [][Next]_vars

=============================================================================
