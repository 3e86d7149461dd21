---------------------------- MODULE LinkContract ----------------------------
(***************************************************************************)
(* What the perfect links and best-effort broadcast promise to the layer   *)
(* above: the packets a process queues on a link are handed up by the      *)
(* threads of the receiver that read the socket, one packet per thread at  *)
(* a time, until one of them has recorded the packet.  Urb.tla is written  *)
(* on top of this: its HandUp is Enter and its Record is HandUp here.      *)
(***************************************************************************)
EXTENDS Naturals

CONSTANTS
    Thread,    \* the delivery threads
    Packet,    \* what travels: sender, receiver and body
    ReadBy     \* ReadBy[t]: the packets addressed to the process of thread t

VARIABLES
    queued,    \* the packets queued on a link
    entered,   \* entered[t]: the packet t found unrecorded, in a set
    seen,      \* the packets recorded by their receiver
    upcalls    \* upcalls[pkt]: the threads that handed pkt up, one upcall each

vars == <<queued, entered, seen, upcalls>>

Init ==
    /\ queued = {}
    /\ entered = [t \in Thread |-> {}]
    /\ seen = {}
    /\ upcalls = [pkt \in Packet |-> 0]

Queue(pkt) ==
    /\ queued' = queued \cup {pkt}
    /\ UNCHANGED <<entered, seen, upcalls>>

Enter(t, pkt) ==
    /\ entered[t] = {}
    /\ pkt \in queued \cap ReadBy[t]
    /\ pkt \notin seen
    /\ entered' = [entered EXCEPT ![t] = {pkt}]
    /\ UNCHANGED <<queued, seen, upcalls>>

HandUp(t, pkt) ==
    /\ pkt \in entered[t]
    /\ seen' = seen \cup {pkt}
    /\ entered' = [entered EXCEPT ![t] = {}]
    /\ upcalls' = [upcalls EXCEPT ![pkt] = @ + 1]
    /\ UNCHANGED queued

Next ==
    \E pkt \in Packet :
        \/ Queue(pkt)
        \/ \E t \in Thread : Enter(t, pkt) \/ HandUp(t, pkt)

Spec == Init /\ [][Next]_vars

-----------------------------------------------------------------------------
(* Reliable delivery: what is queued between processes that go on running   *)
(* is handed up, however often the network loses it.                        *)
Reliable == \A pkt \in Packet : pkt \in queued ~> pkt \in seen

=============================================================================
