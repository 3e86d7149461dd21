---------------------------- MODULE UrbContract ----------------------------
(***************************************************************************)
(* What uniform reliable broadcast promises the layer above it: the        *)
(* interface of UniformReliableBroadcast (include/urb.hpp), with its       *)
(* messages, acknowledgments and threads left out.  Urb.tla is the code of *)
(* the layer and is shown to implement this module; Lcb.tla builds on it.  *)
(***************************************************************************)
EXTENDS Naturals

CONSTANTS Proc,      \* the processes of the hosts file
          Payload,   \* the messages of the layer above
          Script     \* Script[p]: the messages p is going to broadcast

VARIABLES alive,     \* alive[p]: p has not crashed
          sent,      \* sent[p]: what p has handed to broadcastMessage
          delivered  \* delivered[p]: the keys p has handed to its upper layer

vars == <<alive, sent, delivered>>

(* The list entry "orig.body" that names a message everywhere in the layer. *)
Key == [orig : Proc, body : Payload]

TypeOK ==
    /\ alive \in [Proc -> BOOLEAN]
    /\ sent \in [Proc -> SUBSET Payload]
    /\ delivered \in [Proc -> SUBSET Key]

Init ==
    /\ alive = [p \in Proc |-> TRUE]
    /\ sent = [p \in Proc |-> {}]
    /\ delivered = [p \in Proc |-> {}]

(* broadcastMessage: each message of the script once. *)
Broadcast(p, m) ==
    /\ alive[p]
    /\ m \in Script[p] \ sent[p]
    /\ sent' = [sent EXCEPT ![p] = @ \cup {m}]
    /\ UNCHANGED <<alive, delivered>>

(* The upcall upper_layer->deliver: only of a message its originator sent,  *)
(* and only once.                                                           *)
Deliver(p, k) ==
    /\ alive[p]
    /\ k.body \in sent[k.orig]
    /\ k \notin delivered[p]
    /\ delivered' = [delivered EXCEPT ![p] = @ \cup {k}]
    /\ UNCHANGED <<alive, sent>>

Crash(p) ==
    /\ alive[p]
    /\ alive' = [alive EXCEPT ![p] = FALSE]
    /\ UNCHANGED <<sent, delivered>>

Next ==
    \E p \in Proc :
        \/ \E m \in Payload : Broadcast(p, m)
        \/ \E k \in Key : Deliver(p, k)
        \/ Crash(p)

Spec == Init /\ [][Next]_vars

-----------------------------------------------------------------------------
(* Liveness promises, checked of the code's model under its own fairness.  *)

(* Validity: a process that broadcasts a message and does not crash         *)
(* delivers its own message.                                                *)
Validity ==
    \A p \in Proc : \A m \in Script[p] :
        m \in sent[p] ~> (~alive[p] \/ [orig |-> p, body |-> m] \in delivered[p])

Delivered(q, k) == k \in delivered[q]

(* Uniform agreement: what any process delivers, even one that crashes      *)
(* afterwards, every process that does not crash delivers.                  *)
UniformAgreement ==
    \A p \in Proc : \A m \in Script[p] :
        LET k == [orig |-> p, body |-> m] IN
        (\E q \in Proc : Delivered(q, k)) ~> (\A q \in Proc : ~alive[q] \/ Delivered(q, k))

=============================================================================
