--------------------------------- MODULE Rb ---------------------------------
(***************************************************************************)
(* ReliableBroadcast (src/broadcast/rb.cpp) of every process, with what    *)
(* Perfectlink::addMessageRelay makes of a relayed message.                *)
(*                                                                         *)
(* A relay keeps the originator in the packet's first field: to its        *)
(* receiver it looks like the original.  The acknowledgment goes to the    *)
(* originator, which takes it for one of its own packet, and the relayer   *)
(* never gets one.  A relay back to the originator is what brings it its   *)
(* own message, since nobody has a link to itself.                         *)
(*                                                                         *)
(* Below are the links as Links.tla has them: packets and acknowledgments  *)
(* are lost, repeated and delayed, and two threads of a process may read   *)
(* copies of one.                                                          *)
(***************************************************************************)
EXTENDS Naturals, FiniteSets

CONSTANTS
    Proc,      \* the processes of the hosts file
    Body,      \* the messages
    Script,    \* Script[p]: what p is going to broadcast
    MaxCrash   \* how many processes may crash

ASSUME ScriptAssumption == Script \in [Proc -> SUBSET Body]

ASSUME CrashAssumption == MaxCrash \in Nat

VARIABLES
    alive,      \* the processes that have not crashed
    sent,       \* sent[p]: what p has broadcast
    to_send,    \* to_send[p]: messages_to_send of p's links
    wire,       \* the packets that left a process: each may arrive, again too
    acks,       \* acks_to_send of all links: the packets to acknowledge
    acked,      \* the acknowledgments that left: each may arrive, again too
    thread,     \* thread[l]: what the delivery thread of link l is doing
    recorded,   \* process_delivered of all receivers
    delivered   \* messages_delivered of all processes

vars == <<alive, sent, to_send, wire, acks, acked, thread, recorded, delivered>>

-----------------------------------------------------------------------------
(* A link, named by the process it belongs to and the target of its sender. *)
Link == {l \in Proc \X Proc : l[1] # l[2]}

(* A packet names the originator, not who sends it, and the target of the   *)
(* link it is queued on.                                                    *)
Packet == {pkt \in [from : Proc, to : Proc, body : Body] : pkt.body \in Script[pkt.from]}

Peers(p) == Proc \ {p}

Steps == {"idle", "record", "filter", "deliver", "relay", "ack"}

Idle == [step |-> "idle", pkts |-> {}]

Busy(step, pkt) == [step |-> step, pkts |-> {pkt}]

At(l, step, pkt) == thread[l] = Busy(step, pkt)

TypeOK ==
    /\ alive \subseteq Proc
    /\ sent \in [Proc -> SUBSET Body]
    /\ to_send \in [Proc -> SUBSET Packet]
    /\ \A p \in Proc : \A pkt \in to_send[p] : pkt.to # p
    /\ wire \subseteq Packet
    /\ acks \subseteq Packet
    /\ acked \subseteq Packet
    /\ thread \in [Link -> {Idle} \cup {Busy(s, pkt) : s \in Steps \ {"idle"}, pkt \in Packet}]
    /\ \A l \in Link : \A pkt \in thread[l].pkts : pkt.to = l[1]
    /\ recorded \subseteq Packet
    /\ delivered \subseteq recorded

Init ==
    /\ alive = Proc
    /\ sent = [p \in Proc |-> {}]
    /\ to_send = [p \in Proc |-> {}]
    /\ wire = {}
    /\ acks = {}
    /\ acked = {}
    /\ thread = [l \in Link |-> Idle]
    /\ recorded = {}
    /\ delivered = {}

-----------------------------------------------------------------------------
(* BEB's broadcastMessage: the message is queued on every link.             *)
Originals(p, m) == {[from |-> p, to |-> q, body |-> m] : q \in Peers(p)}

Broadcast(p, m) ==
    /\ p \in alive
    /\ m \in Script[p] \ sent[p]
    /\ sent' = [sent EXCEPT ![p] = @ \cup {m}]
    /\ to_send' = [to_send EXCEPT ![p] = @ \cup Originals(p, m)]
    /\ UNCHANGED <<alive, wire, acks, acked, thread, recorded, delivered>>

(* Fault: a packet is removed from the list when it has been sent.          *)
SendOnce(p, pkt) ==
    /\ p \in alive
    /\ pkt \in to_send[p]
    /\ to_send' = [to_send EXCEPT ![p] = @ \ {pkt}]
    /\ wire' = wire \cup {pkt}
    /\ UNCHANGED <<alive, sent, acks, acked, thread, recorded, delivered>>

(* A sending thread sends what is queued.  It does so again and again, but  *)
(* what is on the wire may arrive any number of times already.              *)
Send(p, pkt) ==
    /\ p \in alive
    /\ pkt \in to_send[p] \ wire
    /\ wire' = wire \cup {pkt}
    /\ UNCHANGED <<alive, sent, to_send, acks, acked, thread, recorded, delivered>>

-----------------------------------------------------------------------------
(* A delivery thread.                                                       *)

Step(l, to) ==
    /\ l[1] \in alive
    /\ thread' = [thread EXCEPT ![l] = to]

(* Fault: the acknowledgment is queued before the packet is recorded.       *)
ReadAcked(l, pkt) ==
    /\ thread[l] = Idle
    /\ pkt \in wire \ recorded
    /\ pkt.to = l[1]
    /\ Step(l, Busy("record", pkt))
    /\ acks' = acks \cup {pkt}
    /\ UNCHANGED <<alive, sent, to_send, wire, acked, recorded, delivered>>

(* It reads a packet that hasDelivered does not know.                       *)
Read(l, pkt) ==
    /\ thread[l] = Idle
    /\ pkt \in wire \ recorded
    /\ pkt.to = l[1]
    /\ Step(l, Busy("record", pkt))
    /\ UNCHANGED <<alive, sent, to_send, wire, acks, acked, recorded, delivered>>

addMessageDelivered(l, pkt) ==
    /\ At(l, "record", pkt)
    /\ recorded' = recorded \cup {pkt}
    /\ Step(l, Busy("filter", pkt))
    /\ UNCHANGED <<alive, sent, to_send, wire, acks, acked, delivered>>

(* RB's deliver asks messages_delivered, and so does BEB's after it.        *)
Filter(l, pkt) ==
    /\ At(l, "filter", pkt)
    /\ Step(l, Busy(IF pkt \in delivered THEN "ack" ELSE "deliver", pkt))
    /\ UNCHANGED <<alive, sent, to_send, wire, acks, acked, recorded, delivered>>

(* Fault: the filter is asked again after BEB has filed the message, which  *)
(* is not relayed then.                                                     *)
BebDeliverFirst(l, pkt) ==
    /\ At(l, "deliver", pkt)
    /\ delivered' = delivered \cup {pkt}
    /\ Step(l, Busy("ack", pkt))
    /\ UNCHANGED <<alive, sent, to_send, wire, acks, acked, recorded>>

(* BEB's deliver, which files the message if another thread has not.        *)
BebDeliver(l, pkt) ==
    /\ At(l, "deliver", pkt)
    /\ delivered' = delivered \cup {pkt}
    /\ Step(l, Busy("relay", pkt))
    /\ UNCHANGED <<alive, sent, to_send, wire, acks, acked, recorded>>

(* Fault: the packet is passed on as it came.                               *)
RelaysUnchanged(p, pkt) == {pkt}

(* Fault: the packet is made anew, with the relayer as its sender.          *)
RelaysAsOwn(p, pkt) == {[pkt EXCEPT !.from = p, !.to = q] : q \in Peers(p)}

(* Fault: the message is not sent back to where it came from.               *)
RelaysToOthers(p, pkt) == {[pkt EXCEPT !.to = q] : q \in Peers(p) \ {pkt.from}}

(* addMessageRelay on every link: only the target is replaced.              *)
Relays(p, pkt) == {[pkt EXCEPT !.to = q] : q \in Peers(p)}

relay(l, pkt) ==
    /\ At(l, "relay", pkt)
    /\ to_send' = [to_send EXCEPT ![l[1]] = @ \cup Relays(l[1], pkt)]
    /\ Step(l, Busy("ack", pkt))
    /\ UNCHANGED <<alive, sent, wire, acks, acked, recorded, delivered>>

-----------------------------------------------------------------------------
(* Acknowledgments.  One is the packet itself, with another first digit.    *)

(* It is queued on the link to the originator, whoever sent the packet.     *)
(* For what a process gets back of its own there is no such link, and one   *)
(* that is under way already may arrive any number of times.                *)
Acked(pkt) == IF pkt.from = pkt.to \/ pkt \in acked THEN acks ELSE acks \cup {pkt}

(* The delivery thread acknowledges what it has dealt with ...              *)
addAck(l, pkt) ==
    /\ At(l, "ack", pkt)
    /\ acks' = Acked(pkt)
    /\ Step(l, Idle)
    /\ UNCHANGED <<alive, sent, to_send, wire, acked, recorded, delivered>>

(* ... and at once what hasDelivered knows, though the thread that recorded *)
(* it may still be on its way to BEB.                                       *)
ReadAgain(l, pkt) ==
    /\ l[1] \in alive
    /\ thread[l] = Idle
    /\ pkt \in wire \cap recorded
    /\ pkt.to = l[1]
    /\ acks' = Acked(pkt)
    /\ UNCHANGED <<alive, sent, to_send, wire, acked, thread, recorded, delivered>>

(* A pass of ackThreaded sends what is on the list and clears it.           *)
SendAcks(l) ==
    LET mine == {pkt \in acks : l = <<pkt.to, pkt.from>>} IN
    /\ l[1] \in alive
    /\ mine # {}
    /\ acks' = acks \ mine
    /\ acked' = acked \cup mine
    /\ UNCHANGED <<alive, sent, to_send, wire, thread, recorded, delivered>>

(* Fault: acknowledgments go back to whoever sent the packet.               *)
RemoveAtSender(l, pkt) ==
    /\ l[1] \in alive
    /\ thread[l] = Idle
    /\ pkt \in acked
    /\ l[2] = pkt.to
    /\ to_send' = [to_send EXCEPT ![l[1]] = @ \ {pkt}]
    /\ UNCHANGED <<alive, sent, wire, acks, acked, thread, recorded, delivered>>

(* The originator reads an acknowledgment.  The thread of the link to the   *)
(* acknowledging process removes the packet, original or relay, from its    *)
(* list; one of another link passes it to the link under the own id, which  *)
(* there is not.                                                            *)
RemoveAcked(l, pkt) ==
    /\ l[1] \in alive
    /\ thread[l] = Idle
    /\ pkt \in acked
    /\ l = <<pkt.from, pkt.to>>
    /\ to_send' = [to_send EXCEPT ![l[1]] = @ \ {pkt}]
    /\ UNCHANGED <<alive, sent, wire, acks, acked, thread, recorded, delivered>>

(* What a crashed process had queued or in hand is gone.                    *)
Crash(p) ==
    /\ p \in alive
    /\ Cardinality(Proc \ alive) < MaxCrash
    /\ alive' = alive \ {p}
    /\ to_send' = [to_send EXCEPT ![p] = {}]
    /\ acks' = {pkt \in acks : pkt.to # p}
    /\ thread' = [l \in Link |-> IF l[1] = p THEN Idle ELSE thread[l]]
    /\ UNCHANGED <<sent, wire, acked, recorded, delivered>>

-----------------------------------------------------------------------------
Delivering(l) ==
    \E pkt \in thread[l].pkts :
        \/ addMessageDelivered(l, pkt)
        \/ Filter(l, pkt)
        \/ BebDeliver(l, pkt)
        \/ relay(l, pkt)
        \/ addAck(l, pkt)

Next ==
    \/ \E p \in Proc :
        \/ \E m \in Body : Broadcast(p, m)
        \/ \E pkt \in to_send[p] : Send(p, pkt)
        \/ Crash(p)
    \/ \E l \in Link :
        \/ Delivering(l)
        \/ \E pkt \in wire : Read(l, pkt) \/ ReadAgain(l, pkt)
        \/ SendAcks(l)
        \/ \E pkt \in acked : RemoveAcked(l, pkt)

Spec == Init /\ [][Next]_vars

(* The network is fair: what a live process sends for good arrives, while   *)
(* what was sent by a process that has crashed or forgotten it need not.    *)
StillSent(pkt) == \E p \in alive : pkt \in to_send[p]

Arriving(l) == \E pkt \in wire : StillSent(pkt) /\ Read(l, pkt)

(* The threads of a live process keep running.                              *)
Running(p) ==
    \/ \E pkt \in to_send[p] : Send(p, pkt)
    \/ \E l \in Link : l[1] = p /\ (Delivering(l) \/ Arriving(l))

(* No behaviour takes these steps for ever: every packet is sent once here  *)
(* and read, by each thread, until it is recorded.  Fairness of all of them *)
(* together therefore gives each its turn.  Acknowledgments need not arrive.*)
Fairness == WF_vars(\E p \in Proc : Running(p))

FairSpec == Spec /\ Fairness

-----------------------------------------------------------------------------
(* Properties.                                                             *)

Delivered(q, p, m) == [from |-> p, to |-> q, body |-> m] \in delivered

(* A thread of q has delivered the message and has yet to relay it.         *)
Relaying(q, p, m) == \E l \in Link : At(l, "relay", [from |-> p, to |-> q, body |-> m])

(* A live process that has delivered the message of another keeps sending   *)
(* it to everyone, for good: its relays are never acknowledged, and a       *)
(* receiver that missed the original will get one of them.                  *)
RelayersKeep ==
    \A q \in alive, p \in Proc : \A m \in Script[p] :
        q # p /\ Delivered(q, p, m)
            => Relaying(q, p, m) \/ Relays(q, [from |-> p, to |-> q, body |-> m]) \subseteq to_send[q]

(* A thread of the receiver has recorded pkt and has yet to take it to BEB. *)
OnItsWay(pkt) == \E l \in Link : At(l, "filter", pkt) \/ At(l, "deliver", pkt)

(* An originator stops retransmitting a packet only when a receiver that is *)
(* alive can no longer miss it: it has it, or one of its threads is about   *)
(* to deliver it.  The acknowledgment may be that of a relay, sent by a     *)
(* thread that found the packet recorded by another, and arrive long after, *)
(* when the originator has queued the packet once more as a relay.          *)
ForgottenWhenHeld ==
    \A p \in alive : \A m \in sent[p] : \A pkt \in Originals(p, m) \ to_send[p] :
        pkt.to \in alive => pkt \in delivered \/ OnItsWay(pkt)

(* Only what a process has broadcast is delivered under its name, though    *)
(* anyone may send packets with that name.                                  *)
NoCreation == \A pkt \in delivered : pkt.body \in sent[pkt.from]

(* Nothing is left to do among the live: their delivery threads wait, and   *)
(* they send each other only what was recorded before.                      *)
Settled ==
    /\ \A l \in Link : l[1] \in alive => thread[l] = Idle
    /\ \A p \in alive : \A pkt \in to_send[p] : pkt.to \in alive => pkt \in recorded

(* What the layer owes is never owed for good: when the live processes have *)
(* settled, a message that one of them has delivered, or has broadcast with *)
(* another still there to relay it back, is delivered by all of them,       *)
(* however many processes crashed and wherever in their work.               *)
SettledDelivers ==
    Settled => \A p \in Proc : \A m \in Script[p] :
        (\E q \in alive : Delivered(q, p, m)) \/ (p \in alive /\ m \in sent[p] /\ alive # {p})
            => \A r \in alive : Delivered(r, p, m)

(* Agreement, whatever number of processes crashes: what a live process has *)
(* delivered is delivered by everyone that stays alive, the originator by   *)
(* way of a relay included, unless all that have it crash before.           *)
Agreement ==
    \A p \in Proc : \A m \in Script[p] :
        (\E q \in alive : Delivered(q, p, m))
            ~> \/ \A q \in alive : Delivered(q, p, m)
               \/ \A q \in alive : ~Delivered(q, p, m)

(* Validity, as far as it goes: what a process broadcasts that stays alive  *)
(* is delivered by everyone that stays alive, and by itself unless it is    *)
(* the only one left.                                                       *)
Validity ==
    \A p \in Proc : \A m \in Script[p] :
        m \in sent[p] ~> p \notin alive \/ alive = {p} \/ \A r \in alive : Delivered(r, p, m)

=============================================================================
