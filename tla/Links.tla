------------------------------- MODULE Links -------------------------------
(***************************************************************************)
(* The perfect links (src/perfectlink.cpp) of every process, with the two  *)
(* duplicate filters behind them, Receiver's process_delivered and BEB's   *)
(* messages_delivered, over UDP, which loses, repeats and reorders.        *)
(*                                                                         *)
(* A process has a link per peer and a link three threads: one sends what  *)
(* is queued again and again, one sends acknowledgments, and one reads the *)
(* socket.  All links of a process share the socket, so that any of its    *)
(* delivery threads may read any datagram sent to the process, and the     *)
(* mutexes they take are members of the link: they exclude nobody.         *)
(***************************************************************************)
EXTENDS Naturals, FiniteSets

CONSTANTS
    Proc,      \* the processes of the hosts file
    Body,      \* what the layer above sends
    Script     \* Script[p]: what p is going to broadcast over its links

ASSUME ScriptAssumption == Script \in [Proc -> SUBSET Body]

VARIABLES
    active,      \* the links whose link_active is set
    queued,      \* the packets queued so far
    to_send,     \* messages_to_send of all links
    wire,        \* the datagrams under way or waiting in a socket
    thread,      \* thread[l]: what the delivery thread of link l is doing
    recorded,    \* process_delivered of all receivers
    delivered,   \* messages_delivered of all BEBs
    upcalls,     \* upcalls[pkt]: how often BEB has handed pkt up
    acks         \* acks_to_send of all links

vars == <<active, queued, to_send, wire, thread, recorded, delivered, upcalls, acks>>

-----------------------------------------------------------------------------
(* Data.                                                                   *)

(* A link, named by the process it belongs to and the target of its sender. *)
Link == {l \in Proc \X Proc : l[1] # l[2]}

(* sprintf("%d%03d%03d%s"): this_process_id, target_id and the message.  A  *)
(* packet determines the lists it is kept in.                               *)
Packet == {pkt \in [from : Proc, to : Proc, body : Body] : pkt.from # pkt.to}

(* Fault: the sender's field is filled with the target as well.             *)
PacketOfTarget(l, m) == [from |-> l[2], to |-> l[2], body |-> m]

PacketOf(l, m) == [from |-> l[1], to |-> l[2], body |-> m]

Queuer(pkt) == <<pkt.from, pkt.to>>

Acker(pkt) == <<pkt.to, pkt.from>>

(* The first character tells a message from an acknowledgment, which goes   *)
(* back with the packet otherwise unchanged.                                *)
Datagram == [ack : BOOLEAN, pkt : Packet]

Msg(pkt) == [ack |-> FALSE, pkt |-> pkt]

Ack(pkt) == [ack |-> TRUE, pkt |-> pkt]

Steps == {"idle", "record", "filter", "push", "ack"}

Idle == [step |-> "idle", pkts |-> {}]

Busy(step, pkt) == [step |-> step, pkts |-> {pkt}]

TypeOK ==
    /\ active \subseteq Link
    /\ queued \subseteq Packet
    /\ to_send \subseteq queued
    /\ wire \subseteq Datagram
    /\ thread \in [Link -> [step : Steps, pkts : SUBSET Packet]]
    /\ recorded \subseteq Packet
    /\ delivered \subseteq Packet
    /\ upcalls \in [Packet -> Nat]
    /\ acks \subseteq Packet

Init ==
    /\ active = {}
    /\ queued = {}
    /\ to_send = {}
    /\ wire = {}
    /\ thread = [l \in Link |-> Idle]
    /\ recorded = {}
    /\ delivered = {}
    /\ upcalls = [pkt \in Packet |-> 0]
    /\ acks = {}

-----------------------------------------------------------------------------
(* The sending side.                                                       *)

setLinkActive(l) ==
    /\ l \notin active
    /\ active' = active \cup {l}
    /\ UNCHANGED <<queued, to_send, wire, thread, recorded, delivered, upcalls, acks>>

(* sendto: whatever part of ds the network does not lose.                   *)
Sends(ds) == \E arriving \in SUBSET ds : wire' = wire \cup arriving

(* Fault: what an active link sends is not queued.                          *)
sendNewMessageOnce(l, m) ==
    LET pkt == PacketOf(l, m) IN
    /\ m \in Script[l[1]]
    /\ pkt \notin queued
    /\ Sends(IF l \in active THEN {Msg(pkt)} ELSE {})
    /\ queued' = queued \cup {pkt}
    /\ to_send' = IF l \in active THEN to_send ELSE to_send \cup {pkt}
    /\ UNCHANGED <<active, thread, recorded, delivered, upcalls, acks>>

(* Under messages_to_send_mutex: an active link sends at once.  An inactive *)
(* one only queues, as addMessage does for startBroadcast.                  *)
sendNewMessage(l, m) ==
    LET pkt == PacketOf(l, m) IN
    /\ m \in Script[l[1]]
    /\ pkt \notin queued
    /\ Sends(IF l \in active THEN {Msg(pkt)} ELSE {})
    /\ queued' = queued \cup {pkt}
    /\ to_send' = to_send \cup {pkt}
    /\ UNCHANGED <<active, thread, recorded, delivered, upcalls, acks>>

(* One message of a pass of sendThreaded.                                   *)
Resend(pkt) ==
    /\ pkt \in to_send
    /\ Queuer(pkt) \in active
    /\ Sends({Msg(pkt)})
    /\ UNCHANGED <<active, queued, to_send, thread, recorded, delivered, upcalls, acks>>

(* A pass of ackThreaded: sends and clears the list, under its mutex.       *)
SendAcks(l) ==
    LET mine == {pkt \in acks : Acker(pkt) = l} IN
    /\ l \in active
    /\ mine # {}
    /\ Sends({Ack(pkt) : pkt \in mine})
    /\ acks' = acks \ mine
    /\ UNCHANGED <<active, queued, to_send, thread, recorded, delivered, upcalls>>

-----------------------------------------------------------------------------
(* The delivery thread, in deliverThreaded.                                *)

(* The delivery thread of l gets d from the socket.  A copy may come later. *)
Receive(l, d) ==
    /\ l \in active
    /\ thread[l] = Idle
    /\ d \in wire
    /\ (IF d.ack THEN d.pkt.from ELSE d.pkt.to) = l[1]
    /\ wire' \in {wire, wire \ {d}}

At(l, step, pkt) == thread[l] = Busy(step, pkt)

GoTo(l, step, pkt) == thread' = [thread EXCEPT ![l] = Busy(step, pkt)]

(* Fault: the acknowledgment is queued before the message is handled.       *)
ReadNewAcked(l, d) ==
    /\ Receive(l, d)
    /\ ~d.ack
    /\ d.pkt \notin recorded
    /\ acks' = acks \cup {d.pkt}
    /\ GoTo(l, "record", d.pkt)
    /\ UNCHANGED <<active, queued, to_send, recorded, delivered, upcalls>>

(* A message hasDelivered does not know.                                    *)
ReadNew(l, d) ==
    /\ Receive(l, d)
    /\ ~d.ack
    /\ d.pkt \notin recorded
    /\ GoTo(l, "record", d.pkt)
    /\ UNCHANGED <<active, queued, to_send, recorded, delivered, upcalls, acks>>

(* Fault: a message is acknowledged only the first time.                    *)
ReadAgainSilent(l, d) ==
    /\ Receive(l, d)
    /\ ~d.ack
    /\ d.pkt \in recorded
    /\ UNCHANGED <<active, queued, to_send, thread, recorded, delivered, upcalls, acks>>

(* A message it knows: only the acknowledgment is repeated.                 *)
ReadAgain(l, d) ==
    /\ Receive(l, d)
    /\ ~d.ack
    /\ d.pkt \in recorded
    /\ GoTo(l, "ack", d.pkt)
    /\ UNCHANGED <<active, queued, to_send, recorded, delivered, upcalls, acks>>

addMessageDelivered(l, pkt) ==
    /\ At(l, "record", pkt)
    /\ recorded' = recorded \cup {pkt}
    /\ GoTo(l, "filter", pkt)
    /\ UNCHANGED <<active, queued, to_send, wire, delivered, upcalls, acks>>

(* Fault: BEB hands up without looking.                                     *)
BebPassesAll(l, pkt) ==
    /\ At(l, "filter", pkt)
    /\ GoTo(l, "push", pkt)
    /\ UNCHANGED <<active, queued, to_send, wire, recorded, delivered, upcalls, acks>>

(* BEB's deliver: messages_delivered does not contain the message ...       *)
BebPasses(l, pkt) ==
    /\ At(l, "filter", pkt)
    /\ pkt \notin delivered
    /\ GoTo(l, "push", pkt)
    /\ UNCHANGED <<active, queued, to_send, wire, recorded, delivered, upcalls, acks>>

(* ... or it does, and nothing happens.                                     *)
BebDrops(l, pkt) ==
    /\ At(l, "filter", pkt)
    /\ pkt \in delivered
    /\ GoTo(l, "ack", pkt)
    /\ UNCHANGED <<active, queued, to_send, wire, recorded, delivered, upcalls, acks>>

(* The message is filed and handed to the upper layer.                      *)
BebDelivers(l, pkt) ==
    /\ At(l, "push", pkt)
    /\ delivered' = delivered \cup {pkt}
    /\ upcalls' = [upcalls EXCEPT ![pkt] = @ + 1]
    /\ GoTo(l, "ack", pkt)
    /\ UNCHANGED <<active, queued, to_send, wire, recorded, acks>>

(* The acknowledgment goes to the link to the sender, whichever link read   *)
(* the message.                                                             *)
addAck(l, pkt) ==
    /\ At(l, "ack", pkt)
    /\ acks' = acks \cup {pkt}
    /\ thread' = [thread EXCEPT ![l] = Idle]
    /\ UNCHANGED <<active, queued, to_send, wire, recorded, delivered, upcalls>>

(* An acknowledgment read by the thread of the link that sent the message.  *)
RemoveAcked(l, d) ==
    /\ Receive(l, d)
    /\ d.ack
    /\ Queuer(d.pkt) = l
    /\ to_send' = to_send \ {d.pkt}
    /\ UNCHANGED <<active, queued, thread, recorded, delivered, upcalls, acks>>

(* Read by the thread of another link: the link it is passed on to is       *)
(* looked up under the id of this process, and there is none.               *)
StrayAck(l, d) ==
    /\ Receive(l, d)
    /\ d.ack
    /\ Queuer(d.pkt) # l
    /\ UNCHANGED <<active, queued, to_send, thread, recorded, delivered, upcalls, acks>>

-----------------------------------------------------------------------------
Reads(l, d) == ReadNew(l, d) \/ ReadAgain(l, d) \/ RemoveAcked(l, d) \/ StrayAck(l, d)

Delivering(l) ==
    \E pkt \in thread[l].pkts :
        \/ addMessageDelivered(l, pkt)
        \/ BebPasses(l, pkt)
        \/ BebDrops(l, pkt)
        \/ BebDelivers(l, pkt)
        \/ addAck(l, pkt)

Next ==
    \/ \E l \in Link :
        \/ setLinkActive(l)
        \/ \E m \in Body : sendNewMessage(l, m)
        \/ SendAcks(l)
        \/ Delivering(l)
        \/ \E d \in wire : Reads(l, d)
    \/ \E pkt \in to_send : Resend(pkt)

Spec == Init /\ [][Next]_vars

(* Nobody crashes and every thread keeps running.  The network is fair: of  *)
(* what is sent again and again, not everything is lost; and what has       *)
(* arrived is read once threads come back to the socket again and again.    *)
Arrives(d) ==
    /\ \/ Resend(d.pkt)
       \/ SendAcks(Acker(d.pkt))
    /\ d \notin wire
    /\ d \in wire'

Fairness ==
    /\ \A l \in Link :
        /\ WF_vars(setLinkActive(l))
        /\ \A m \in Body : WF_vars(sendNewMessage(l, m))
        /\ WF_vars(SendAcks(l))
        /\ WF_vars(Delivering(l))
    /\ \A d \in Datagram :
        /\ SF_vars(Arrives(d))
        /\ SF_vars(\E l \in Link : Reads(l, d))

FairSpec == Spec /\ Fairness

-----------------------------------------------------------------------------
(* Properties.                                                             *)

(* Some delivery thread has pkt in hand and has yet to take it to BEB.      *)
OnItsWay(pkt) == \E l \in Link : At(l, "filter", pkt) \/ At(l, "push", pkt)

(* A sender stops retransmitting a message only when the receiver can no    *)
(* longer miss it: it has been handed up, or a thread of the receiver,      *)
(* perhaps not the one that acknowledged it, is about to do so.             *)
ForgottenWhenHeld ==
    \A pkt \in queued \ to_send : pkt \in delivered \/ OnItsWay(pkt)

(* The threads of the receiver of a packet.                                 *)
Readers(pkt) == {l \in Link : l[1] = pkt.to}

Contract == INSTANCE LinkContract WITH
    Thread <- Link,
    ReadBy <- [l \in Link |-> {pkt \in Packet : pkt.to = l[1]}],
    entered <- [l \in Link |-> IF thread[l].step = "push" THEN thread[l].pkts ELSE {}],
    seen <- delivered

(* The links do what LinkContract says and Urb builds on: only what was     *)
(* queued for the process is handed up, and, although threads race through  *)
(* two filters, only by a thread that found the packet in neither.          *)
ContractSpec == Contract!Spec

(* What is queued arrives in spite of losses, repetitions and reordering.   *)
Reliable == Contract!Reliable

(* Retransmission ends: the lists of unacknowledged messages empty for good, *)
(* though any number of acknowledgments is lost.                            *)
EventuallyQuiet == <>[](to_send = {})

=============================================================================
