------------------------------ MODULE RbProofs ------------------------------
(***************************************************************************)
(* Theorems about Rb for any processes, messages and scripts and any       *)
(* number of crashes.                                                      *)
(***************************************************************************)
EXTENDS Rb, TLAPS

-----------------------------------------------------------------------------
(* What is queued, under way, in hand or recorded was broadcast under the   *)
(* name it carries.                                                         *)
Genuine(pkt) == pkt.body \in sent[pkt.from]

AllGenuine ==
    /\ \A p \in Proc : \A pkt \in to_send[p] : Genuine(pkt)
    /\ \A pkt \in wire : Genuine(pkt)
    /\ \A l \in Link : \A pkt \in thread[l].pkts : Genuine(pkt)
    /\ \A pkt \in recorded : Genuine(pkt)

(* A thread past the first filter has recorded what it has in hand, and so  *)
(* has the receiver of what is acknowledged.                                *)
InHandRecorded ==
    \A l \in Link : \A pkt \in thread[l].pkts : thread[l].step # "record" => pkt \in recorded

AcksRecorded == acks \cup acked \subseteq recorded

(* What an originator has forgotten its receiver has recorded.              *)
ForgottenRecorded ==
    \A p \in alive : \A m \in sent[p] : Originals(p, m) \ to_send[p] \subseteq recorded

IInv ==
    /\ TypeOK
    /\ AllGenuine
    /\ InHandRecorded
    /\ AcksRecorded
    /\ ForgottenRecorded
    /\ RelayersKeep

-----------------------------------------------------------------------------
(* Helpers.                                                                *)

LEMMA Fields == \A s, pkt : Busy(s, pkt).step = s /\ Busy(s, pkt).pkts = {pkt}
  BY DEF Busy

LEMMA ThreadIs ==
  ASSUME TypeOK, NEW l \in Link
  PROVE  \/ thread[l] = Idle
         \/ \E s \in Steps \ {"idle"}, pkt \in Packet : thread[l] = Busy(s, pkt)
  BY DEF TypeOK

LEMMA InHand ==
  ASSUME TypeOK, NEW l \in Link, NEW pkt, NEW s, At(l, s, pkt)
  PROVE  /\ thread[l].pkts = {pkt} /\ thread[l].step = s
         /\ pkt \in Packet /\ pkt.to = l[1]
<1>1. thread[l].pkts = {pkt} /\ thread[l].step = s
  BY DEF At, Busy
<1>2. pkt \in Packet
  <2>1. thread[l] # Idle
    BY <1>1 DEF Idle
  <2> QED
    BY <1>1, <2>1, ThreadIs, Fields
<1> QED
  BY <1>1, <1>2 DEF TypeOK

(* What a step of a thread does to the threads.                             *)
LEMMA Moved ==
  ASSUME TypeOK, NEW l \in Link, NEW to, Step(l, to)
  PROVE  /\ thread'[l] = to
         /\ \A k \in Link \ {l} : thread'[k] = thread[k]
  BY DEF Step, TypeOK

LEMMA OriginalsType ==
  ASSUME NEW p \in Proc, NEW m \in Script[p]
  PROVE  Originals(p, m) \subseteq Packet /\ \A pkt \in Originals(p, m) : pkt.to # p
  BY ScriptAssumption DEF Originals, Packet, Peers

LEMMA RelaysType ==
  ASSUME NEW p \in Proc, NEW pkt \in Packet
  PROVE  /\ Relays(p, pkt) \subseteq Packet
         /\ \A x \in Relays(p, pkt) : x.to # p /\ x.from = pkt.from /\ x.body = pkt.body
  BY DEF Relays, Packet, Peers

-----------------------------------------------------------------------------
LEMMA InitInv == Init => IInv
<1> SUFFICES ASSUME Init PROVE IInv
  OBVIOUS
<1>1. TypeOK
  BY DEF Init, TypeOK, Idle
<1>2. AllGenuine /\ InHandRecorded
  BY DEF Init, AllGenuine, InHandRecorded, Idle
<1>3. AcksRecorded /\ ForgottenRecorded /\ RelayersKeep
  BY DEF Init, AcksRecorded, ForgottenRecorded, RelayersKeep, Delivered
<1> QED
  BY <1>1, <1>2, <1>3 DEF IInv

LEMMA TypeThread ==
  ASSUME TypeOK, NEW l \in Link, NEW to, Step(l, to),
         to = Idle \/ \E s \in Steps \ {"idle"}, pkt \in Packet : to = Busy(s, pkt) /\ pkt.to = l[1]
  PROVE  /\ thread' \in [Link -> {Idle} \cup {Busy(s, pkt) : s \in Steps \ {"idle"}, pkt \in Packet}]
         /\ \A k \in Link : \A pkt \in thread'[k].pkts : pkt.to = k[1]
<1>1. thread' \in [Link -> {Idle} \cup {Busy(s, pkt) : s \in Steps \ {"idle"}, pkt \in Packet}]
  BY DEF Step, TypeOK
<1>2. \A pkt \in to.pkts : pkt.to = l[1]
  BY Fields DEF Idle
<1> QED
  BY <1>1, <1>2, Moved DEF TypeOK

LEMMA AckedType ==
  ASSUME NEW pkt
  PROVE  acks \subseteq Acked(pkt) /\ Acked(pkt) \subseteq acks \cup {pkt}
  BY DEF Acked

LEMMA TypeNext ==
  ASSUME TypeOK, InHandRecorded, [Next]_vars
  PROVE  TypeOK'
<1> USE DEF TypeOK
<1>1. ASSUME NEW p \in Proc, NEW m \in Body, Broadcast(p, m)
      PROVE  TypeOK'
  <2>1. m \in Script[p] /\ Originals(p, m) \subseteq Packet
        /\ \A pkt \in Originals(p, m) : pkt.to # p
    BY <1>1, OriginalsType DEF Broadcast
  <2> QED
    BY <1>1, <2>1 DEF Broadcast
<1>2. ASSUME NEW p \in Proc, NEW pkt \in to_send[p], Send(p, pkt)
      PROVE  TypeOK'
  BY <1>2 DEF Send
<1>3. ASSUME NEW p \in Proc, Crash(p)
      PROVE  TypeOK'
  BY <1>3 DEF Crash, Idle
<1>4. ASSUME NEW l \in Link, NEW pkt \in wire, Read(l, pkt)
      PROVE  TypeOK'
  <2>1. "record" \in Steps \ {"idle"}
    BY DEF Steps
  <2> QED
    BY <1>4, <2>1, TypeThread DEF Read
<1>5. ASSUME NEW l \in Link, NEW pkt \in thread[l].pkts, Delivering(l)
      PROVE  TypeOK'
  <2>1. PICK x \in thread[l].pkts :
          \/ addMessageDelivered(l, x) \/ Filter(l, x) \/ BebDeliver(l, x)
          \/ relay(l, x) \/ addAck(l, x)
    BY <1>5 DEF Delivering
  <2>2. x \in Packet /\ x.to = l[1] /\ l[1] \in Proc
    BY <2>1, InHand DEF addMessageDelivered, Filter, BebDeliver, relay, addAck, Link
  <2>3. {"filter", "deliver", "relay", "ack"} \subseteq Steps \ {"idle"}
    BY DEF Steps
  <2>4. CASE addMessageDelivered(l, x)
    BY <2>2, <2>3, <2>4, TypeThread DEF addMessageDelivered
  <2>5. CASE Filter(l, x)
    BY <2>2, <2>3, <2>5, TypeThread DEF Filter
  <2>6. CASE BebDeliver(l, x)
    <3>1. x \in recorded
      BY <2>6, InHand DEF BebDeliver, InHandRecorded
    <3> QED
      BY <2>2, <2>3, <2>6, <3>1, TypeThread DEF BebDeliver
  <2>7. CASE relay(l, x)
    <3>1. Relays(l[1], x) \subseteq Packet /\ \A y \in Relays(l[1], x) : y.to # l[1]
      BY <2>2, RelaysType
    <3>2. Step(l, Busy("ack", x))
      BY <2>7 DEF relay
    <3>3. to_send' \in [Proc -> SUBSET Packet] /\ \A q \in Proc : \A y \in to_send'[q] : y.to # q
      BY <2>2, <2>7, <3>1 DEF relay
    <3> QED
      BY <2>2, <2>3, <2>7, <3>2, <3>3, TypeThread DEF relay
  <2>8. CASE addAck(l, x)
    BY <2>2, <2>8, AckedType, TypeThread DEF addAck
  <2> QED
    BY <2>1, <2>4, <2>5, <2>6, <2>7, <2>8
<1>6. ASSUME NEW l \in Link, NEW pkt \in wire, ReadAgain(l, pkt)
      PROVE  TypeOK'
  BY <1>6, AckedType DEF ReadAgain
<1>7. ASSUME NEW l \in Link, SendAcks(l)
      PROVE  TypeOK'
  BY <1>7 DEF SendAcks
<1>8. ASSUME NEW l \in Link, NEW pkt \in acked, RemoveAcked(l, pkt)
      PROVE  TypeOK'
  BY <1>8 DEF RemoveAcked
<1>9. CASE UNCHANGED vars
  BY <1>9 DEF vars
<1> QED
  BY <1>1, <1>2, <1>3, <1>4, <1>5, <1>6, <1>7, <1>8, <1>9 DEF Next, Delivering

(* A step of a thread, and what it takes from the wire or leaves behind.    *)
LEMMA RecordedNext ==
  ASSUME TypeOK, InHandRecorded, [Next]_vars
  PROVE  InHandRecorded'
<1>1. ASSUME NEW l \in Link, NEW pkt \in wire, Read(l, pkt)
      PROVE  InHandRecorded'
  BY <1>1, Moved, Fields DEF Read, InHandRecorded
<1>2. ASSUME NEW l \in Link, NEW x \in thread[l].pkts,
             \/ addMessageDelivered(l, x) \/ Filter(l, x) \/ BebDeliver(l, x)
             \/ relay(l, x) \/ addAck(l, x)
      PROVE  InHandRecorded'
  <2>1. thread[l].pkts = {x}
    BY <1>2, InHand DEF addMessageDelivered, Filter, BebDeliver, relay, addAck
  <2>2. recorded \subseteq recorded'
    BY <1>2 DEF addMessageDelivered, Filter, BebDeliver, relay, addAck
  <2>3. x \in recorded'
    BY <1>2, InHand DEF addMessageDelivered, Filter, BebDeliver, relay, addAck, InHandRecorded
  <2>4. thread'[l].pkts \subseteq {x}
    BY <1>2, Moved, Fields DEF addMessageDelivered, Filter, BebDeliver, relay, addAck, Idle
  <2>5. \A k \in Link \ {l} : thread'[k] = thread[k]
    BY <1>2, Moved DEF addMessageDelivered, Filter, BebDeliver, relay, addAck
  <2> QED
    BY <2>2, <2>3, <2>4, <2>5 DEF InHandRecorded
<1>3. ASSUME NEW p \in Proc, Crash(p)
      PROVE  InHandRecorded'
  BY <1>3 DEF Crash, InHandRecorded, Idle
<1>4. CASE UNCHANGED <<thread, recorded>>
  BY <1>4 DEF InHandRecorded
<1> QED
  BY <1>1, <1>2, <1>3, <1>4 DEF Next, Delivering, Broadcast, Send, ReadAgain, SendAcks,
     RemoveAcked, vars

LEMMA AcksNext ==
  ASSUME TypeOK, InHandRecorded, AcksRecorded, [Next]_vars
  PROVE  AcksRecorded'
<1>1. recorded \subseteq recorded'
  BY DEF Next, vars, Broadcast, Send, Crash, Read, ReadAgain, Delivering, addMessageDelivered,
         Filter, BebDeliver, relay, addAck, SendAcks, RemoveAcked
<1>2. ASSUME NEW l \in Link, NEW pkt, addAck(l, pkt) \/ ReadAgain(l, pkt)
      PROVE  AcksRecorded'
  <2>1. pkt \in recorded
    BY <1>2, InHand DEF addAck, ReadAgain, InHandRecorded
  <2> QED
    BY <1>1, <1>2, <2>1, AckedType DEF addAck, ReadAgain, AcksRecorded
<1>3. ASSUME NEW l \in Link, SendAcks(l)
      PROVE  AcksRecorded'
  BY <1>1, <1>3 DEF SendAcks, AcksRecorded
<1>4. ASSUME NEW p \in Proc, Crash(p)
      PROVE  AcksRecorded'
  BY <1>1, <1>4 DEF Crash, AcksRecorded
<1>5. CASE UNCHANGED <<acks, acked>>
  BY <1>1, <1>5 DEF AcksRecorded
<1> QED
  BY <1>2, <1>3, <1>4, <1>5 DEF Next, vars, Delivering, Broadcast, Send, Read,
     addMessageDelivered, Filter, BebDeliver, relay, RemoveAcked

LEMMA GenuineNext ==
  ASSUME TypeOK, AllGenuine, [Next]_vars
  PROVE  AllGenuine'
<1>1. \A p \in Proc : sent[p] \subseteq sent'[p]
  BY DEF Next, vars, Broadcast, Send, Crash, Read, ReadAgain, Delivering, addMessageDelivered,
         Filter, BebDeliver, relay, addAck, SendAcks, RemoveAcked, TypeOK
<1>2. \A pkt \in Packet : Genuine(pkt) => Genuine(pkt)'
  BY <1>1 DEF Genuine, Packet
<1>3. /\ \A p \in Proc : to_send[p] \subseteq Packet
      /\ wire \subseteq Packet /\ recorded \subseteq Packet
      /\ \A l \in Link : thread[l].pkts \subseteq Packet
  BY ThreadIs, Fields DEF TypeOK, Idle
<1>4. ASSUME NEW p \in Proc, NEW m \in Body, Broadcast(p, m)
      PROVE  AllGenuine'
  <2>1. \A pkt \in Originals(p, m) : Genuine(pkt)'
    BY <1>4 DEF Broadcast, Originals, Genuine, TypeOK
  <2>2. \A q \in Proc : \A pkt \in to_send'[q] : pkt \in to_send[q] \/ pkt \in Originals(p, m)
    BY <1>4 DEF Broadcast, TypeOK
  <2> QED
    BY <1>2, <1>3, <1>4, <2>1, <2>2 DEF Broadcast, AllGenuine
<1>5. ASSUME NEW p \in Proc, NEW pkt \in to_send[p], Send(p, pkt)
      PROVE  AllGenuine'
  BY <1>2, <1>3, <1>5 DEF Send, AllGenuine
<1>6. ASSUME NEW p \in Proc, Crash(p)
      PROVE  AllGenuine'
  <2>1. /\ \A q \in Proc : to_send'[q] \subseteq to_send[q]
        /\ \A l \in Link : thread'[l].pkts \subseteq thread[l].pkts
    BY <1>6 DEF Crash, TypeOK, Idle
  <2> QED
    BY <1>2, <1>3, <1>6, <2>1 DEF Crash, AllGenuine
<1>7. ASSUME NEW l \in Link, NEW pkt \in wire, Read(l, pkt)
      PROVE  AllGenuine'
  BY <1>2, <1>3, <1>7, Moved, Fields DEF Read, AllGenuine
<1>8. ASSUME NEW l \in Link, NEW x \in thread[l].pkts,
             \/ addMessageDelivered(l, x) \/ Filter(l, x) \/ BebDeliver(l, x)
             \/ relay(l, x) \/ addAck(l, x)
      PROVE  AllGenuine'
  <2>1. x \in Packet /\ Genuine(x) /\ l[1] \in Proc
    BY <1>3 DEF AllGenuine, Link
  <2>2. \A y \in Relays(l[1], x) : Genuine(y)'
    BY <1>2, <2>1, RelaysType DEF Genuine
  <2>3. thread'[l].pkts \subseteq {x} /\ \A k \in Link \ {l} : thread'[k] = thread[k]
    BY <1>8, Moved, Fields DEF addMessageDelivered, Filter, BebDeliver, relay, addAck, Idle
  <2>4. recorded' \subseteq recorded \cup {x} /\ wire' = wire
    BY <1>8 DEF addMessageDelivered, Filter, BebDeliver, relay, addAck
  <2>5. \A q \in Proc : \A y \in to_send'[q] : y \in to_send[q] \/ y \in Relays(l[1], x)
    BY <1>8, <2>1 DEF addMessageDelivered, Filter, BebDeliver, relay, addAck, TypeOK
  <2> QED
    BY <1>2, <1>3, <2>1, <2>2, <2>3, <2>4, <2>5 DEF AllGenuine
<1>9. ASSUME NEW l \in Link, NEW pkt \in acked, RemoveAcked(l, pkt)
      PROVE  AllGenuine'
  <2>1. \A q \in Proc : to_send'[q] \subseteq to_send[q]
    BY <1>9 DEF RemoveAcked, TypeOK
  <2> QED
    BY <1>2, <1>3, <1>9, <2>1 DEF RemoveAcked, AllGenuine
<1>10. CASE UNCHANGED <<sent, to_send, wire, thread, recorded>>
  BY <1>10 DEF AllGenuine, Genuine
<1> QED
  BY <1>4, <1>5, <1>6, <1>7, <1>8, <1>9, <1>10 DEF Next, Delivering, ReadAgain, SendAcks, vars

LEMMA ForgottenNext ==
  ASSUME TypeOK, AcksRecorded, ForgottenRecorded, [Next]_vars
  PROVE  ForgottenRecorded'
<1>1. recorded \subseteq recorded' /\ alive' \subseteq alive
  BY DEF Next, vars, Broadcast, Send, Crash, Read, ReadAgain, Delivering, addMessageDelivered,
         Filter, BebDeliver, relay, addAck, SendAcks, RemoveAcked
<1>2. ASSUME NEW p \in Proc, NEW m \in Body, Broadcast(p, m)
      PROVE  ForgottenRecorded'
  BY <1>1, <1>2 DEF Broadcast, ForgottenRecorded, TypeOK
<1>3. ASSUME NEW l \in Link, NEW pkt \in acked, RemoveAcked(l, pkt)
      PROVE  ForgottenRecorded'
  <2>1. pkt \in recorded /\ recorded' = recorded /\ sent' = sent
    BY <1>3 DEF RemoveAcked, AcksRecorded
  <2>2. \A q \in Proc : to_send[q] \subseteq to_send'[q] \cup {pkt}
    BY <1>3 DEF RemoveAcked, TypeOK
  <2> QED
    BY <1>1, <2>1, <2>2 DEF ForgottenRecorded, TypeOK
<1>4. ASSUME NEW p \in Proc, Crash(p)
      PROVE  ForgottenRecorded'
  BY <1>4 DEF Crash, ForgottenRecorded, TypeOK
<1>5. ASSUME NEW l \in Link, NEW x \in thread[l].pkts, relay(l, x)
      PROVE  ForgottenRecorded'
  BY <1>5 DEF relay, ForgottenRecorded, TypeOK
<1>6. CASE UNCHANGED <<sent, to_send>>
  BY <1>1, <1>6 DEF ForgottenRecorded
<1> QED
  BY <1>2, <1>3, <1>4, <1>5, <1>6 DEF Next, vars, Delivering, Send, Read, ReadAgain,
     addMessageDelivered, Filter, BebDeliver, addAck, SendAcks

(* The packet in which q has the message m of p.                            *)
Received(q, p, m) == [from |-> p, to |-> q, body |-> m]

(* A process that has delivered a message keeps its relays, or is about to  *)
(* queue them.                                                              *)
Keeps(q, pkt) == (\E l \in Link : At(l, "relay", pkt)) \/ Relays(q, pkt) \subseteq to_send[q]

LEMMA KeepsIs ==
    RelayersKeep <=>
        \A q \in alive, p \in Proc : \A m \in Script[p] :
            q # p /\ Received(q, p, m) \in delivered => Keeps(q, Received(q, p, m))
  BY DEF RelayersKeep, Delivered, Relaying, Keeps, Received

(* What keeps the relays of q where they are.                               *)
LEMMA KeptOn ==
  ASSUME TypeOK, RelayersKeep,
         delivered' = delivered, alive' \subseteq alive,
         \A q \in alive' : \A x \in to_send[q] : x.from # q => x \in to_send'[q],
         \A l \in Link : \A pkt : At(l, "relay", pkt) /\ l[1] \in alive' => At(l, "relay", pkt)'
  PROVE  RelayersKeep'
<1> SUFFICES ASSUME NEW q \in alive', NEW p \in Proc, NEW m \in Script[p], q # p,
                    Received(q, p, m) \in delivered
             PROVE  Keeps(q, Received(q, p, m))'
  BY KeepsIs DEF RelayersKeep, Delivered, Relaying, Keeps, Received
<1> DEFINE pkt == Received(q, p, m)
<1>1. q \in Proc /\ pkt \in Packet /\ pkt.from = p /\ pkt.to = q
  BY ScriptAssumption DEF TypeOK, Packet, Received
<1>2. CASE \E l \in Link : At(l, "relay", pkt)
  BY <1>1, <1>2, InHand DEF Keeps
<1>3. CASE Relays(q, pkt) \subseteq to_send[q]
  BY <1>1, <1>3, RelaysType DEF Keeps
<1> QED
  BY <1>2, <1>3, KeepsIs DEF Keeps

LEMMA RelayersNext ==
  ASSUME TypeOK, RelayersKeep, [Next]_vars
  PROVE  RelayersKeep'
<1>1. ASSUME NEW p \in Proc, NEW m \in Body, Broadcast(p, m)
      PROVE  RelayersKeep'
  BY <1>1, KeptOn DEF Broadcast, At, TypeOK
<1>2. ASSUME NEW p \in Proc, NEW x \in to_send[p], Send(p, x)
      PROVE  RelayersKeep'
  BY <1>2, KeptOn DEF Send, At, TypeOK
<1>3. ASSUME NEW p \in Proc, Crash(p)
      PROVE  RelayersKeep'
  BY <1>3, KeptOn DEF Crash, At, TypeOK
<1>4. ASSUME NEW l \in Link, NEW pkt \in wire, Read(l, pkt)
      PROVE  RelayersKeep'
  BY <1>4, KeptOn, Moved, Fields DEF Read, At, Step, Idle
<1>5. ASSUME NEW l \in Link, NEW x, addMessageDelivered(l, x) \/ Filter(l, x) \/ addAck(l, x)
      PROVE  RelayersKeep'
  <2>1. \A y : ~At(l, "relay", y)
    BY <1>5, Fields DEF addMessageDelivered, Filter, addAck, At
  <2>2. \A k \in Link \ {l} : thread'[k] = thread[k]
    BY <1>5, Moved DEF addMessageDelivered, Filter, addAck
  <2>3. \A k \in Link : \A y : At(k, "relay", y) => At(k, "relay", y)'
    BY <2>1, <2>2 DEF At
  <2> QED
    BY <1>5, <2>3, KeptOn DEF addMessageDelivered, Filter, addAck, Step
<1>6. ASSUME NEW l \in Link, NEW x, BebDeliver(l, x)
      PROVE  RelayersKeep'
  <2>1. At(l, "relay", x)'
    BY <1>6, Moved DEF BebDeliver, At
  <2>2. \A k \in Link : \A y : At(k, "relay", y) => At(k, "relay", y)'
    BY <1>6, Moved, Fields DEF BebDeliver, At
  <2>3. ASSUME NEW q \in alive', NEW p \in Proc, NEW m \in Script[p], q # p,
               Received(q, p, m) \in delivered'
        PROVE  Keeps(q, Received(q, p, m))'
    <3>1. CASE Received(q, p, m) = x
      BY <2>1, <3>1 DEF Keeps, Received
    <3>2. CASE Received(q, p, m) \in delivered
      BY <1>6, <2>2, <2>3, <3>2, KeepsIs DEF BebDeliver, Step, Keeps, Received
    <3> QED
      BY <1>6, <2>3, <3>1, <3>2 DEF BebDeliver
  <2> QED
    BY <2>3 DEF RelayersKeep, Delivered, Relaying, Keeps, Received
<1>7. ASSUME NEW l \in Link, NEW x, relay(l, x)
      PROVE  RelayersKeep'
  <2>1. l[1] \in Proc /\ x.to = l[1]
    BY <1>7, InHand DEF relay, Link
  <2>2. Relays(l[1], x) \subseteq to_send'[l[1]] /\ \A q \in Proc : to_send[q] \subseteq to_send'[q]
    BY <1>7, <2>1 DEF relay, TypeOK
  <2>3. \A k \in Link \ {l} : \A y : At(k, "relay", y) => At(k, "relay", y)'
    BY <1>7, Moved DEF relay, At
  <2>4. \A y : At(l, "relay", y) => y = x
    <3>1. thread[l] = Busy("relay", x)
      BY <1>7 DEF relay, At
    <3>2. \A y : Busy("relay", y) = Busy("relay", x) => y = x
      BY Fields
    <3> QED
      BY <3>1, <3>2 DEF At
  <2>5. ASSUME NEW q \in alive', NEW p \in Proc, NEW m \in Script[p], q # p,
               Received(q, p, m) \in delivered'
        PROVE  Keeps(q, Received(q, p, m))'
    <3> DEFINE pkt == Received(q, p, m)
    <3>1. pkt.to = q /\ q \in Proc
      BY <1>7 DEF Received, relay, Step, TypeOK
    <3>2. Keeps(q, pkt)
      BY <1>7, <2>5, KeepsIs DEF relay, Step
    <3>3. CASE \E k \in Link \ {l} : At(k, "relay", pkt)
      BY <2>3, <3>3 DEF Keeps
    <3>4. CASE At(l, "relay", pkt)
      BY <2>1, <2>2, <2>4, <3>1, <3>4 DEF Keeps
    <3>5. CASE Relays(q, pkt) \subseteq to_send[q]
      BY <2>2, <3>1, <3>5 DEF Keeps
    <3> QED
      BY <3>2, <3>3, <3>4, <3>5 DEF Keeps
  <2> QED
    BY <2>5 DEF RelayersKeep, Delivered, Relaying, Keeps, Received
<1>8. ASSUME NEW l \in Link, NEW x \in acked, RemoveAcked(l, x)
      PROVE  RelayersKeep'
  <2>1. \A q \in Proc : \A y \in to_send[q] : y.from # q => y \in to_send'[q]
    BY <1>8 DEF RemoveAcked, TypeOK
  <2>2. /\ UNCHANGED <<alive, thread, delivered>>
        /\ alive \subseteq Proc
    BY <1>8 DEF RemoveAcked, TypeOK
  <2> QED
    BY <2>1, <2>2, KeptOn DEF At
<1>9. CASE UNCHANGED <<alive, to_send, thread, delivered>>
  BY <1>9, KeptOn DEF At
<1> QED
  BY <1>1, <1>2, <1>3, <1>4, <1>5, <1>6, <1>7, <1>8, <1>9 DEF Next, Delivering, ReadAgain,
     SendAcks, vars

-----------------------------------------------------------------------------
(* The inductive invariant, for any processes, messages and crashes.        *)
THEOREM Invariance == Spec => []IInv
<1>1. IInv /\ [Next]_vars => IInv'
  BY TypeNext, RecordedNext, AcksNext, GenuineNext, ForgottenNext, RelayersNext DEF IInv
<1> QED
  BY <1>1, InitInv, PTL DEF Spec

(* The type invariant.                                                      *)
THEOREM TypeCorrect == Spec => []TypeOK
  BY Invariance, PTL DEF IInv

(* Relayers never stop retransmitting, at any number of processes: nothing  *)
(* ReliableBroadcast does takes a relay off its list.                       *)
THEOREM RelayersKeepCorrect == Spec => []RelayersKeep
  BY Invariance, PTL DEF IInv

(* Only what was broadcast is delivered under a name.                       *)
THEOREM NoCreationCorrect == Spec => []NoCreation
<1>1. IInv => NoCreation
  BY DEF IInv, TypeOK, AllGenuine, Genuine, NoCreation
<1> QED
  BY <1>1, Invariance, PTL

-----------------------------------------------------------------------------
(* What a live process has recorded is delivered, or in the hands of a      *)
(* thread that is about to.                                                 *)
RecordedDone == \A pkt \in recorded : pkt.to \in alive => pkt \in delivered \/ OnItsWay(pkt)

(* What keeps a recorded packet on its way.                                 *)
LEMMA StillDone ==
  ASSUME RecordedDone, recorded' = recorded, alive' \subseteq alive,
         delivered \subseteq delivered',
         \A pkt \in recorded : pkt.to \in alive' /\ OnItsWay(pkt) =>
             pkt \in delivered' \/ OnItsWay(pkt)'
  PROVE  RecordedDone'
  BY DEF RecordedDone

LEMMA DoneNext ==
  ASSUME TypeOK, RecordedDone, [Next]_vars
  PROVE  RecordedDone'
<1>1. CASE UNCHANGED <<alive, thread, recorded, delivered>>
  BY <1>1 DEF RecordedDone, OnItsWay, At
<1>2. ASSUME NEW p \in Proc, Crash(p)
      PROVE  RecordedDone'
  <2>1. ASSUME NEW pkt, pkt.to \in alive', OnItsWay(pkt)
        PROVE  OnItsWay(pkt)'
    <3>1. PICK l \in Link : At(l, "filter", pkt) \/ At(l, "deliver", pkt)
      BY <2>1 DEF OnItsWay
    <3>2. l[1] # p
      BY <1>2, <2>1, <3>1, InHand DEF Crash
    <3>3. thread'[l] = thread[l]
      BY <1>2, <3>2 DEF Crash
    <3> QED
      BY <3>1, <3>3 DEF OnItsWay, At
  <2> QED
    BY <1>2, <2>1, StillDone DEF Crash
<1>3. ASSUME NEW l \in Link, NEW x \in wire, Read(l, x)
      PROVE  RecordedDone'
  <2>1. thread[l] = Idle /\ \A k \in Link \ {l} : thread'[k] = thread[k]
    BY <1>3, Moved DEF Read
  <2>2. \A pkt : OnItsWay(pkt) => OnItsWay(pkt)'
    BY <2>1, Fields DEF OnItsWay, At, Idle
  <2> QED
    BY <1>3, <2>2, StillDone DEF Read, Step
<1>4. ASSUME NEW l \in Link, NEW x, addMessageDelivered(l, x)
      PROVE  RecordedDone'
  <2>1. /\ thread'[l] = Busy("filter", x)
        /\ \A k \in Link \ {l} : thread'[k] = thread[k]
    BY <1>4, Moved DEF addMessageDelivered
  <2>2. At(l, "record", x) /\ recorded' = recorded \cup {x}
        /\ UNCHANGED <<alive, delivered>>
    BY <1>4 DEF addMessageDelivered, Step
  <2>3. \A pkt : OnItsWay(pkt) => OnItsWay(pkt)'
    BY <2>1, <2>2, Fields DEF OnItsWay, At
  <2>4. OnItsWay(x)'
    BY <2>1 DEF OnItsWay, At
  <2>5. ASSUME NEW pkt \in recorded', pkt.to \in alive'
        PROVE  pkt \in delivered' \/ OnItsWay(pkt)'
    <3>1. CASE pkt = x
      BY <2>4, <3>1
    <3>2. CASE pkt # x
      BY <2>2, <2>3, <2>5, <3>2 DEF RecordedDone
    <3> QED
      BY <3>1, <3>2
  <2> QED
    BY <2>5 DEF RecordedDone
<1>5. ASSUME NEW l \in Link, NEW x, \/ Filter(l, x) \/ BebDeliver(l, x)
                                 \/ relay(l, x) \/ addAck(l, x)
      PROVE  RecordedDone'
  <2>1. /\ \A k \in Link \ {l} : thread'[k] = thread[k]
        /\ recorded' = recorded /\ alive' = alive /\ delivered \subseteq delivered'
    BY <1>5, Moved DEF Filter, BebDeliver, relay, addAck, Step
  <2>2. \A pkt : At(l, "filter", pkt) \/ At(l, "deliver", pkt) => pkt = x
    <3>1. thread[l].pkts = {x}
      BY <1>5, Fields DEF Filter, BebDeliver, relay, addAck, At
    <3> QED
      BY <3>1, Fields DEF At
  <2>3. At(l, "filter", x) \/ At(l, "deliver", x) => x \in delivered' \/ OnItsWay(x)'
    <3>1. CASE Filter(l, x)
      BY <3>1, Moved DEF Filter, OnItsWay, At
    <3>2. CASE BebDeliver(l, x)
      BY <3>2 DEF BebDeliver
    <3>3. CASE relay(l, x) \/ addAck(l, x)
      BY <3>3, Fields DEF relay, addAck, At
    <3> QED
      BY <1>5, <3>1, <3>2, <3>3
  <2>4. ASSUME NEW pkt, OnItsWay(pkt)
        PROVE  pkt \in delivered' \/ OnItsWay(pkt)'
    <3>1. PICK k \in Link : At(k, "filter", pkt) \/ At(k, "deliver", pkt)
      BY <2>4 DEF OnItsWay
    <3>2. CASE k = l
      BY <2>2, <2>3, <3>1, <3>2
    <3>3. CASE k # l
      BY <2>1, <3>1, <3>3 DEF OnItsWay, At
    <3> QED
      BY <3>2, <3>3
  <2> QED
    BY <2>1, <2>4, StillDone
<1> QED
  BY <1>1, <1>2, <1>3, <1>4, <1>5 DEF Next, Delivering, Broadcast, Send, ReadAgain,
     SendAcks, RemoveAcked, vars

LEMMA RecordedDoneCorrect == Spec => []RecordedDone
<1>1. Init => RecordedDone
  BY DEF Init, RecordedDone
<1>2. TypeOK /\ RecordedDone /\ [Next]_vars => RecordedDone'
  BY DoneNext
<1> QED
  BY <1>1, <1>2, TypeCorrect, PTL DEF Spec

(* An originator forgets a packet only when a live receiver holds it, for   *)
(* any processes, messages and crashes, and whoever's acknowledgments reach *)
(* it, in whatever order.                                                   *)
THEOREM ForgottenWhenHeldCorrect == Spec => []ForgottenWhenHeld
<1>1. IInv /\ RecordedDone => ForgottenWhenHeld
  BY DEF IInv, RecordedDone, ForgottenRecorded, ForgottenWhenHeld
<1> QED
  BY <1>1, Invariance, RecordedDoneCorrect, PTL

(* When the live processes have settled, a packet that one of them sends to *)
(* another is delivered.                                                    *)
LEMMA SettledSent ==
  ASSUME TypeOK, RecordedDone, Settled, NEW p \in alive, NEW pkt,
         pkt \in to_send[p] \cup recorded, pkt.to \in alive
  PROVE  pkt \in delivered
<1>1. pkt \in recorded
  BY DEF Settled
<1>2. pkt \in delivered \/ OnItsWay(pkt)
  BY <1>1 DEF RecordedDone
<1>3. ~OnItsWay(pkt)
  <2> SUFFICES ASSUME NEW l \in Link, At(l, "filter", pkt) \/ At(l, "deliver", pkt)
               PROVE  FALSE
    BY DEF OnItsWay
  <2>1. l[1] \in alive /\ thread[l].pkts = {pkt}
    BY InHand
  <2> QED
    BY <2>1 DEF Settled, Idle
<1> QED
  BY <1>2, <1>3

(* A process that has delivered a message of another passes it on.          *)
LEMMA PassedOn ==
  ASSUME TypeOK, RelayersKeep, RecordedDone, Settled,
         NEW q \in alive, NEW p \in Proc, NEW m \in Script[p], q # p, Delivered(q, p, m),
         NEW r \in alive
  PROVE  Delivered(r, p, m)
<1>1. CASE r = q
  BY <1>1
<1>2. CASE r # q
  <2>1. q \in Proc /\ r \in Proc
    BY DEF TypeOK
  <2>2. ~Relaying(q, p, m)
    <3> SUFFICES ASSUME NEW l \in Link, At(l, "relay", Received(q, p, m)) PROVE FALSE
      BY DEF Relaying, Received
    <3>1. l[1] = q /\ thread[l].pkts = {Received(q, p, m)}
      BY InHand DEF Received
    <3> QED
      BY <3>1 DEF Settled, Idle
  <2>3. Relays(q, Received(q, p, m)) \subseteq to_send[q]
    BY <2>1, <2>2 DEF RelayersKeep, Received
  <2>4. Received(r, p, m) \in Relays(q, Received(q, p, m))
    BY <1>2, <2>1 DEF Relays, Received, Peers
  <2> QED
    BY <2>3, <2>4, SettledSent DEF Delivered, Received
<1> QED
  BY <1>1, <1>2

(* And an originator reaches the others itself.                             *)
LEMMA ReachedByOriginator ==
  ASSUME TypeOK, ForgottenRecorded, RecordedDone, Settled,
         NEW p \in alive, NEW m \in sent[p], NEW r \in alive \ {p}
  PROVE  Delivered(r, p, m)
<1>1. Received(r, p, m) \in Originals(p, m)
  BY DEF Originals, Received, Peers, TypeOK
<1>2. Received(r, p, m) \in to_send[p] \cup recorded
  BY <1>1 DEF ForgottenRecorded
<1> QED
  BY <1>2, SettledSent DEF Delivered, Received

(* Settled processes owe each other nothing, for any processes, messages    *)
(* and crashes: validity and agreement hold wherever the work has stopped.  *)
THEOREM SettledDeliversCorrect == Spec => []SettledDelivers
<1>1. IInv /\ RecordedDone => SettledDelivers
  <2> SUFFICES ASSUME IInv, RecordedDone, Settled, NEW p \in Proc, NEW m \in Script[p],
                      \/ \E q \in alive : Delivered(q, p, m)
                      \/ p \in alive /\ m \in sent[p] /\ alive # {p},
                      NEW r \in alive
               PROVE  Delivered(r, p, m)
    BY DEF SettledDelivers
  <2>1. TypeOK /\ RelayersKeep /\ ForgottenRecorded
    BY DEF IInv
  <2>2. CASE \E q \in alive \ {p} : Delivered(q, p, m)
    BY <2>1, <2>2, PassedOn
  <2>3. CASE p \in alive /\ m \in sent[p]
    <3>1. CASE r = p
      <4>1. CASE alive # {p}
        <5>1. PICK q \in alive : q # p
          BY <2>3, <4>1
        <5>2. Delivered(q, p, m)
          BY <2>1, <2>3, <5>1, ReachedByOriginator
        <5> QED
          BY <2>1, <5>1, <5>2, PassedOn
      <4>2. CASE alive = {p}
        BY <3>1, <4>2
      <4> QED
        BY <4>1, <4>2
    <3>2. CASE r # p
      BY <2>1, <2>3, <3>2, ReachedByOriginator
    <3> QED
      BY <3>1, <3>2
  <2>4. Delivered(p, p, m) => m \in sent[p]
    BY DEF IInv, TypeOK, AllGenuine, Genuine, Delivered
  <2> QED
    BY <2>2, <2>3, <2>4
<1> QED
  BY <1>1, Invariance, RecordedDoneCorrect, PTL

=============================================================================
