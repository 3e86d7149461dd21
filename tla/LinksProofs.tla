---------------------------- MODULE LinksProofs ----------------------------
(***************************************************************************)
(* Theorems about Links for every set of processes and of messages.        *)
(***************************************************************************)
EXTENDS Links, TLAPS

-----------------------------------------------------------------------------
(* The inductive invariant.                                                *)

(* A delivery thread is idle or has one packet, queued for its process.     *)
ThreadsOK ==
    \A l \in Link :
        \/ thread[l] = Idle
        \/ \E step \in Steps \ {"idle"}, pkt \in queued :
            thread[l] = Busy(step, pkt) /\ pkt.to = l[1]

(* The receiver has handed pkt up or is about to.                           *)
Held(pkt) == pkt \in delivered \/ OnItsWay(pkt)

WireOK == \A d \in wire : (~d.ack => d.pkt \in queued) /\ (d.ack => Held(d.pkt))

(* The receiver holds what it recorded, what it is to acknowledge, and what *)
(* the sender has taken off its list.                                       *)
ListsOK == \A pkt \in recorded \cup acks \cup (queued \ to_send) : Held(pkt)

AckingOK == \A l \in Link : \A pkt \in Packet : At(l, "ack", pkt) => Held(pkt)

IInv == TypeOK /\ ThreadsOK /\ WireOK /\ ListsOK /\ AckingOK

-----------------------------------------------------------------------------
LEMMA PacketOfType ==
  ASSUME NEW l \in Link, NEW m \in Body
  PROVE  PacketOf(l, m) \in Packet
  BY DEF PacketOf, Packet, Link

LEMMA DatagramType ==
  ASSUME NEW pkt \in Packet
  PROVE  /\ Msg(pkt) \in Datagram /\ Ack(pkt) \in Datagram
         /\ Msg(pkt).pkt = pkt /\ Ack(pkt).pkt = pkt /\ ~Msg(pkt).ack
  BY DEF Msg, Ack, Datagram

LEMMA DatagramPacket ==
  ASSUME NEW d \in Datagram
  PROVE  d.pkt \in Packet
  BY DEF Datagram

LEMMA ThreadType ==
  ASSUME NEW step \in Steps, NEW pkt \in Packet
  PROVE  Busy(step, pkt) \in [step : Steps, pkts : SUBSET Packet]
  BY DEF Busy

LEMMA IdleType == Idle \in [step : Steps, pkts : SUBSET Packet]
  BY DEF Idle, Steps

(* A busy thread tells its step and its packet.                             *)
LEMMA BusyInjective ==
  ASSUME NEW s1, NEW s2, NEW x, NEW y, Busy(s1, x) = Busy(s2, y)
  PROVE  s1 = s2 /\ x = y
<1>1. Busy(s1, x).step = Busy(s2, y).step /\ Busy(s1, x).pkts = Busy(s2, y).pkts
  OBVIOUS
<1> QED
  BY <1>1 DEF Busy

LEMMA BusyNotIdle ==
  ASSUME NEW s, NEW x, s # "idle"
  PROVE  Busy(s, x) # Idle
<1>1. Busy(s, x).step = s /\ Idle.step = "idle"
  BY DEF Busy, Idle
<1> QED
  BY <1>1

(* A delivery step starts from what the thread has in hand.                 *)
LEMMA InHand ==
  ASSUME TypeOK, NEW l \in Link, NEW pkt \in thread[l].pkts
  PROVE  pkt \in Packet
  BY DEF TypeOK

LEMMA TypeStep == TypeOK /\ [Next]_vars => TypeOK'
<1> SUFFICES ASSUME TypeOK, [Next]_vars PROVE TypeOK'
  OBVIOUS
<1>1. CASE UNCHANGED vars
  BY <1>1 DEF TypeOK, vars
<1>2. ASSUME NEW l \in Link, setLinkActive(l) PROVE TypeOK'
  BY <1>2 DEF TypeOK, setLinkActive
<1>3. ASSUME NEW l \in Link, NEW m \in Body, sendNewMessage(l, m) PROVE TypeOK'
  BY <1>3, PacketOfType, DatagramType DEF TypeOK, sendNewMessage, Sends
<1>4. ASSUME NEW l \in Link, SendAcks(l) PROVE TypeOK'
  BY <1>4, DatagramType DEF TypeOK, SendAcks, Sends
<1>5. ASSUME NEW pkt \in to_send, Resend(pkt) PROVE TypeOK'
  <2>1. pkt \in Packet
    BY DEF TypeOK
  <2> QED
    BY <1>5, <2>1, DatagramType DEF TypeOK, Resend, Sends
<1>6. ASSUME NEW l \in Link, NEW d \in wire, Reads(l, d) PROVE TypeOK'
  <2>1. d.pkt \in Packet /\ wire' \subseteq Datagram
    BY <1>6, DatagramPacket DEF TypeOK, Reads, ReadNew, ReadAgain, RemoveAcked, StrayAck, Receive
  <2>2. CASE ReadNew(l, d)
    BY <2>1, <2>2, ThreadType DEF TypeOK, ReadNew, GoTo, Steps
  <2>3. CASE ReadAgain(l, d)
    BY <2>1, <2>3, ThreadType DEF TypeOK, ReadAgain, GoTo, Steps
  <2>4. CASE RemoveAcked(l, d) \/ StrayAck(l, d)
    BY <2>1, <2>4 DEF TypeOK, RemoveAcked, StrayAck
  <2> QED
    BY <1>6, <2>2, <2>3, <2>4 DEF Reads
<1>7. ASSUME NEW l \in Link, Delivering(l) PROVE TypeOK'
  <2> PICK pkt \in thread[l].pkts :
        \/ addMessageDelivered(l, pkt) \/ BebPasses(l, pkt) \/ BebDrops(l, pkt)
        \/ BebDelivers(l, pkt) \/ addAck(l, pkt)
    BY <1>7 DEF Delivering
  <2>1. pkt \in Packet
    BY InHand
  <2>2. CASE addMessageDelivered(l, pkt)
    BY <2>1, <2>2, ThreadType DEF TypeOK, addMessageDelivered, GoTo, Steps
  <2>3. CASE BebPasses(l, pkt) \/ BebDrops(l, pkt)
    BY <2>1, <2>3, ThreadType DEF TypeOK, BebPasses, BebDrops, GoTo, Steps
  <2>4. CASE BebDelivers(l, pkt)
    BY <2>1, <2>4, ThreadType DEF TypeOK, BebDelivers, GoTo, Steps
  <2>5. CASE addAck(l, pkt)
    BY <2>1, <2>5, IdleType DEF TypeOK, addAck
  <2> QED
    BY <2>2, <2>3, <2>4, <2>5
<1> QED
  BY <1>1, <1>2, <1>3, <1>4, <1>5, <1>6, <1>7 DEF Next

-----------------------------------------------------------------------------
(* The delivery thread's steps, seen from the threads: at most one changes. *)

LEMMA MoveTo ==
  ASSUME TypeOK, NEW l \in Link, NEW s, NEW x, GoTo(l, s, x)
  PROVE  /\ At(l, s, x)'
         /\ \A k \in Link \ {l} : thread'[k] = thread[k]
  BY DEF TypeOK, GoTo, At

(* What a receiver holds it does not let go.                                *)
LEMMA HeldStable ==
  ASSUME TypeOK, [Next]_vars, NEW x \in Packet, Held(x)
  PROVE  Held(x)'
<1> USE DEF Held, OnItsWay
<1>1. CASE UNCHANGED <<thread, delivered>>
  BY <1>1 DEF At
<1>2. ASSUME NEW l \in Link, thread[l] = Idle, NEW s, NEW y, GoTo(l, s, y), UNCHANGED delivered
      PROVE  Held(x)'
  <2>1. \A k \in Link : At(k, "filter", x) \/ At(k, "push", x) => k # l
    BY <1>2, BusyNotIdle DEF At
  <2> QED
    BY <1>2, <2>1, MoveTo DEF At
<1>3. ASSUME NEW l \in Link, Delivering(l) PROVE Held(x)'
  <2> PICK pkt \in thread[l].pkts :
        \/ addMessageDelivered(l, pkt) \/ BebPasses(l, pkt) \/ BebDrops(l, pkt)
        \/ BebDelivers(l, pkt) \/ addAck(l, pkt)
    BY <1>3 DEF Delivering
  <2>1. ASSUME NEW k \in Link, NEW s, NEW t, At(k, s, x), At(l, t, pkt), s # t
        PROVE  k # l
    BY <2>1, BusyInjective DEF At
  <2>2. CASE addMessageDelivered(l, pkt)
    <3>1. \A k \in Link : At(k, "filter", x) \/ At(k, "push", x) => k # l
      BY <2>1, <2>2 DEF addMessageDelivered
    <3> QED
      BY <2>2, <3>1, MoveTo DEF addMessageDelivered, At
  <2>3. CASE BebPasses(l, pkt)
    <3>1. At(l, "filter", x) => x = pkt
      BY <2>3, BusyInjective DEF BebPasses, At
    <3>2. ~At(l, "push", x)
      BY <2>1, <2>3 DEF BebPasses
    <3> QED
      BY <2>3, <3>1, <3>2, MoveTo DEF BebPasses, At
  <2>4. CASE BebDrops(l, pkt)
    <3>1. At(l, "filter", x) => x = pkt
      BY <2>4, BusyInjective DEF BebDrops, At
    <3>2. ~At(l, "push", x)
      BY <2>1, <2>4 DEF BebDrops
    <3> QED
      BY <2>4, <3>1, <3>2, MoveTo DEF BebDrops, At
  <2>5. CASE BebDelivers(l, pkt)
    <3>1. At(l, "push", x) => x = pkt
      BY <2>5, BusyInjective DEF BebDelivers, At
    <3>2. ~At(l, "filter", x)
      BY <2>1, <2>5 DEF BebDelivers
    <3> QED
      BY <2>5, <3>1, <3>2, MoveTo DEF BebDelivers, At
  <2>6. CASE addAck(l, pkt)
    <3>1. \A k \in Link : At(k, "filter", x) \/ At(k, "push", x) => k # l
      BY <2>1, <2>6 DEF addAck
    <3> QED
      BY <2>6, <3>1 DEF addAck, At, TypeOK
  <2> QED
    BY <2>2, <2>3, <2>4, <2>5, <2>6
<1>4. ASSUME NEW l \in Link, NEW d \in wire, Reads(l, d) PROVE Held(x)'
  BY <1>1, <1>2, <1>4 DEF Reads, ReadNew, ReadAgain, RemoveAcked, StrayAck, Receive
<1> QED
  BY <1>1, <1>3, <1>4 DEF Next, vars, setLinkActive, sendNewMessage, SendAcks, Resend

LEMMA ThreadsStep == TypeOK /\ WireOK /\ ThreadsOK /\ [Next]_vars => ThreadsOK'
<1> SUFFICES ASSUME TypeOK, WireOK, ThreadsOK, [Next]_vars, NEW k \in Link
             PROVE  \/ thread'[k] = Idle
                    \/ \E step \in Steps \ {"idle"}, pkt \in queued' :
                        thread'[k] = Busy(step, pkt) /\ pkt.to = k[1]
  BY DEF ThreadsOK
<1>1. queued \subseteq queued'
  BY DEF Next, vars, setLinkActive, sendNewMessage, Resend, SendAcks, Delivering, Reads,
         addMessageDelivered, BebPasses, BebDrops, BebDelivers, addAck,
         ReadNew, ReadAgain, RemoveAcked, StrayAck
<1>2. CASE thread'[k] = thread[k]
  BY <1>1, <1>2 DEF ThreadsOK
<1>3. ASSUME NEW l \in Link, NEW d \in wire, Reads(l, d), thread'[k] # thread[k]
      PROVE  /\ ~d.ack
             /\ \E step \in {"record", "ack"} : thread'[k] = Busy(step, d.pkt) /\ d.pkt.to = k[1]
  <2>1. CASE ReadNew(l, d)
    BY <1>3, <2>1, MoveTo DEF ReadNew, Receive, At
  <2>2. CASE ReadAgain(l, d)
    BY <1>3, <2>2, MoveTo DEF ReadAgain, Receive, At
  <2> QED
    BY <1>3, <2>1, <2>2 DEF Reads, RemoveAcked, StrayAck
<1>4. ASSUME NEW l \in Link, Delivering(l), thread'[k] # thread[k]
      PROVE  \/ thread'[k] = Idle
             \/ \E step \in Steps \ {"idle"}, pkt \in queued :
                 thread'[k] = Busy(step, pkt) /\ pkt.to = k[1]
  <2> PICK pkt \in thread[l].pkts :
        \/ addMessageDelivered(l, pkt) \/ BebPasses(l, pkt) \/ BebDrops(l, pkt)
        \/ BebDelivers(l, pkt) \/ addAck(l, pkt)
    BY <1>4 DEF Delivering
  <2>1. CASE addAck(l, pkt)
    BY <1>4, <2>1 DEF addAck, TypeOK
  <2>2. CASE \E s, t \in Steps \ {"idle"} : At(l, s, pkt) /\ GoTo(l, t, pkt)
    <3> PICK s \in Steps \ {"idle"}, t \in Steps \ {"idle"} : At(l, s, pkt) /\ GoTo(l, t, pkt)
      BY <2>2
    <3>1. k = l /\ thread'[l] = Busy(t, pkt)
      BY <1>4, MoveTo DEF At
    <3>2. thread[l] # Idle
      BY BusyNotIdle DEF At
    <3>3. pkt \in queued /\ pkt.to = l[1]
      BY <3>2, BusyInjective DEF ThreadsOK, At
    <3> QED
      BY <3>1, <3>3
  <2> QED
    BY <2>1, <2>2 DEF addMessageDelivered, BebPasses, BebDrops, BebDelivers, Steps
<1> QED
  <2>1. CASE \E l \in Link, d \in wire : Reads(l, d)
    BY <1>1, <1>2, <1>3, <2>1 DEF WireOK, Steps
  <2>2. CASE \E l \in Link : Delivering(l)
    BY <1>1, <1>2, <1>4, <2>2
  <2> QED
    BY <1>2, <2>1, <2>2 DEF Next, vars, setLinkActive, sendNewMessage, Resend, SendAcks

(* A datagram that was not under way is a queued message or an              *)
(* acknowledgment taken from a list.                                        *)
LEMMA NewDatagram ==
  ASSUME TypeOK, [Next]_vars, NEW d \in wire' \ wire
  PROVE  \/ ~d.ack /\ d.pkt \in queued'
         \/ d.ack /\ d.pkt \in acks
<1>1. ASSUME NEW l \in Link, NEW m \in Body, sendNewMessage(l, m)
      PROVE  ~d.ack /\ d.pkt \in queued'
  <2>1. d = Msg(PacketOf(l, m))
    BY <1>1 DEF sendNewMessage, Sends
  <2> QED
    BY <1>1, <2>1, PacketOfType, DatagramType DEF sendNewMessage
<1>2. ASSUME NEW l \in Link, SendAcks(l) PROVE d.ack /\ d.pkt \in acks
  <2>1. PICK pkt \in acks : d = Ack(pkt)
    BY <1>2 DEF SendAcks, Sends
  <2> QED
    BY <2>1 DEF Ack
<1>3. ASSUME NEW pkt \in to_send, Resend(pkt) PROVE ~d.ack /\ d.pkt \in queued'
  <2>1. d = Msg(pkt)
    BY <1>3 DEF Resend, Sends
  <2> QED
    BY <1>3, <2>1 DEF Resend, Msg, TypeOK
<1>4. ASSUME NEW l \in Link, NEW x \in wire, Reads(l, x) PROVE FALSE
  BY <1>4 DEF Reads, ReadNew, ReadAgain, RemoveAcked, StrayAck, Receive
<1>5. ASSUME NEW l \in Link, Delivering(l) PROVE FALSE
  BY <1>5 DEF Delivering, addMessageDelivered, BebPasses, BebDrops, BebDelivers, addAck
<1> QED
  BY <1>1, <1>2, <1>3, <1>4, <1>5 DEF Next, vars, setLinkActive

LEMMA QueuedGrows == [Next]_vars => queued \subseteq queued'
  BY DEF Next, vars, setLinkActive, sendNewMessage, Resend, SendAcks, Delivering, Reads,
         addMessageDelivered, BebPasses, BebDrops, BebDelivers, addAck,
         ReadNew, ReadAgain, RemoveAcked, StrayAck

LEMMA WireStep == IInv /\ [Next]_vars => WireOK'
<1> SUFFICES ASSUME IInv, [Next]_vars, NEW d \in wire'
             PROVE  (~d.ack => d.pkt \in queued') /\ (d.ack => Held(d.pkt)')
  BY DEF WireOK
<1>1. CASE d \in wire
  <2>1. d.pkt \in Packet /\ (~d.ack => d.pkt \in queued) /\ (d.ack => Held(d.pkt))
    BY <1>1, DatagramPacket DEF IInv, TypeOK, WireOK
  <2> QED
    BY <2>1, HeldStable, QueuedGrows DEF IInv
<1>2. CASE d \notin wire
  <2>1. ASSUME d.ack, d.pkt \in acks PROVE Held(d.pkt)'
    BY <2>1, HeldStable DEF IInv, TypeOK, ListsOK
  <2> QED
    BY <1>2, <2>1, NewDatagram DEF IInv
<1> QED
  BY <1>1, <1>2

(* What enters one of the lists is held when it does.                       *)
LEMMA ListsGrow ==
  ASSUME IInv, [Next]_vars,
         NEW x \in (recorded \cup acks \cup (queued \ to_send))'
  PROVE  x \in Packet /\ Held(x)'
<1>1. ASSUME x \in recorded \cup acks \cup (queued \ to_send)
      PROVE  x \in Packet /\ Held(x)'
  BY <1>1, HeldStable DEF IInv, TypeOK, ListsOK
<1>2. ASSUME NEW l \in Link, NEW m \in Body, sendNewMessage(l, m)
      PROVE  x \in recorded \cup acks \cup (queued \ to_send)
  BY <1>2 DEF sendNewMessage
<1>3. ASSUME NEW l \in Link, NEW d \in wire, Reads(l, d)
      PROVE  x \in recorded \cup acks \cup (queued \ to_send)
             \/ (x = d.pkt /\ d.ack /\ RemoveAcked(l, d))
  BY <1>3 DEF Reads, ReadNew, ReadAgain, RemoveAcked, StrayAck
<1>4. ASSUME NEW l \in Link, NEW pkt \in thread[l].pkts, addMessageDelivered(l, pkt), x = pkt
      PROVE  x \in Packet /\ Held(x)'
  <2>1. At(l, "filter", pkt)'
    BY <1>4, MoveTo DEF addMessageDelivered, IInv
  <2> QED
    BY <1>4, <2>1, InHand DEF Held, OnItsWay, IInv
<1>5. ASSUME NEW l \in Link, NEW pkt \in thread[l].pkts, addAck(l, pkt), x = pkt
      PROVE  x \in Packet /\ Held(x)'
  BY <1>5, InHand, HeldStable DEF addAck, IInv, AckingOK
<1>6. ASSUME NEW l \in Link, Delivering(l)
      PROVE  x \in recorded \cup acks \cup (queued \ to_send)
             \/ \E pkt \in thread[l].pkts :
                    x = pkt /\ (addMessageDelivered(l, pkt) \/ addAck(l, pkt))
  BY <1>6 DEF Delivering, addMessageDelivered, BebPasses, BebDrops, BebDelivers, addAck
<1>7. ASSUME NEW l \in Link, NEW d \in wire, RemoveAcked(l, d), x = d.pkt, d.ack
      PROVE  x \in Packet /\ Held(x)'
  BY <1>7, HeldStable, DatagramPacket DEF IInv, WireOK, TypeOK
<1>8. CASE UNCHANGED <<recorded, queued, to_send>> /\ acks' \subseteq acks
  BY <1>1, <1>8
<1> QED
  <2>1. CASE \E l \in Link, d \in wire : Reads(l, d)
    BY <1>1, <1>3, <1>7, <2>1
  <2>2. CASE \E l \in Link : Delivering(l)
    BY <1>1, <1>4, <1>5, <1>6, <2>2
  <2>3. CASE \E l \in Link, m \in Body : sendNewMessage(l, m)
    BY <1>1, <1>2, <2>3
  <2> QED
    BY <1>8, <2>1, <2>2, <2>3 DEF Next, vars, setLinkActive, Resend, SendAcks

LEMMA ListsStep == IInv /\ [Next]_vars => ListsOK'
  BY ListsGrow DEF ListsOK

(* A thread acknowledges what it delivered, dropped as a repetition, or     *)
(* found recorded.                                                          *)
LEMMA AckingStep == IInv /\ [Next]_vars => AckingOK'
<1> SUFFICES ASSUME IInv, [Next]_vars, NEW k \in Link, NEW x \in Packet, At(k, "ack", x)'
             PROVE  Held(x)'
  BY DEF AckingOK
<1>1. CASE thread'[k] = thread[k]
  BY <1>1, HeldStable DEF IInv, AckingOK, At
<1>2. ASSUME NEW l \in Link, NEW d \in wire, ReadAgain(l, d), thread'[k] # thread[k]
      PROVE  Held(x)'
  <2>1. x = d.pkt
    BY <1>2, MoveTo, BusyInjective DEF ReadAgain, IInv, At
  <2> QED
    BY <1>2, <2>1, HeldStable DEF ReadAgain, IInv, ListsOK
<1>3. ASSUME NEW l \in Link, NEW d \in wire, ReadNew(l, d), thread'[k] # thread[k]
      PROVE  FALSE
  BY <1>3, MoveTo, BusyInjective DEF ReadNew, IInv, At
<1>4. ASSUME NEW l \in Link, NEW pkt \in thread[l].pkts, thread'[k] # thread[k],
             BebDrops(l, pkt) \/ BebDelivers(l, pkt)
      PROVE  Held(x)'
  <2>1. x = pkt
    BY <1>4, MoveTo, BusyInjective DEF BebDrops, BebDelivers, IInv, At
  <2> QED
    BY <1>4, <2>1 DEF BebDrops, BebDelivers, Held
<1>5. ASSUME NEW l \in Link, NEW pkt \in thread[l].pkts, thread'[k] # thread[k],
             addMessageDelivered(l, pkt) \/ BebPasses(l, pkt)
      PROVE  FALSE
  BY <1>5, MoveTo, BusyInjective DEF addMessageDelivered, BebPasses, IInv, At
<1>6. ASSUME NEW l \in Link, NEW pkt \in thread[l].pkts, thread'[k] # thread[k], addAck(l, pkt)
      PROVE  FALSE
  BY <1>6, BusyNotIdle DEF addAck, IInv, TypeOK, At
<1> QED
  BY <1>1, <1>2, <1>3, <1>4, <1>5, <1>6
     DEF Next, vars, setLinkActive, sendNewMessage, Resend, SendAcks, Delivering, Reads,
         RemoveAcked, StrayAck

LEMMA InitIInv == Init => IInv
<1> SUFFICES ASSUME Init PROVE IInv
  OBVIOUS
<1>1. TypeOK
  BY IdleType DEF Init, TypeOK
<1>2. ThreadsOK /\ WireOK /\ ListsOK
  BY DEF Init, ThreadsOK, WireOK, ListsOK
<1>3. AckingOK
  BY BusyNotIdle DEF Init, AckingOK, At
<1> QED
  BY <1>1, <1>2, <1>3 DEF IInv

(* The inductive invariant holds of every behaviour of the links.           *)
THEOREM Invariance == Spec => []IInv
<1>1. IInv /\ [Next]_vars => IInv'
  BY TypeStep, ThreadsStep, WireStep, ListsStep, AckingStep DEF IInv
<1> QED
  BY <1>1, InitIInv, PTL DEF Spec

(* Every variable of the links keeps its type.                              *)
THEOREM TypeCorrect == Spec => []TypeOK
  BY Invariance, PTL DEF IInv

(* A message leaves messages_to_send only when its receiver has handed it   *)
(* up or a thread of the receiver is about to.                              *)
THEOREM ForgottenWhenHeldCorrect == Spec => []ForgottenWhenHeld
<1>1. IInv => ForgottenWhenHeld
  BY DEF IInv, ListsOK, ForgottenWhenHeld, Held
<1> QED
  BY <1>1, Invariance, PTL

-----------------------------------------------------------------------------
(* The links implement LinkContract.                                       *)

(* What the refinement mapping puts for entered.                            *)
Entered == [l \in Link |-> IF thread[l].step = "push" THEN thread[l].pkts ELSE {}]

LEMMA EnteredAt ==
  ASSUME NEW l \in Link, NEW s, NEW x, At(l, s, x)
  PROVE  Entered[l] = IF s = "push" THEN {x} ELSE {}
  BY DEF Entered, At, Busy

LEMMA EnteredIdle ==
  ASSUME NEW l \in Link, thread[l] = Idle
  PROVE  Entered[l] = {}
  BY DEF Entered, Idle

LEMMA EnteredMoved ==
  ASSUME TypeOK, NEW l \in Link, NEW s, NEW x, GoTo(l, s, x)
  PROVE  Entered' = [Entered EXCEPT ![l] = IF s = "push" THEN {x} ELSE {}]
<1>1. Entered'[l] = IF s = "push" THEN {x} ELSE {}
  <2>1. thread'[l] = Busy(s, x)
    BY MoveTo DEF At
  <2> QED
    BY <2>1 DEF Entered, Busy
<1>2. \A k \in Link \ {l} : Entered'[k] = Entered[k]
  BY MoveTo DEF Entered
<1> QED
  BY <1>1, <1>2 DEF Entered

(* A packet in hand is one the contract lets the thread enter with.         *)
LEMMA InHandQueued ==
  ASSUME IInv, NEW l \in Link, NEW s, NEW x, At(l, s, x), s # "idle"
  PROVE  x \in queued /\ x \in Packet /\ x.to = l[1]
<1>1. thread[l] # Idle
  BY BusyNotIdle DEF At
<1>2. x \in queued /\ x.to = l[1]
  BY <1>1, BusyInjective DEF IInv, ThreadsOK, At
<1> QED
  BY <1>2 DEF IInv, TypeOK

LEMMA PassesEnters ==
  ASSUME IInv, NEW l \in Link, NEW x, BebPasses(l, x)
  PROVE  x \in Packet /\ Contract!Enter(l, x)
<1>1. At(l, "filter", x) /\ Entered[l] = {} /\ Entered' = [Entered EXCEPT ![l] = {x}]
  <2>1. At(l, "filter", x) /\ GoTo(l, "push", x)
    BY DEF BebPasses
  <2>2. Entered[l] = {}
    BY <2>1 DEF Entered, At, Busy
  <2>3. Entered' = [Entered EXCEPT ![l] = {x}]
    BY <2>1, EnteredMoved DEF IInv
  <2> QED
    BY <2>1, <2>2, <2>3
<1>2. x \in queued /\ x \in Packet /\ x.to = l[1]
  BY <1>1, InHandQueued
<1> QED
  BY <1>1, <1>2 DEF BebPasses, Contract!Enter, Entered

LEMMA DeliversHandsUp ==
  ASSUME IInv, NEW l \in Link, NEW x, BebDelivers(l, x)
  PROVE  x \in Packet /\ Contract!HandUp(l, x)
<1>1. At(l, "push", x) /\ Entered[l] = {x} /\ Entered' = [Entered EXCEPT ![l] = {}]
  <2>1. At(l, "push", x) /\ GoTo(l, "ack", x)
    BY DEF BebDelivers
  <2>2. Entered[l] = {x}
    BY <2>1, EnteredAt
  <2>3. Entered' = [Entered EXCEPT ![l] = {}]
    BY <2>1, EnteredMoved DEF IInv
  <2> QED
    BY <2>1, <2>2, <2>3
<1>2. x \in Packet
  BY <1>1, InHandQueued
<1> QED
  BY <1>1, <1>2 DEF BebDelivers, Contract!HandUp, Entered

(* The other moves of a thread do not show.                                 *)
LEMMA MoveStutters ==
  ASSUME TypeOK, NEW l \in Link, Entered[l] = {}, NEW s, NEW x, s # "push", GoTo(l, s, x)
  PROVE  Entered' = Entered
<1>1. Entered' = [Entered EXCEPT ![l] = {}]
  BY EnteredMoved
<1> QED
  BY <1>1 DEF Entered

(* Only what was queued for the process is handed up, and only by a thread  *)
(* that found the packet in neither filter.                                 *)
THEOREM ContractRefined == Spec => ContractSpec
<1>1. Init => Contract!Init
  BY EnteredIdle DEF Init, Contract!Init, Entered
<1>2. IInv /\ [Next]_vars => [Contract!Next]_(Contract!vars)
  <2> SUFFICES ASSUME IInv, [Next]_vars
               PROVE  Contract!Next \/ UNCHANGED <<queued, Entered, delivered, upcalls>>
    BY DEF Contract!vars, Entered
  <2>1. CASE UNCHANGED <<queued, thread, delivered, upcalls>>
    BY <2>1 DEF Entered
  <2>2. ASSUME NEW l \in Link, NEW m \in Body, sendNewMessage(l, m)
        PROVE  Contract!Next
    <3>1. Contract!Queue(PacketOf(l, m))
      BY <2>2 DEF sendNewMessage, Contract!Queue
    <3> QED
      BY <3>1, PacketOfType DEF Contract!Next
  <2>3. ASSUME NEW l \in Link, NEW d \in wire, Reads(l, d)
        PROVE  UNCHANGED <<queued, Entered, delivered, upcalls>>
    <3>1. Entered[l] = {}
      BY <2>3, EnteredIdle DEF Reads, ReadNew, ReadAgain, RemoveAcked, StrayAck, Receive
    <3>2. CASE ReadNew(l, d) \/ ReadAgain(l, d)
      BY <3>1, <3>2, MoveStutters DEF ReadNew, ReadAgain, IInv
    <3>3. CASE RemoveAcked(l, d) \/ StrayAck(l, d)
      BY <3>3 DEF RemoveAcked, StrayAck, Entered
    <3> QED
      BY <2>3, <3>2, <3>3 DEF Reads
  <2>4. ASSUME NEW l \in Link, NEW x \in thread[l].pkts,
               addMessageDelivered(l, x) \/ BebDrops(l, x)
        PROVE  UNCHANGED <<queued, Entered, delivered, upcalls>>
    <3>1. \E s \in {"record", "filter"} : At(l, s, x)
      BY <2>4 DEF addMessageDelivered, BebDrops
    <3>2. Entered[l] = {}
      BY <3>1, EnteredAt
    <3> QED
      BY <2>4, <3>2, MoveStutters DEF addMessageDelivered, BebDrops, IInv
  <2>5. ASSUME NEW l \in Link, NEW x \in thread[l].pkts, addAck(l, x)
        PROVE  UNCHANGED <<queued, Entered, delivered, upcalls>>
    <3>1. Entered[l] = {}
      BY <2>5, EnteredAt DEF addAck
    <3>2. Entered'[l] = {}
      BY <2>5 DEF addAck, Entered, Idle, IInv, TypeOK
    <3>3. \A k \in Link \ {l} : Entered'[k] = Entered[k]
      BY <2>5 DEF addAck, Entered, IInv, TypeOK
    <3> QED
      BY <2>5, <3>1, <3>2, <3>3 DEF addAck, Entered
  <2>6. ASSUME NEW l \in Link, Delivering(l)
        PROVE  Contract!Next \/ UNCHANGED <<queued, Entered, delivered, upcalls>>
    BY <2>4, <2>5, <2>6, PassesEnters, DeliversHandsUp DEF Delivering, Contract!Next
  <2> QED
    BY <2>1, <2>2, <2>3, <2>6 DEF Next, vars, setLinkActive, Resend, SendAcks
<1> QED
  BY <1>1, <1>2, Invariance, PTL DEF Spec, ContractSpec, Contract!Spec

=============================================================================
