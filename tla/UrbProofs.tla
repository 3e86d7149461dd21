----------------------------- MODULE UrbProofs -----------------------------
(***************************************************************************)
(* Theorems about Urb for every number of processes, every script and      *)
(* every setting of its switches.                                          *)
(***************************************************************************)
EXTENDS Urb, Functions, FiniteSetTheorems, TLAPS

-----------------------------------------------------------------------------
(* The inductive invariant.                                                *)

(* A packet joins two processes, is an original only when its sender is the *)
(* originator, and carries a message its originator broadcast.              *)
PacketsOK ==
    \A pkt \in net :
        /\ pkt.from # pkt.to
        /\ pkt.relay \/ pkt.from = pkt.orig
        /\ pkt.body \in sent[pkt.orig]

(* Whoever has one packet of a message on the wire has queued it for all.   *)
SenderHolds == \A pkt \in net : Holds(pkt.from, KeyOf(pkt))

(* Upcalls and acknowledgments are about packets sent to the process.       *)
HeardOK ==
    \A p \in Proc :
        /\ \A c \in calls[p] : c.pkt \in net /\ c.pkt.to = p
        /\ \A e \in ack[p] : e.pkt \in net /\ e.pkt.to = p

(* Atomic filters: a packet is acknowledged in one copy.                    *)
OneCopy ==
    OncePerPacket =>
        \A p \in Proc :
            /\ \A c \in calls[p] : c.copy = 1 /\ c.pkt \in seen[p]
            /\ \A e \in ack[p] : e.copy = 1

(* A process has queued on its links every message it has on file.          *)
PendingHolds ==
    \A p \in Proc : \A k \in pending[p] : k.orig # NoId => Holds(p, k)

CrashBound == Cardinality({q \in Proc : ~alive[q]}) <= MaxCrash

-----------------------------------------------------------------------------
(* The state is well typed, whichever overload, race and build is chosen.   *)
LEMMA TypeInit == Init => TypeOK
  BY FS_EmptySet DEF Init, TypeOK

LEMMA PacketsType ==
  ASSUME NEW p \in Proc, NEW k \in Key, NEW relay \in BOOLEAN
  PROVE  Packets(p, k, relay) \subseteq Packet
  BY DEF Packets, Packet, Key

LEMMA KeyOfType ==
  ASSUME NEW pkt \in Packet
  PROVE  KeyOf(pkt) \in Key /\ KeyOf(pkt) \in PendingEntry
  BY DEF KeyOf, Packet, Key, PendingEntry

LEMMA OwnType ==
  ASSUME NEW p \in Proc, NEW m \in Payload
  PROVE  OwnEntry(p, m) \in PendingEntry /\ [orig |-> p, body |-> m] \in Key
  BY DEF OwnEntry, PendingEntry, Key

LEMMA CallType ==
  ASSUME NEW c \in Call, NEW step \in {"filter", "insert", "find"}
  PROVE  /\ At(c, step) \in Call
         /\ At(c, step).pkt = c.pkt
         /\ At(c, step).copy = c.copy
         /\ EntryOf(c) \in Entry
         /\ EntryOf(c).pkt = c.pkt
         /\ EntryOf(c).copy = c.copy
  BY DEF Call, At, EntryOf, Entry

LEMMA NewCallType ==
  ASSUME TypeOK, NEW p \in Proc, NEW pkt \in Packet
  PROVE  /\ NewCall(p, pkt) \in Call
         /\ NewCall(p, pkt).pkt = pkt
<1>1. IsFiniteSet({c \in calls[p] : c.pkt = pkt})
  BY FS_Subset DEF TypeOK
<1>2. Cardinality({c \in calls[p] : c.pkt = pkt}) \in Nat
  BY <1>1, FS_CardinalityType
<1> QED
  BY <1>2 DEF NewCall, Call

(* canDeliver is about at least one acknowledgment, so about a real key.    *)
LEMMA SomeAck ==
  ASSUME NEW p \in Proc, NEW k, canDeliver(p, k)
  PROVE  \E e \in ack[p] : KeyOf(e.pkt) = k
<1>1. Cardinality(Proc) \in Nat
  BY ProcAssumption, FS_CardinalityType
<1>2. AcksFor(p, k) # {}
  BY <1>1, FS_EmptySet DEF canDeliver
<1> QED
  BY <1>2 DEF AcksFor

LEMMA TypeStep == TypeOK /\ [Next]_vars => TypeOK'
<1> SUFFICES ASSUME TypeOK, [Next]_vars PROVE TypeOK'
  OBVIOUS
<1>1. CASE UNCHANGED vars
  BY <1>1 DEF TypeOK, vars
<1>2. ASSUME NEW p \in Proc, setBroadcastActive(p) PROVE TypeOK'
  BY <1>2 DEF TypeOK, setBroadcastActive
<1>3. ASSUME NEW p \in Proc, NEW m \in Payload, broadcastMessage(p, m) PROVE TypeOK'
  BY <1>3, OwnType, PacketsType DEF TypeOK, broadcastMessage, Pushed
<1>4. ASSUME NEW p \in Proc, NEW pkt \in net, HandUp(p, pkt) PROVE TypeOK'
  <2>1. NewCall(p, pkt) \in Call /\ pkt \in Packet
    BY NewCallType DEF TypeOK
  <2>2. IsFiniteSet(calls[p] \cup {NewCall(p, pkt)})
    BY FS_AddElement DEF TypeOK
  <2>3. calls' \in [Proc -> SUBSET Call] /\ \A q \in Proc : IsFiniteSet(calls'[q])
    BY <1>4, <2>1, <2>2 DEF TypeOK, HandUp
  <2>4. seen' \in [Proc -> SUBSET Packet]
    BY <1>4, <2>1 DEF TypeOK, HandUp
  <2> QED
    BY <1>4, <2>3, <2>4 DEF TypeOK, HandUp
<1>5. ASSUME NEW p \in Proc, NEW c \in calls[p] PROVE IsFiniteSet(calls[p] \ {c})
  BY FS_Subset DEF TypeOK
<1>6. ASSUME NEW p \in Proc, NEW c \in calls[p], Record(p, c) PROVE TypeOK'
  <2>1. c \in Call /\ At(c, "insert") \in Call /\ c.pkt \in Packet
    BY CallType DEF TypeOK, Call
  <2>2. IsFiniteSet((calls[p] \ {c}) \cup {At(c, "insert")})
    BY <1>5, FS_AddElement
  <2> QED
    BY <1>6, <2>1, <2>2 DEF TypeOK, Record
<1>7. ASSUME NEW p \in Proc, NEW c \in calls[p], InsertAck(p, c) PROVE TypeOK'
  <2>1. c \in Call /\ At(c, "find") \in Call /\ EntryOf(c) \in Entry
    BY CallType DEF TypeOK
  <2>2. IsFiniteSet((calls[p] \ {c}) \cup {At(c, "find")})
    BY <1>5, FS_AddElement
  <2> QED
    BY <1>7, <2>1, <2>2 DEF TypeOK, InsertAck
<1>8. ASSUME NEW p \in Proc, NEW c \in calls[p], NEW d \in calls[p], RacyInsert(p, c, d)
      PROVE TypeOK'
  <2>1. At(c, "find") \in Call /\ At(d, "find") \in Call /\ EntryOf(d) \in Entry
    BY CallType DEF TypeOK
  <2>2. IsFiniteSet(calls[p] \ {c, d})
    BY FS_Subset DEF TypeOK
  <2>3. IsFiniteSet((calls[p] \ {c, d}) \cup {At(c, "find")})
    BY <2>2, FS_AddElement
  <2>4. IsFiniteSet(((calls[p] \ {c, d}) \cup {At(c, "find")}) \cup {At(d, "find")})
    BY <2>3, FS_AddElement
  <2>5. ((calls[p] \ {c, d}) \cup {At(c, "find")}) \cup {At(d, "find")}
          = (calls[p] \ {c, d}) \cup {At(c, "find"), At(d, "find")}
    OBVIOUS
  <2>6. calls' = [calls EXCEPT ![p] = (@ \ {c, d}) \cup {At(c, "find"), At(d, "find")}]
    BY <1>8 DEF RacyInsert
  <2>7. calls' \in [Proc -> SUBSET Call] /\ \A q \in Proc : IsFiniteSet(calls'[q])
    BY <2>1, <2>4, <2>5, <2>6 DEF TypeOK
  <2> QED
    BY <1>8, <2>1, <2>7 DEF TypeOK, RacyInsert
<1>9. ASSUME NEW p \in Proc, NEW c \in calls[p], SkipKnown(p, c) PROVE TypeOK'
  BY <1>5, <1>9 DEF TypeOK, SkipKnown
<1>10. ASSUME NEW p \in Proc, NEW c \in calls[p], Relay(p, c) PROVE TypeOK'
  <2>1. c.pkt \in Packet
    BY DEF TypeOK, Call
  <2>2. net' \subseteq Packet
    BY <1>10, <2>1, KeyOfType, PacketsType DEF TypeOK, Relay
  <2>3. pending' \in [Proc -> SUBSET PendingEntry]
    BY <1>10, <2>1, KeyOfType DEF TypeOK, Relay, Pushed
  <2>4. calls' \in [Proc -> SUBSET Call] /\ \A q \in Proc : IsFiniteSet(calls'[q])
    BY <1>5, <1>10 DEF TypeOK, Relay
  <2> QED
    BY <1>10, <2>2, <2>3, <2>4 DEF TypeOK, Relay
<1>11. ASSUME NEW p \in Proc, NEW m \in Payload, NEW c \in calls[p], RacyPush(p, m, c)
       PROVE TypeOK'
  <2>1. c.pkt \in Packet
    BY DEF TypeOK, Call
  <2>2. net' \subseteq Packet
    BY <1>11, <2>1, KeyOfType, OwnType, PacketsType DEF TypeOK, RacyPush
  <2>3. pending' \in [Proc -> SUBSET PendingEntry] /\ torn' \in [Proc -> BOOLEAN]
    BY <1>11, <2>1, KeyOfType, OwnType DEF TypeOK, RacyPush, Pushed
  <2>4. calls' \in [Proc -> SUBSET Call] /\ \A q \in Proc : IsFiniteSet(calls'[q])
    BY <1>5, <1>11 DEF TypeOK, RacyPush
  <2>5. sent' \in [Proc -> SUBSET Payload]
    BY <1>11 DEF TypeOK, RacyPush
  <2>6. UNCHANGED <<alive, poller, seen, ack, delivered>>
    BY <1>11 DEF RacyPush
  <2> QED
    BY <2>2, <2>3, <2>4, <2>5, <2>6 DEF TypeOK
<1>12. ASSUME NEW p \in Proc, NEW k \in pending[p], deliverPending(p, k) PROVE TypeOK'
  <2>1. k \in Key
    BY <1>12, SomeAck, KeyOfType DEF TypeOK, Entry, deliverPending
  <2> QED
    BY <1>12, <2>1 DEF TypeOK, deliverPending
<1>13. ASSUME NEW p \in Proc, Crash(p) PROVE TypeOK'
  BY <1>13 DEF TypeOK, Crash
<1> QED
  BY <1>1, <1>2, <1>3, <1>4, <1>6, <1>7, <1>8, <1>9, <1>10, <1>11, <1>12, <1>13
  DEF Next, MainThread, LinkThreads, Upcalls, Poller

-----------------------------------------------------------------------------
(* The rest of the inductive invariant, part by part.                      *)

IInv == TypeOK /\ PacketsOK /\ SenderHolds /\ HeardOK /\ OneCopy /\ PendingHolds

(* A process that has queued the packets of a message holds it.             *)
LEMMA QueuedHolds ==
  ASSUME NEW p \in Proc, NEW k \in Key, NEW relay \in BOOLEAN,
         Packets(p, k, relay) \subseteq net'
  PROVE  Holds(p, k)'
<1> SUFFICES ASSUME NEW r \in Proc \ {p}
             PROVE  \E pkt \in net' : pkt.from = p /\ pkt.to = r /\ KeyOf(pkt) = k
  BY DEF Holds, KeyOf
<1> DEFINE pkt == [from |-> p, to |-> r, orig |-> k.orig, body |-> k.body, relay |-> relay]
<1>1. pkt \in net'
  BY DEF Packets
<1>2. KeyOf(pkt) = k
  BY DEF KeyOf, Key
<1> QED
  BY <1>1, <1>2

(* Packets stay queued, so a holder remains one.                            *)
LEMMA HoldsStable ==
  ASSUME net \subseteq net', NEW q, NEW k, Holds(q, k)
  PROVE  Holds(q, k)'
  BY DEF Holds, KeyOf

(* What a step adds to net and to sent: nothing but the packets of an own   *)
(* message that it broadcasts, or of a message it relays.                   *)
Originates(p, k) == k.orig = p /\ k.body \in sent'[p] /\ Packets(p, k, FALSE) \subseteq net'

Relays(p, k) ==
    /\ Packets(p, k, TRUE) \subseteq net'
    /\ \E c \in calls[p] : k = KeyOf(c.pkt)

LEMMA NetStep ==
  ASSUME TypeOK, [Next]_vars
  PROVE  /\ net \subseteq net'
         /\ \A q \in Proc : sent[q] \subseteq sent'[q]
         /\ \A pkt \in net' \ net : \E p \in Proc, k \in Key :
               \/ pkt \in Packets(p, k, FALSE) /\ Originates(p, k)
               \/ pkt \in Packets(p, k, TRUE) /\ Relays(p, k)
<1>1. CASE UNCHANGED vars
  BY <1>1 DEF vars
<1>2. ASSUME NEW p \in Proc, NEW m \in Payload, broadcastMessage(p, m)
      PROVE  /\ net \subseteq net'
             /\ \A q \in Proc : sent[q] \subseteq sent'[q]
             /\ [orig |-> p, body |-> m] \in Key
             /\ net' = net \cup Packets(p, [orig |-> p, body |-> m], FALSE)
             /\ Originates(p, [orig |-> p, body |-> m])
  BY <1>2, OwnType DEF TypeOK, broadcastMessage, Originates
<1>3. ASSUME NEW p \in Proc, NEW c \in calls[p], Relay(p, c)
      PROVE  /\ net \subseteq net'
             /\ \A q \in Proc : sent[q] \subseteq sent'[q]
             /\ KeyOf(c.pkt) \in Key
             /\ net' = net \cup Packets(p, KeyOf(c.pkt), TRUE)
             /\ Relays(p, KeyOf(c.pkt))
  <2>1. KeyOf(c.pkt) \in Key
    BY KeyOfType DEF TypeOK, Call
  <2> QED
    BY <1>3, <2>1 DEF Relay, Relays
<1>4. ASSUME NEW p \in Proc, NEW m \in Payload, NEW c \in calls[p], RacyPush(p, m, c)
      PROVE  /\ net \subseteq net'
             /\ \A q \in Proc : sent[q] \subseteq sent'[q]
             /\ [orig |-> p, body |-> m] \in Key
             /\ KeyOf(c.pkt) \in Key
             /\ net' = net \cup Packets(p, [orig |-> p, body |-> m], FALSE)
                           \cup Packets(p, KeyOf(c.pkt), TRUE)
             /\ Originates(p, [orig |-> p, body |-> m])
             /\ Relays(p, KeyOf(c.pkt))
  <2>1. KeyOf(c.pkt) \in Key /\ [orig |-> p, body |-> m] \in Key
    BY KeyOfType, OwnType DEF TypeOK, Call
  <2>2. net' = net \cup Packets(p, [orig |-> p, body |-> m], FALSE)
                   \cup Packets(p, KeyOf(c.pkt), TRUE)
    BY <1>4 DEF RacyPush
  <2>3. sent' = [sent EXCEPT ![p] = @ \cup {m}]
    BY <1>4 DEF RacyPush
  <2>4. m \in sent'[p] /\ \A q \in Proc : sent[q] \subseteq sent'[q]
    BY <2>3 DEF TypeOK
  <2>5. Originates(p, [orig |-> p, body |-> m])
    BY <2>2, <2>4 DEF Originates
  <2>6. Relays(p, KeyOf(c.pkt))
    BY <2>2 DEF Relays
  <2> QED
    BY <2>1, <2>2, <2>4, <2>5, <2>6
<1>5. CASE UNCHANGED <<net, sent>>
  BY <1>5
<1> HIDE DEF Originates, Relays
<1>6. ASSUME NEW p \in Proc, MainThread(p) \/ LinkThreads(p) \/ Poller(p) \/ Crash(p)
      PROVE  \/ UNCHANGED <<net, sent>>
             \/ \E m \in Payload : broadcastMessage(p, m)
             \/ \E c \in calls[p] : Relay(p, c)
             \/ \E m \in Payload : \E c \in calls[p] : RacyPush(p, m, c)
  BY <1>6 DEF MainThread, LinkThreads, Upcalls, Poller, setBroadcastActive, HandUp,
              Record, InsertAck, RacyInsert, SkipKnown, deliverPending, Crash
<1>7. CASE Next
  <2>1. PICK p \in Proc : MainThread(p) \/ LinkThreads(p) \/ Poller(p) \/ Crash(p)
    BY <1>7 DEF Next
  <2>2. CASE \E m \in Payload : broadcastMessage(p, m)
    BY <2>2, <1>2
  <2>3. CASE \E c \in calls[p] : Relay(p, c)
    BY <2>3, <1>3
  <2>4. CASE \E m \in Payload : \E c \in calls[p] : RacyPush(p, m, c)
    <3>1. PICK m \in Payload, c \in calls[p] : RacyPush(p, m, c)
      BY <2>4
    <3> QED
      BY <3>1, <1>4
  <2> QED
    BY <2>1, <2>2, <2>3, <2>4, <1>5, <1>6
<1> QED
  BY <1>1, <1>7

LEMMA PacketsStep ==
  ASSUME TypeOK, PacketsOK, HeardOK, [Next]_vars
  PROVE  PacketsOK'
<1> SUFFICES ASSUME NEW pkt \in net'
             PROVE  /\ pkt.from # pkt.to
                    /\ pkt.relay \/ pkt.from = pkt.orig
                    /\ pkt.body \in sent'[pkt.orig]
  BY DEF PacketsOK
<1>1. CASE pkt \in net
  <2>1. pkt.orig \in Proc
    BY <1>1 DEF TypeOK, Packet
  <2> QED
    BY <1>1, <2>1, NetStep DEF PacketsOK
<1>2. CASE pkt \in net' \ net
  <2>1. PICK p \in Proc, k \in Key :
          \/ pkt \in Packets(p, k, FALSE) /\ Originates(p, k)
          \/ pkt \in Packets(p, k, TRUE) /\ Relays(p, k)
    BY <1>2, NetStep
  <2>2. CASE pkt \in Packets(p, k, FALSE) /\ Originates(p, k)
    BY <2>2 DEF Originates, Packets, Key
  <2>3. CASE pkt \in Packets(p, k, TRUE) /\ Relays(p, k)
    <3>1. PICK c \in calls[p] : k = KeyOf(c.pkt)
      BY <2>3 DEF Relays
    <3>2. k.body \in sent[k.orig]
      BY <3>1 DEF HeardOK, PacketsOK, KeyOf
    <3>3. k.body \in sent'[k.orig]
      BY <3>2, NetStep DEF Key
    <3> QED
      BY <2>3, <3>3 DEF Packets, Key
  <2> QED
    BY <2>1, <2>2, <2>3
<1> QED
  BY <1>1, <1>2

LEMMA SenderHoldsStep ==
  ASSUME TypeOK, SenderHolds, [Next]_vars
  PROVE  SenderHolds'
<1> SUFFICES ASSUME NEW pkt \in net' PROVE Holds(pkt.from, KeyOf(pkt))'
  BY DEF SenderHolds, KeyOf
<1>1. CASE pkt \in net
  BY <1>1, NetStep, HoldsStable DEF SenderHolds
<1>2. CASE pkt \in net' \ net
  <2>1. PICK p \in Proc, k \in Key :
          \/ pkt \in Packets(p, k, FALSE) /\ Originates(p, k)
          \/ pkt \in Packets(p, k, TRUE) /\ Relays(p, k)
    BY <1>2, NetStep
  <2>2. pkt.from = p /\ KeyOf(pkt) = k
    BY <2>1 DEF Packets, KeyOf, Key
  <2>3. Holds(p, k)'
    BY <2>1, QueuedHolds DEF Originates, Relays
  <2> QED
    BY <2>2, <2>3
<1> QED
  BY <1>1, <1>2

(* Where the calls and the acknowledgments of the next state come from.     *)
LEMMA CallsStep ==
  ASSUME TypeOK, [Next]_vars, NEW p \in Proc
  PROVE  /\ \A c \in calls'[p] :
               \/ \E d \in calls[p] : d.pkt = c.pkt /\ d.copy = c.copy
               \/ /\ c.pkt \in net /\ c.pkt.to = p
                  /\ c = NewCall(p, c.pkt)
                  /\ c.pkt \notin seen[p]
                  /\ OncePerPacket => c.pkt \in seen'[p]
         /\ \A e \in ack'[p] : e \in ack[p] \/ \E d \in calls[p] : e = EntryOf(d)
         /\ seen[p] \subseteq seen'[p]
<1>1. CASE UNCHANGED <<calls, ack, seen>>
  BY <1>1
<1>2. ASSUME NEW q \in Proc, NEW pkt \in net, HandUp(q, pkt)
      PROVE  /\ ack' = ack
             /\ calls' = [calls EXCEPT ![q] = @ \cup {NewCall(q, pkt)}]
             /\ NewCall(q, pkt).pkt = pkt
             /\ pkt.to = q /\ pkt \notin seen[q]
             /\ seen' = [seen EXCEPT ![q] = IF OncePerPacket THEN @ \cup {pkt} ELSE @]
  BY <1>2 DEF HandUp, NewCall
<1>3. ASSUME NEW q \in Proc, NEW c \in calls[q], NEW step \in {"insert", "find"}
      PROVE  At(c, step).pkt = c.pkt /\ At(c, step).copy = c.copy
  BY CallType DEF TypeOK
<1>4. ASSUME NEW q \in Proc, NEW c \in calls[q],
             Record(q, c) \/ InsertAck(q, c) \/ SkipKnown(q, c) \/ Relay(q, c)
      PROVE  /\ \E step \in {"insert", "find"} :
                    calls'[q] \subseteq calls[q] \cup {At(c, step)}
             /\ \A r \in Proc \ {q} : calls'[r] = calls[r] /\ ack'[r] = ack[r]
             /\ ack'[q] \subseteq ack[q] \cup {EntryOf(c)}
             /\ \A r \in Proc : seen[r] \subseteq seen'[r]
  <2>1. CASE Record(q, c)
    BY <2>1 DEF TypeOK, Record
  <2>2. CASE InsertAck(q, c)
    BY <2>2 DEF TypeOK, InsertAck
  <2>3. CASE SkipKnown(q, c) \/ Relay(q, c)
    BY <2>3 DEF TypeOK, SkipKnown, Relay
  <2> QED
    BY <1>4, <2>1, <2>2, <2>3
<1>5. ASSUME NEW q \in Proc, NEW c \in calls[q], NEW d \in calls[q], RacyInsert(q, c, d)
      PROVE  /\ calls'[q] \subseteq calls[q] \cup {At(c, "find"), At(d, "find")}
             /\ \A r \in Proc \ {q} : calls'[r] = calls[r] /\ ack'[r] = ack[r]
             /\ ack'[q] \subseteq ack[q] \cup {EntryOf(d)}
             /\ seen' = seen
  BY <1>5 DEF TypeOK, RacyInsert
<1>6. ASSUME NEW q \in Proc, NEW m \in Payload, NEW c \in calls[q], RacyPush(q, m, c)
      PROVE  (\A r \in Proc : calls'[r] \subseteq calls[r]) /\ ack' = ack /\ seen' = seen
  BY <1>6 DEF TypeOK, RacyPush
<1>7. CASE Next
  <2>1. PICK q \in Proc : MainThread(q) \/ LinkThreads(q) \/ Poller(q) \/ Crash(q)
    BY <1>7 DEF Next
  <2>2. CASE \E pkt \in net : HandUp(q, pkt)
    <3>1. PICK pkt \in net : HandUp(q, pkt)
      BY <2>2
    <3>2. CASE p = q
      BY <3>1, <3>2, <1>2 DEF TypeOK
    <3>3. CASE p # q
      BY <3>1, <3>3, <1>2 DEF TypeOK
    <3> QED
      BY <3>2, <3>3
  <2>3. CASE \E c \in calls[q] : Record(q, c) \/ InsertAck(q, c) \/ SkipKnown(q, c) \/ Relay(q, c)
    <3>1. PICK c \in calls[q] : Record(q, c) \/ InsertAck(q, c) \/ SkipKnown(q, c) \/ Relay(q, c)
      BY <2>3
    <3> QED
      BY <3>1, <1>3, <1>4
  <2>4. CASE \E c, d \in calls[q] : RacyInsert(q, c, d)
    <3>1. PICK c \in calls[q], d \in calls[q] : RacyInsert(q, c, d)
      BY <2>4
    <3> QED
      BY <3>1, <1>3, <1>5
  <2>5. CASE \E m \in Payload : \E c \in calls[q] : RacyPush(q, m, c)
    BY <2>5, <1>6
  <2>6. CASE MainThread(q) \/ Poller(q) \/ Crash(q)
    BY <2>6, <1>1 DEF MainThread, Poller, setBroadcastActive, broadcastMessage,
                      deliverPending, Crash
  <2> QED
    BY <2>1, <2>2, <2>3, <2>4, <2>5, <2>6 DEF LinkThreads, Upcalls
<1> QED
  BY <1>1, <1>7 DEF vars

LEMMA HeardStep ==
  ASSUME TypeOK, HeardOK, [Next]_vars
  PROVE  HeardOK'
<1>1. net \subseteq net'
  BY NetStep
<1> SUFFICES ASSUME NEW p \in Proc
             PROVE  /\ \A c \in calls'[p] : c.pkt \in net /\ c.pkt.to = p
                    /\ \A e \in ack'[p] : e.pkt \in net /\ e.pkt.to = p
  BY <1>1 DEF HeardOK
<1>2. \A d \in calls[p] : d.pkt \in net /\ d.pkt.to = p /\ EntryOf(d).pkt = d.pkt
  BY DEF HeardOK, EntryOf
<1>3. \A e \in ack[p] : e.pkt \in net /\ e.pkt.to = p
  BY DEF HeardOK
<1> QED
  BY <1>2, <1>3, CallsStep

LEMMA OneCopyStep ==
  ASSUME TypeOK, OneCopy, [Next]_vars
  PROVE  OneCopy'
<1> SUFFICES ASSUME OncePerPacket, NEW p \in Proc
             PROVE  /\ \A c \in calls'[p] : c.copy = 1 /\ c.pkt \in seen'[p]
                    /\ \A e \in ack'[p] : e.copy = 1
  BY DEF OneCopy
<1>1. \A d \in calls[p] : d.copy = 1 /\ d.pkt \in seen[p] /\ EntryOf(d).copy = 1
  BY DEF OneCopy, EntryOf
<1>2. \A e \in ack[p] : e.copy = 1
  BY DEF OneCopy
<1>3. ASSUME NEW pkt, pkt \notin seen[p]
      PROVE  NewCall(p, pkt).copy = 1
  <2>1. {d \in calls[p] : d.pkt = pkt} = {}
    BY <1>1, <1>3
  <2>2. Cardinality({d \in calls[p] : d.pkt = pkt}) = 0
    BY <2>1, FS_EmptySet
  <2> QED
    BY <2>2 DEF NewCall
<1> QED
  BY <1>1, <1>2, <1>3, CallsStep

LEMMA PendingStep ==
  ASSUME TypeOK, PendingHolds, [Next]_vars
  PROVE  PendingHolds'
<1> SUFFICES ASSUME NEW p \in Proc, NEW k \in pending'[p], k.orig # NoId
             PROVE  Holds(p, k)'
  BY DEF PendingHolds
<1>1. CASE k \in pending[p]
  BY <1>1, NetStep, HoldsStable DEF PendingHolds
<1>2. CASE k \notin pending[p]
  <2>1. \/ \E m \in Payload : broadcastMessage(p, m)
        \/ \E c \in calls[p] : Relay(p, c)
        \/ \E m \in Payload : \E c \in calls[p] : RacyPush(p, m, c)
    <3>1. ASSUME NEW q \in Proc, MainThread(q) \/ LinkThreads(q) \/ Poller(q) \/ Crash(q)
          PROVE  \/ UNCHANGED pending
                 \/ \E m \in Payload : broadcastMessage(q, m)
                 \/ \E c \in calls[q] : Relay(q, c)
                 \/ \E m \in Payload : \E c \in calls[q] : RacyPush(q, m, c)
      BY <3>1 DEF MainThread, LinkThreads, Upcalls, Poller, setBroadcastActive, HandUp,
                  Record, InsertAck, RacyInsert, SkipKnown, deliverPending, Crash
    <3>2. ASSUME NEW q \in Proc,
                 \/ \E m \in Payload : broadcastMessage(q, m)
                 \/ \E c \in calls[q] : Relay(q, c)
                 \/ \E m \in Payload : \E c \in calls[q] : RacyPush(q, m, c)
          PROVE  \A r \in Proc \ {q} : pending'[r] = pending[r]
      BY <3>2 DEF TypeOK, broadcastMessage, Relay, RacyPush
    <3>3. pending' # pending
      BY <1>2
    <3>4. PICK q \in Proc : MainThread(q) \/ LinkThreads(q) \/ Poller(q) \/ Crash(q)
      BY <3>3 DEF Next, vars
    <3>5. q = p
      BY <1>2, <3>1, <3>2, <3>3, <3>4
    <3> QED
      BY <3>1, <3>3, <3>4, <3>5
  <2>2. ASSUME NEW m \in Payload, k = OwnEntry(p, m),
               Packets(p, [orig |-> p, body |-> m], FALSE) \subseteq net'
        PROVE  Holds(p, k)'
    <3>1. k = [orig |-> p, body |-> m]
      BY <2>2 DEF OwnEntry
    <3> QED
      BY <2>2, <3>1, OwnType, QueuedHolds
  <2>3. ASSUME NEW c \in calls[p], k = KeyOf(c.pkt),
               Packets(p, KeyOf(c.pkt), TRUE) \subseteq net'
        PROVE  Holds(p, k)'
    <3>1. k \in Key
      BY <2>3, KeyOfType DEF TypeOK, Call
    <3> QED
      BY <2>3, <3>1, QueuedHolds
  <2>4. CASE \E m \in Payload : broadcastMessage(p, m)
    <3>1. PICK m \in Payload : broadcastMessage(p, m)
      BY <2>4
    <3>2. pending'[p] \subseteq pending[p] \cup {OwnEntry(p, m)}
      BY <3>1 DEF TypeOK, broadcastMessage, Pushed
    <3>3. Packets(p, [orig |-> p, body |-> m], FALSE) \subseteq net'
      BY <3>1 DEF broadcastMessage
    <3> QED
      BY <1>2, <2>2, <3>2, <3>3
  <2>5. CASE \E c \in calls[p] : Relay(p, c)
    <3>1. PICK c \in calls[p] : Relay(p, c)
      BY <2>5
    <3>2. pending'[p] \subseteq pending[p] \cup {KeyOf(c.pkt)}
      BY <3>1 DEF TypeOK, Relay, Pushed
    <3>3. Packets(p, KeyOf(c.pkt), TRUE) \subseteq net'
      BY <3>1 DEF Relay
    <3> QED
      BY <1>2, <2>3, <3>2, <3>3
  <2>6. CASE \E m \in Payload : \E c \in calls[p] : RacyPush(p, m, c)
    <3>1. PICK m \in Payload, c \in calls[p] : RacyPush(p, m, c)
      BY <2>6
    <3>2. pending'[p] \subseteq pending[p] \cup {OwnEntry(p, m), KeyOf(c.pkt)}
      BY <3>1 DEF TypeOK, RacyPush, Pushed
    <3>3. /\ Packets(p, [orig |-> p, body |-> m], FALSE) \subseteq net'
          /\ Packets(p, KeyOf(c.pkt), TRUE) \subseteq net'
      BY <3>1 DEF RacyPush
    <3> QED
      BY <1>2, <2>2, <2>3, <3>2, <3>3
  <2> QED
    BY <2>1, <2>4, <2>5, <2>6
<1> QED
  BY <1>1, <1>2

THEOREM Invariance == Spec => []IInv
<1>1. Init => IInv
  BY TypeInit DEF Init, IInv, PacketsOK, SenderHolds, HeardOK, OneCopy, PendingHolds
<1>2. IInv /\ [Next]_vars => IInv'
  BY TypeStep, PacketsStep, SenderHoldsStep, HeardStep, OneCopyStep, PendingStep DEF IInv
<1> QED
  BY <1>1, <1>2, PTL DEF Spec

(* Every reachable state is well typed.                                     *)
THEOREM TypeCorrect == Spec => []TypeOK
<1>1. IInv => TypeOK
  BY DEF IInv
<1> QED
  BY <1>1, Invariance, PTL

-----------------------------------------------------------------------------
(* The quorum.                                                             *)

LEMMA HoldersFinite ==
  ASSUME NEW k
  PROVE  /\ IsFiniteSet(Holders(k))
         /\ Cardinality(Holders(k)) \in Nat
         /\ Cardinality(Proc) \in Nat
<1>1. Holders(k) \subseteq Proc
  BY DEF Holders
<1> QED
  BY <1>1, ProcAssumption, FS_Subset, FS_CardinalityType

(* The acknowledgments of a message map one to one to processes that hold   *)
(* it: a relay to its sender, the original to the process that counts it,   *)
(* unless a packet counts twice.                                            *)
LEMMA AcksAreHolders ==
  ASSUME IInv, NEW p \in Proc, NEW k \in pending[p], canDeliver(p, k), ~CountedTwice(p, k)
  PROVE  2 * Cardinality(Holders(k)) > Cardinality(Proc)
<1> DEFINE witness == [e \in AcksFor(p, k) |-> IF e.pkt.relay THEN e.pkt.from ELSE p]
<1>1. k \in Key
  BY SomeAck, KeyOfType DEF IInv, TypeOK, Entry
<1>2. p \in Holders(k)
  <2>1. k.orig # NoId
    BY <1>1, ProcAssumption DEF Key
  <2> QED
    BY <2>1 DEF IInv, PendingHolds, Holders
<1>3. ASSUME NEW e \in AcksFor(p, k)
      PROVE  /\ e.pkt \in Packet /\ e = [pkt |-> e.pkt, copy |-> e.copy]
             /\ e.pkt.to = p /\ e.pkt.from # p
             /\ e.pkt.orig = k.orig /\ e.pkt.body = k.body
             /\ e.pkt.relay \/ e.pkt.from = k.orig
             /\ e.pkt.from \in Holders(k)
  <2>1. e \in ack[p] /\ KeyOf(e.pkt) = k
    BY DEF AcksFor
  <2>2. e \in Entry /\ e.pkt \in net /\ e.pkt.to = p
    BY <2>1 DEF IInv, TypeOK, HeardOK
  <2>3. e.pkt \in Packet /\ e = [pkt |-> e.pkt, copy |-> e.copy]
    BY <2>2 DEF Entry
  <2>4. e.pkt.orig = k.orig /\ e.pkt.body = k.body
    BY <2>1 DEF KeyOf
  <2>5. Holds(e.pkt.from, k)
    BY <2>1, <2>2 DEF IInv, SenderHolds
  <2>6. e.pkt.from \in Holders(k)
    BY <2>3, <2>5 DEF Packet, Holders
  <2> QED
    BY <2>2, <2>3, <2>4, <2>6 DEF IInv, PacketsOK
<1>4. witness \in [AcksFor(p, k) -> Holders(k)]
  BY <1>2, <1>3
<1>5. ASSUME NEW e \in AcksFor(p, k), NEW f \in AcksFor(p, k), witness[e] = witness[f]
      PROVE  e = f
  <2>1. e.pkt.relay = f.pkt.relay
    BY <1>3, <1>5 DEF Packet
  <2>2. e.pkt.from = f.pkt.from
    BY <1>3, <1>5, <2>1
  <2>3. e.pkt = f.pkt
    BY <1>3, <2>1, <2>2 DEF Packet
  <2>4. e.copy = f.copy
    BY <2>3 DEF CountedTwice
  <2> QED
    BY <1>3, <2>3, <2>4
<1>6. witness \in Injection(AcksFor(p, k), Holders(k))
  BY <1>4, <1>5 DEF Injection, IsInjective
<1>7. /\ IsFiniteSet(AcksFor(p, k))
      /\ Cardinality(AcksFor(p, k)) <= Cardinality(Holders(k))
  BY <1>6, HoldersFinite, FS_Injection
<1>8. Cardinality(AcksFor(p, k)) \in Nat
  BY <1>7, FS_CardinalityType
<1> HIDE DEF witness
<1> QED
  BY <1>7, <1>8, HoldersFinite DEF canDeliver

LEMMA HoldersGrow ==
  ASSUME TypeOK, [Next]_vars, NEW k
  PROVE  Cardinality(Holders(k)) <= Cardinality(Holders(k)')
<1>1. Holders(k) \subseteq Holders(k)'
  BY NetStep, HoldsStable DEF Holders
<1>2. IsFiniteSet(Holders(k)')
  <2>1. Holders(k)' \subseteq Proc
    BY DEF Holders
  <2> QED
    BY <2>1, ProcAssumption, FS_Subset
<1> QED
  BY <1>1, <1>2, FS_Subset

LEMMA AcksGrow ==
  ASSUME TypeOK, [Next]_vars, NEW p \in Proc
  PROVE  ack[p] \subseteq ack'[p]
<1>1. ASSUME NEW q \in Proc, MainThread(q) \/ LinkThreads(q) \/ Poller(q) \/ Crash(q)
      PROVE  \/ UNCHANGED ack
             \/ \E c \in calls[q] : ack' = [ack EXCEPT ![q] = @ \cup {EntryOf(c)}]
  BY <1>1 DEF MainThread, LinkThreads, Upcalls, Poller, setBroadcastActive, broadcastMessage,
              HandUp, Record, InsertAck, RacyInsert, SkipKnown, Relay, RacyPush,
              deliverPending, Crash
<1>2. CASE UNCHANGED ack
  BY <1>2
<1>3. ASSUME NEW q \in Proc, NEW e, ack' = [ack EXCEPT ![q] = @ \cup {e}]
      PROVE  ack[p] \subseteq ack'[p]
  BY <1>3 DEF TypeOK
<1> QED
  BY <1>1, <1>2, <1>3 DEF Next, vars

(* Only deliverPending delivers.                                            *)
LEMMA DeliveredStep ==
  ASSUME TypeOK, [Next]_vars, NEW p \in Proc, NEW k \in delivered'[p], k \notin delivered[p]
  PROVE  deliverPending(p, k) /\ k \in pending[p]
<1>1. ASSUME NEW q \in Proc, MainThread(q) \/ LinkThreads(q) \/ Poller(q) \/ Crash(q)
      PROVE  UNCHANGED delivered \/ \E l \in pending[q] : deliverPending(q, l)
  BY <1>1 DEF MainThread, LinkThreads, Upcalls, Poller, setBroadcastActive, broadcastMessage,
              HandUp, Record, InsertAck, RacyInsert, SkipKnown, Relay, RacyPush, Crash
<1>2. PICK q \in Proc : \E l \in pending[q] : deliverPending(q, l)
  BY <1>1 DEF Next, vars
<1>3. PICK l \in pending[q] : deliverPending(q, l)
  BY <1>2
<1>4. delivered' = [delivered EXCEPT ![q] = @ \cup {l}]
  BY <1>3 DEF deliverPending
<1>5. q = p /\ l = k
  BY <1>4 DEF TypeOK
<1> QED
  BY <1>3, <1>5

(* What is counted stays counted.                                           *)
LEMMA CountedTwiceStable ==
  ASSUME IInv, [Next]_vars, NEW p \in Proc, NEW k, CountedTwice(p, k)
  PROVE  CountedTwice(p, k)'
<1>1. ack[p] \subseteq ack'[p]
  BY AcksGrow DEF IInv
<1> QED
  BY <1>1 DEF CountedTwice, AcksFor, KeyOf

(* Whatever is delivered is held by a majority, unless the deliverer counts *)
(* a packet twice: for every number of processes, every script, both        *)
(* overloads of broadcastMessage, with the data races on ack and pending,   *)
(* and whatever the duplicate filters let pass.                             *)
THEOREM MajorityHoldsCorrect == Spec => []MajorityHolds
<1>1. Init => MajorityHolds
  BY DEF Init, MajorityHolds
<1>2. IInv /\ MajorityHolds /\ [Next]_vars => MajorityHolds'
  <2> SUFFICES ASSUME IInv, MajorityHolds, [Next]_vars,
                      NEW p \in Proc, NEW k \in delivered'[p], ~CountedTwice(p, k)'
               PROVE  2 * Cardinality(Holders(k)') > Cardinality(Proc)
    BY DEF MajorityHolds
  <2>1. ~CountedTwice(p, k)
    BY CountedTwiceStable
  <2>2. 2 * Cardinality(Holders(k)) > Cardinality(Proc)
    <3>1. CASE k \in delivered[p]
      BY <2>1, <3>1 DEF MajorityHolds
    <3>2. CASE k \notin delivered[p]
      BY <2>1, <3>2, DeliveredStep, AcksAreHolders DEF IInv, deliverPending
    <3> QED
      BY <3>1, <3>2
  <2>3. Cardinality(Holders(k)) <= Cardinality(Holders(k)')
    BY HoldersGrow DEF IInv
  <2>4. Cardinality(Holders(k)') \in Nat
    <3>1. Holders(k)' \subseteq Proc
      BY DEF Holders
    <3> QED
      BY <3>1, ProcAssumption, FS_Subset, FS_CardinalityType
  <2> QED
    BY <2>2, <2>3, <2>4, HoldersFinite
<1> QED
  BY <1>1, <1>2, Invariance, PTL DEF Spec

-----------------------------------------------------------------------------
(* Crashes.                                                                *)

LEMMA CrashBoundCorrect == Spec => []CrashBound
<1>1. Init => CrashBound
  <2> SUFFICES ASSUME Init PROVE CrashBound
    OBVIOUS
  <2>1. {q \in Proc : ~alive[q]} = {}
    BY DEF Init
  <2> QED
    BY <2>1, FS_EmptySet, MinorityAssumption DEF CrashBound
<1>2. TypeOK /\ CrashBound /\ [Next]_vars => CrashBound'
  <2> SUFFICES ASSUME TypeOK, CrashBound, [Next]_vars PROVE CrashBound'
    OBVIOUS
  <2> DEFINE dead == {q \in Proc : ~alive[q]}
  <2>1. CASE alive' = alive
    BY <2>1 DEF CrashBound
  <2>2. ASSUME NEW p \in Proc, Crash(p) PROVE CrashBound'
    <3>1. dead' = dead \cup {p}
      BY <2>2 DEF TypeOK, Crash
    <3>2. IsFiniteSet(dead) /\ Cardinality(dead) \in Nat
      BY ProcAssumption, FS_Subset, FS_CardinalityType
    <3>3. Cardinality(dead) < MaxCrash /\ p \notin dead
      BY <2>2 DEF Crash
    <3>4. Cardinality(dead \cup {p}) = Cardinality(dead) + 1
      BY <3>2, <3>3, FS_AddElement
    <3> QED
      BY <3>1, <3>2, <3>3, <3>4, MinorityAssumption DEF CrashBound
  <2>3. ASSUME NEW p \in Proc, MainThread(p) \/ LinkThreads(p) \/ Poller(p)
        PROVE  alive' = alive
    BY <2>3 DEF MainThread, LinkThreads, Upcalls, Poller, setBroadcastActive, broadcastMessage,
                HandUp, Record, InsertAck, RacyInsert, SkipKnown, Relay, RacyPush, deliverPending
  <2> QED
    BY <2>1, <2>2, <2>3 DEF Next, vars
<1> QED
  BY <1>1, <1>2, TypeCorrect, PTL DEF Spec

(* No process that has delivered a message counts a packet of it twice.     *)
NothingCountedTwice == \A p \in Proc : \A k \in delivered[p] : ~CountedTwice(p, k)

(* A majority of holders cannot all be among a minority of crashed ones:    *)
(* whatever crashes, and whatever the filters let pass, a live process      *)
(* holds each message that was delivered as long as no deliverer has        *)
(* counted a packet twice.                                                  *)
THEOREM SurvivingHolderCorrect == Spec => [](NothingCountedTwice => SurvivingHolder)
<1>1. MajorityHolds /\ CrashBound => (NothingCountedTwice => SurvivingHolder)
  <2> SUFFICES ASSUME MajorityHolds, CrashBound, NothingCountedTwice,
                      NEW p \in Proc, NEW k \in delivered[p],
                      \A q \in Holders(k) : ~alive[q]
               PROVE  FALSE
    BY DEF SurvivingHolder
  <2> DEFINE dead == {q \in Proc : ~alive[q]}
  <2>1. Holders(k) \subseteq dead
    BY DEF Holders
  <2>2. IsFiniteSet(dead) /\ Cardinality(dead) \in Nat
    BY ProcAssumption, FS_Subset, FS_CardinalityType
  <2>3. Cardinality(Holders(k)) <= Cardinality(dead)
    BY <2>1, <2>2, FS_Subset
  <2>4. 2 * Cardinality(Holders(k)) > Cardinality(Proc)
    BY DEF MajorityHolds, NothingCountedTwice
  <2>5. Cardinality(dead) <= MaxCrash
    BY DEF CrashBound
  <2> HIDE DEF dead
  <2> QED
    BY <2>2, <2>3, <2>4, <2>5, HoldersFinite, MinorityAssumption
<1> QED
  BY <1>1, MajorityHoldsCorrect, CrashBoundCorrect, PTL

(* Filters that check and record in one step would see to it.               *)
COROLLARY AtomicFiltersSuffice ==
  ASSUME OncePerPacket
  PROVE  Spec => []SurvivingHolder
<1>1. IInv => NothingCountedTwice
  BY DEF IInv, OneCopy, NothingCountedTwice, CountedTwice, AcksFor
<1> QED
  BY <1>1, Invariance, SurvivingHolderCorrect, PTL

-----------------------------------------------------------------------------
(* What becomes of a packet once it was handed up, without the races: it is *)
(* on its way into ack or in it, and then its message is on its way into    *)
(* pending or in it.                                                        *)
Acknowledged(p, pkt) ==
    \/ \E e \in ack[p] : e.pkt = pkt
    \/ \E c \in calls[p] : c.pkt = pkt /\ c.step = "insert"

Filed(p, k) ==
    \/ k \in pending[p]
    \/ \E c \in calls[p] : KeyOf(c.pkt) = k /\ c.step = "find"

HandledAt(p) ==
    /\ ~torn[p]
    /\ IsFiniteSet(ack[p])
    /\ \A pkt \in seen[p] : Acknowledged(p, pkt)
    /\ \A e \in ack[p] : Filed(p, KeyOf(e.pkt))

Handled == ~Races => \A p \in Proc : HandledAt(p)

LEMMA HandledKept ==
  ASSUME NEW p \in Proc, HandledAt(p), torn'[p] = torn[p], ack'[p] = ack[p],
         seen'[p] = seen[p], calls'[p] = calls[p], pending[p] \subseteq pending'[p]
  PROVE  HandledAt(p)'
<1>1. \A pkt \in seen'[p] : Acknowledged(p, pkt)'
  BY DEF HandledAt, Acknowledged
<1>2. \A e \in ack'[p] : Filed(p, KeyOf(e.pkt))'
  BY DEF HandledAt, Filed, KeyOf
<1> QED
  BY <1>1, <1>2 DEF HandledAt, KeyOf

LEMMA HandledStep ==
  ASSUME TypeOK, Handled, [Next]_vars
  PROVE  Handled'
<1> SUFFICES ASSUME ~Races, NEW p \in Proc, HandledAt(p) PROVE HandledAt(p)'
  BY DEF Handled
<1>1. CASE UNCHANGED vars
  BY <1>1, HandledKept DEF vars
<1>2. ASSUME NEW q \in Proc, setBroadcastActive(q) \/ Crash(q) \/ \E k \in pending[q] : deliverPending(q, k)
      PROVE  HandledAt(p)'
  BY <1>2, HandledKept DEF setBroadcastActive, Crash, deliverPending
<1>3. ASSUME NEW q \in Proc, NEW m \in Payload, broadcastMessage(q, m) PROVE HandledAt(p)'
  <2>1. pending[p] \subseteq pending'[p]
    BY <1>3 DEF TypeOK, broadcastMessage, Pushed
  <2> QED
    BY <1>3, <2>1, HandledKept DEF broadcastMessage
<1>4. ASSUME NEW q \in Proc, NEW pkt \in net, HandUp(q, pkt) PROVE HandledAt(p)'
  <2>1. CASE p # q
    BY <1>4, <2>1, HandledKept DEF TypeOK, HandUp
  <2>2. CASE p = q
    <3>1. calls'[p] = calls[p] \cup {NewCall(p, pkt)}
      BY <1>4, <2>2 DEF TypeOK, HandUp
    <3>2. NewCall(p, pkt).pkt = pkt /\ (OncePerPacket => NewCall(p, pkt).step = "insert")
      BY DEF NewCall
    <3>3. seen'[p] = IF OncePerPacket THEN seen[p] \cup {pkt} ELSE seen[p]
      BY <1>4, <2>2 DEF TypeOK, HandUp
    <3>4. ack' = ack /\ pending' = pending /\ torn' = torn
      BY <1>4 DEF HandUp
    <3>5. \A pk \in seen'[p] : Acknowledged(p, pk)'
      BY <3>1, <3>2, <3>3, <3>4 DEF HandledAt, Acknowledged
    <3>6. \A e \in ack'[p] : Filed(p, KeyOf(e.pkt))'
      BY <3>1, <3>4 DEF HandledAt, Filed, KeyOf
    <3> QED
      BY <3>4, <3>5, <3>6 DEF HandledAt, KeyOf
  <2> QED
    BY <2>1, <2>2
<1>5. ASSUME NEW q \in Proc, NEW c \in calls[q], Record(q, c) PROVE HandledAt(p)'
  <2>1. CASE p # q
    BY <1>5, <2>1, HandledKept DEF TypeOK, Record
  <2>2. CASE p = q
    <3>1. calls'[p] = (calls[p] \ {c}) \cup {At(c, "insert")} /\ c.step = "filter"
      BY <1>5, <2>2 DEF TypeOK, Record
    <3>2. At(c, "insert").pkt = c.pkt /\ At(c, "insert").step = "insert"
      BY <2>2 DEF TypeOK, Call, At
    <3>3. seen'[p] = seen[p] \cup {c.pkt}
      BY <1>5, <2>2 DEF TypeOK, Record
    <3>4. ack' = ack /\ pending' = pending /\ torn' = torn
      BY <1>5 DEF Record
    <3>5. \A pk \in seen'[p] : Acknowledged(p, pk)'
      BY <3>1, <3>2, <3>3, <3>4 DEF HandledAt, Acknowledged
    <3>6. \A e \in ack'[p] : Filed(p, KeyOf(e.pkt))'
      BY <3>1, <3>4 DEF HandledAt, Filed, KeyOf
    <3> QED
      BY <3>4, <3>5, <3>6 DEF HandledAt, KeyOf
  <2> QED
    BY <2>1, <2>2
<1>6. ASSUME NEW q \in Proc, NEW c \in calls[q], InsertAck(q, c) PROVE HandledAt(p)'
  <2>1. CASE p # q
    BY <1>6, <2>1, HandledKept DEF TypeOK, InsertAck
  <2>2. CASE p = q
    <3>1. calls'[p] = (calls[p] \ {c}) \cup {At(c, "find")} /\ c.step = "insert"
      BY <1>6, <2>2 DEF TypeOK, InsertAck
    <3>2. At(c, "find").pkt = c.pkt /\ At(c, "find").step = "find" /\ EntryOf(c).pkt = c.pkt
      BY <2>2 DEF TypeOK, Call, At, EntryOf
    <3>3. ack'[p] = ack[p] \cup {EntryOf(c)}
      BY <1>6, <2>2 DEF TypeOK, InsertAck
    <3>4. seen' = seen /\ pending' = pending /\ torn' = torn
      BY <1>6 DEF InsertAck
    <3>5. \A pk \in seen'[p] : Acknowledged(p, pk)'
      BY <3>1, <3>2, <3>3, <3>4 DEF HandledAt, Acknowledged
    <3>6. \A e \in ack'[p] : Filed(p, KeyOf(e.pkt))'
      BY <3>1, <3>2, <3>3, <3>4 DEF HandledAt, Filed, KeyOf
    <3>7. IsFiniteSet(ack'[p])
      BY <3>3, FS_AddElement DEF HandledAt
    <3> QED
      BY <3>4, <3>5, <3>6, <3>7 DEF HandledAt, KeyOf
  <2> QED
    BY <2>1, <2>2
<1>7. ASSUME NEW q \in Proc, NEW c \in calls[q], SkipKnown(q, c) \/ Relay(q, c)
      PROVE  HandledAt(p)'
  <2>1. CASE p # q
    BY <1>7, <2>1, HandledKept DEF TypeOK, SkipKnown, Relay
  <2>2. CASE p = q
    <3>1. calls'[p] = calls[p] \ {c} /\ c.step = "find"
      BY <1>7, <2>2 DEF TypeOK, SkipKnown, Relay
    <3>2. pending[p] \subseteq pending'[p] /\ KeyOf(c.pkt) \in pending'[p]
      <4>1. CASE SkipKnown(q, c)
        BY <2>2, <4>1 DEF SkipKnown
      <4>2. CASE Relay(q, c)
        <5>1. pending' = [pending EXCEPT ![p] = pending[p] \cup {KeyOf(c.pkt)}]
          BY <2>2, <4>2 DEF Relay, Pushed, HandledAt
        <5> QED
          BY <5>1 DEF TypeOK
      <4> QED
        BY <1>7, <4>1, <4>2
    <3>3. seen' = seen /\ ack' = ack /\ torn' = torn
      BY <1>7 DEF SkipKnown, Relay
    <3>4. \A pk \in seen'[p] : Acknowledged(p, pk)'
      BY <3>1, <3>3 DEF HandledAt, Acknowledged
    <3>5. \A e \in ack'[p] : Filed(p, KeyOf(e.pkt))'
      BY <3>1, <3>2, <3>3 DEF HandledAt, Filed, KeyOf
    <3> QED
      BY <3>3, <3>4, <3>5 DEF HandledAt, KeyOf
  <2> QED
    BY <2>1, <2>2
<1> QED
  BY <1>1, <1>2, <1>3, <1>4, <1>5, <1>6, <1>7
  DEF Next, MainThread, LinkThreads, Upcalls, Poller, RacyInsert, RacyPush

LEMMA HandledCorrect == Spec => []Handled
<1>1. Init => Handled
  BY FS_EmptySet DEF Init, Handled, HandledAt
<1>2. TypeOK /\ Handled /\ [Next]_vars => Handled'
  BY HandledStep
<1> QED
  BY <1>1, <1>2, TypeCorrect, PTL DEF Spec

(* Among quiet live processes, what one holds every other has acknowledged  *)
(* to it, filed and relayed.                                                *)
LEMMA ReachesOthers ==
  ASSUME IInv, Handled, ~Races, Quiet, NEW k \in Key,
         NEW q \in Proc, alive[q], Holds(q, k), NEW p \in Proc \ {q}, alive[p]
  PROVE  /\ k \in pending[p]
         /\ Holds(p, k)
         /\ \E e \in AcksFor(p, k) : e.pkt.from = q
<1>1. PICK pkt \in net : pkt.from = q /\ pkt.to = p /\ KeyOf(pkt) = k
  BY DEF Holds
<1>2. pkt \in seen[p] /\ calls[p] = {}
  BY <1>1 DEF Quiet
<1>3. PICK e \in ack[p] : e.pkt = pkt
  BY <1>2 DEF Handled, HandledAt, Acknowledged
<1>4. k \in pending[p]
  BY <1>1, <1>2, <1>3 DEF Handled, HandledAt, Filed
<1>5. k.orig # NoId
  BY ProcAssumption DEF Key
<1>6. Holds(p, k)
  BY <1>4, <1>5 DEF IInv, PendingHolds
<1> QED
  BY <1>1, <1>3, <1>4, <1>6 DEF AcksFor

(* With an acknowledgment of each other live process, an entry counts one   *)
(* less than there are live processes.                                      *)
LEMMA AckOfEach ==
  ASSUME NEW A, A \subseteq Proc, NEW p \in A, NEW k, IsFiniteSet(ack[p]),
         \A q \in A \ {p} : \E e \in AcksFor(p, k) : e.pkt.from = q
  PROVE  /\ Cardinality(A) \in Nat /\ Cardinality(AcksFor(p, k)) \in Nat
         /\ Cardinality(A) - 1 <= Cardinality(AcksFor(p, k))
<1> DEFINE S == A \ {p}
           T == AcksFor(p, k)
           f == [q \in S |-> CHOOSE e \in T : e.pkt.from = q]
<1>1. IsFiniteSet(A) /\ IsFiniteSet(T)
  BY ProcAssumption, FS_Subset DEF AcksFor
<1>2. Cardinality(A) \in Nat /\ Cardinality(T) \in Nat
  BY <1>1, FS_CardinalityType
<1>3. Cardinality(S) = Cardinality(A) - 1
  BY <1>1, FS_RemoveElement
<1>4. \A q \in S : f[q] \in T /\ f[q].pkt.from = q
  OBVIOUS
<1>5. f \in [S -> T]
  BY <1>4
<1> HIDE DEF f, S, T
<1>6. f \in Injection(S, T)
  BY <1>4, <1>5 DEF Injection, IsInjective
<1>7. Cardinality(S) <= Cardinality(T)
  BY <1>1, <1>6, FS_Injection
<1> QED
  BY <1>2, <1>3, <1>7 DEF T

(* Without the races, a message held by a live process can be delivered by  *)
(* every live process once their links are quiet, if enough of them live,   *)
(* for every number of processes, every script, both overloads of           *)
(* broadcastMessage, and atomic duplicate filters or not.                   *)
THEOREM QuietDeliversCorrect == Spec => []QuietDelivers
<1>1. IInv /\ Handled => QuietDelivers
  <2> SUFFICES ASSUME IInv, Handled, ~Races, Quiet,
                      Cardinality({q \in Proc : alive[q]}) > Cardinality(Proc) \div 2 + 1,
                      NEW q \in Proc, NEW k \in Key, alive[q], Holds(q, k),
                      NEW p \in Proc, alive[p]
               PROVE  k \in pending[p] /\ canDeliver(p, k)
    BY DEF QuietDelivers
  <2> DEFINE A == {r \in Proc : alive[r]}
  <2>1. IsFiniteSet(A) /\ Cardinality(Proc) \in Nat
    BY ProcAssumption, FS_Subset, FS_CardinalityType
  <2>2. \A r \in A : \E o \in A : o # r
    <3> SUFFICES ASSUME NEW r \in A, A \ {r} = {} PROVE FALSE
      OBVIOUS
    <3>1. Cardinality(A \ {r}) = Cardinality(A) - 1
      BY <2>1, FS_RemoveElement
    <3>2. Cardinality(A) \in Nat
      BY <2>1, FS_CardinalityType
    <3>3. Cardinality(A \ {r}) = 0
      BY FS_EmptySet
    <3>4. Cardinality(Proc) \div 2 >= 0
      BY <2>1
    <3>5. Cardinality(A) > Cardinality(Proc) \div 2 + 1
      OBVIOUS
    <3> HIDE DEF A
    <3> QED
      BY <2>1, <3>1, <3>2, <3>3, <3>4, <3>5
  <2>3. \A r \in A \ {q} : Holds(r, k)
    BY ReachesOthers
  <2>4. \A r \in A : Holds(r, k)
    BY <2>3
  <2>5. k \in pending[p]
    <3>1. PICK r \in A : r # p
      BY <2>2
    <3> QED
      BY <2>4, <3>1, ReachesOthers
  <2>6. \A r \in A \ {p} : \E e \in AcksFor(p, k) : e.pkt.from = r
    BY <2>4, ReachesOthers
  <2>7. IsFiniteSet(ack[p])
    BY DEF Handled, HandledAt
  <2>8. /\ Cardinality(A) \in Nat /\ Cardinality(AcksFor(p, k)) \in Nat
        /\ Cardinality(A) - 1 <= Cardinality(AcksFor(p, k))
    <3>1. A \subseteq Proc /\ p \in A
      OBVIOUS
    <3> HIDE DEF A
    <3> QED
      BY <2>6, <2>7, <3>1, AckOfEach
  <2>9. Cardinality(Proc) \div 2 \in Nat
    BY <2>1
  <2>10. Cardinality(AcksFor(p, k)) > Cardinality(Proc) \div 2
    <3>1. Cardinality(A) > Cardinality(Proc) \div 2 + 1
      OBVIOUS
    <3> HIDE DEF A
    <3> QED
      BY <2>8, <2>9, <3>1
  <2> QED
    BY <2>5, <2>10 DEF canDeliver
<1> QED
  BY <1>1, Invariance, HandledCorrect, PTL

-----------------------------------------------------------------------------
(* The layer implements its contract.  This needs neither atomic filters    *)
(* nor the absence of races: what they put at risk is who holds a message,  *)
(* never that it was sent or that it is handed up once.                     *)
THEOREM ContractRefined == Spec => ContractSpec
<1>1. Init => Contract!Init
  BY DEF Init, Contract!Init
<1>2. IInv /\ [Next]_vars => [Contract!Next]_(Contract!vars)
  <2> SUFFICES ASSUME IInv, [Next]_vars
               PROVE  Contract!Next \/ UNCHANGED <<alive, sent, delivered>>
    BY DEF Contract!vars
  <2>1. CASE UNCHANGED vars
    BY <2>1 DEF vars
  <2>2. ASSUME NEW p \in Proc, NEW m \in Payload,
               broadcastMessage(p, m) \/ \E c \in calls[p] : RacyPush(p, m, c)
        PROVE  Contract!Next
    <3>1. Contract!Broadcast(p, m)
      BY <2>2 DEF broadcastMessage, RacyPush, Contract!Broadcast
    <3> QED
      BY <3>1 DEF Contract!Next
  <2>3. ASSUME NEW p \in Proc, NEW k \in pending[p], deliverPending(p, k)
        PROVE  Contract!Next
    <3>1. PICK e \in ack[p] : KeyOf(e.pkt) = k
      BY <2>3, SomeAck DEF deliverPending
    <3>2. e.pkt \in net /\ e.pkt \in Packet
      BY <3>1 DEF IInv, TypeOK, Entry, HeardOK
    <3>3. k \in Contract!Key /\ k.body \in sent[k.orig]
      BY <3>1, <3>2, KeyOfType DEF IInv, PacketsOK, KeyOf, Key, Contract!Key
    <3>4. Contract!Deliver(p, k)
      BY <2>3, <3>3 DEF deliverPending, Contract!Deliver
    <3> QED
      BY <3>3, <3>4 DEF Contract!Next
  <2>4. ASSUME NEW p \in Proc, Crash(p)
        PROVE  Contract!Next
    <3>1. Contract!Crash(p)
      BY <2>4 DEF Crash, Contract!Crash
    <3> QED
      BY <3>1 DEF Contract!Next
  <2>5. ASSUME NEW p \in Proc, NEW c \in calls[p],
               Record(p, c) \/ InsertAck(p, c) \/ SkipKnown(p, c) \/ Relay(p, c)
                 \/ \E d \in calls[p] : RacyInsert(p, c, d)
        PROVE  UNCHANGED <<alive, sent, delivered>>
    BY <2>5 DEF Record, InsertAck, SkipKnown, Relay, RacyInsert
  <2>6. ASSUME NEW p \in Proc, setBroadcastActive(p) \/ \E pkt \in net : HandUp(p, pkt)
        PROVE  UNCHANGED <<alive, sent, delivered>>
    BY <2>6 DEF setBroadcastActive, HandUp
  <2> QED
    BY <2>1, <2>2, <2>3, <2>4, <2>5, <2>6 DEF Next, MainThread, LinkThreads, Upcalls, Poller
<1> QED
  BY <1>1, <1>2, Invariance, PTL DEF Spec, ContractSpec, Contract!Spec

=============================================================================
