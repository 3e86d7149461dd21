-------------------------------- MODULE Urb --------------------------------
(***************************************************************************)
(* UniformReliableBroadcast (src/broadcast/urb.cpp) over best-effort       *)
(* broadcast and the perfect links, at the grain of its threads: per       *)
(* process the main thread, one delivery thread per link (each runs        *)
(* deliver as an upcall) and the layer's own polling thread.               *)
(*                                                                         *)
(* deliver counts, per message, the processes it heard the message from,   *)
(* relays a message it sees for the first time, and the polling thread     *)
(* hands up what more than half of the processes acknowledged.             *)
(*                                                                         *)
(* The links are used by their contract (Links.tla checks it): what a      *)
(* process queues on a link stays queued and may be handed to the receiver *)
(* at any later time; a link thread hands a packet up at most once.        *)
(***************************************************************************)
EXTENDS Naturals, FiniteSets

CONSTANTS
    Proc,            \* the processes of the hosts file
    Payload,         \* the messages of the layer above
    Script,          \* Script[p]: the messages p is going to broadcast
    NoId,            \* stands for the missing id of an entry without one
    MaxCrash,        \* how many processes may crash
    AddId,           \* the messages broadcast through the overload that puts
                     \*   the id before the entry (fifo.cpp:27, lcb.cpp:62), not
                     \*   the one main's LCB calls (lcb.cpp:92, fifo.cpp:43)
    OncePerPacket,   \* is checking and filling the duplicate filters one step?
                     \*   FALSE: the code, whose mutexes are per link
    Races,           \* the unsynchronised writes to ack and pending interfere
    Hoisted          \* the compiler reads active once, before the polling loop

ASSUME ScriptAssumption == Script \in [Proc -> SUBSET Payload]
ASSUME ProcAssumption == IsFiniteSet(Proc) /\ NoId \notin Proc
ASSUME SwitchAssumption ==
    AddId \subseteq Payload /\ OncePerPacket \in BOOLEAN /\ Races \in BOOLEAN /\ Hoisted \in BOOLEAN

(* README: "at most a minority processes may crash in one execution".       *)
ASSUME MinorityAssumption == MaxCrash \in Nat /\ 2 * MaxCrash < Cardinality(Proc)

VARIABLES
    alive,      \* alive[p]: p has not crashed
    poller,     \* poller[p]: "off" until setBroadcastActive, then the state of
                \*   the polling thread, "polling" or "stuck"
    sent,       \* sent[p]: the messages p has broadcast
    net,        \* every packet ever queued on a link, with its receiver
    seen,       \* seen[p]: the packets recorded in the duplicate filters
    calls,      \* calls[p]: what the link threads of p are in the middle of
    ack,        \* ack[p]: the multimap, an entry per packet and copy of it
    pending,    \* pending[p]: the entries the polling thread can reach
    torn,       \* torn[p]: the list's tail is off the chain its head reaches
    delivered   \* delivered[p]: the keys marked delivered and handed up

vars == <<alive, poller, sent, net, seen, calls, ack, pending, torn, delivered>>

-----------------------------------------------------------------------------
(* Data.                                                                   *)

Key == [orig : Proc, body : Payload]

(* What pending holds: a key, or a message without the id before it.        *)
PendingEntry == [orig : Proc \cup {NoId}, body : Payload]

(* A packet of a link; relay is the 'r' that marks a relayed message.       *)
Packet == [from : Proc, to : Proc, orig : Proc, body : Payload, relay : BOOLEAN]

(* An upcall and the entry it leaves in ack.  Several link threads can be   *)
(* handed copies of one packet: copy tells them apart.                      *)
Entry == [pkt : Packet, copy : Nat \ {0}]

Call == [pkt : Packet, copy : Nat \ {0}, step : {"filter", "insert", "find"}]

(* Fault: a relayed message is filed under the process that relayed it.     *)
KeyOfRelayer(pkt) == [orig |-> pkt.from, body |-> pkt.body]

(* sender_message: the name under which deliver files a packet.             *)
KeyOf(pkt) == [orig |-> pkt.orig, body |-> pkt.body]

(* Fault: a relay is not sent back to the originator.                       *)
PacketsButOriginator(p, k, relay) ==
    {[from |-> p, to |-> q, orig |-> k.orig, body |-> k.body, relay |-> relay] :
        q \in Proc \ {p, k.orig}}

(* What beb->broadcastMessage queues: one packet per link, none to itself.  *)
(* The loop over the links is one step here.  A packet may arrive at any    *)
(* later time, and one of a crashed sender never, so that what the others   *)
(* see of a loop under way, or cut short by a crash, they also see of this  *)
(* step.                                                                    *)
Packets(p, k, relay) ==
    {[from |-> p, to |-> q, orig |-> k.orig, body |-> k.body, relay |-> relay] :
        q \in Proc \ {p}}

(* ack.count(k) at p.                                                       *)
AcksFor(p, k) == {e \in ack[p] : KeyOf(e.pkt) = k}

(* Fault: an entry is delivered without counting its acknowledgments.       *)
canDeliverAlways(p, k) == TRUE

canDeliver(p, k) == Cardinality(AcksFor(p, k)) > Cardinality(Proc) \div 2

(* A push_back under pending_mutex: lost to view once the tail is torn off. *)
Pushed(p, entry) == IF torn[p] THEN pending[p] ELSE pending[p] \cup {entry}

-----------------------------------------------------------------------------
TypeOK ==
    /\ alive \in [Proc -> BOOLEAN]
    /\ poller \in [Proc -> {"off", "polling", "stuck"}]
    /\ sent \in [Proc -> SUBSET Payload]
    /\ net \subseteq Packet
    /\ seen \in [Proc -> SUBSET Packet]
    /\ calls \in [Proc -> SUBSET Call]
    /\ \A p \in Proc : IsFiniteSet(calls[p])
    /\ ack \in [Proc -> SUBSET Entry]
    /\ pending \in [Proc -> SUBSET PendingEntry]
    /\ torn \in [Proc -> BOOLEAN]
    /\ delivered \in [Proc -> SUBSET Key]

Init ==
    /\ alive = [p \in Proc |-> TRUE]
    /\ poller = [p \in Proc |-> "off"]
    /\ sent = [p \in Proc |-> {}]
    /\ net = {}
    /\ seen = [p \in Proc |-> {}]
    /\ calls = [p \in Proc |-> {}]
    /\ ack = [p \in Proc |-> {}]
    /\ pending = [p \in Proc |-> {}]
    /\ torn = [p \in Proc |-> FALSE]
    /\ delivered = [p \in Proc |-> {}]

-----------------------------------------------------------------------------
(* The main thread.                                                        *)

(* setBroadcastActive: sets active here and in BEB and opens the links.     *)
(* Until then the polling thread may have read active, a member no          *)
(* constructor sets, as FALSE: a build that hoists that read out of the     *)
(* loop leaves the thread spinning for good.                                *)
setBroadcastActive(p) ==
    /\ alive[p]
    /\ poller[p] = "off"
    /\ \E next \in {"polling"} \cup (IF Hoisted THEN {"stuck"} ELSE {}) :
        poller' = [poller EXCEPT ![p] = next]
    /\ UNCHANGED <<alive, sent, net, seen, calls, ack, pending, torn, delivered>>

(* The entry broadcastMessage pushes: with the process id before the        *)
(* message when it adds it, the bare message otherwise.                     *)
OwnEntry(p, m) == [orig |-> IF m \in AddId THEN p ELSE NoId, body |-> m]

(* main activates the layers first; the startBroadcast of URB and of Fifo   *)
(* queue everything first and activate the layers afterwards.               *)
broadcastMessage(p, m) ==
    /\ alive[p]
    /\ m \in Script[p] \ sent[p]
    /\ sent' = [sent EXCEPT ![p] = @ \cup {m}]
    /\ pending' = [pending EXCEPT ![p] = Pushed(p, OwnEntry(p, m))]
    /\ net' = net \cup Packets(p, [orig |-> p, body |-> m], FALSE)
    /\ UNCHANGED <<alive, poller, seen, calls, ack, torn, delivered>>

-----------------------------------------------------------------------------
(* The delivery threads of the links.  They share the socket, so that any   *)
(* of them may be handed a packet of any sender, and there is one per peer. *)

ThreadFree(p) == Cardinality(calls[p]) < Cardinality(Proc) - 1

NewCall(p, pkt) ==
    [pkt  |-> pkt,
     copy |-> Cardinality({c \in calls[p] : c.pkt = pkt}) + 1,
     step |-> IF OncePerPacket THEN "insert" ELSE "filter"]

(* A link thread reads a packet that the filters of Receiver and BEB do not *)
(* hold.  While the packet is not recorded, more threads may read copies.   *)
(* Packets leave, and are read, once setBroadcastActive has opened the links.*)
HandUp(p, pkt) ==
    /\ alive[p]
    /\ poller[p] # "off"
    /\ poller[pkt.from] # "off"
    /\ pkt.to = p
    /\ ThreadFree(p)
    /\ pkt \notin seen[p]
    /\ calls' = [calls EXCEPT ![p] = @ \cup {NewCall(p, pkt)}]
    /\ seen' = [seen EXCEPT ![p] = IF OncePerPacket THEN @ \cup {pkt} ELSE @]
    /\ UNCHANGED <<alive, poller, sent, net, ack, pending, torn, delivered>>

EntryOf(c) == [pkt |-> c.pkt, copy |-> c.copy]

At(c, step) == [c EXCEPT !.step = step]

(* The thread records the packet in the filters and enters deliver.         *)
Record(p, c) ==
    /\ alive[p]
    /\ c.step = "filter"
    /\ seen' = [seen EXCEPT ![p] = @ \cup {c.pkt}]
    /\ calls' = [calls EXCEPT ![p] = (@ \ {c}) \cup {At(c, "insert")}]
    /\ UNCHANGED <<alive, poller, sent, net, ack, pending, torn, delivered>>

(* ack.insert, on its own.                                                  *)
InsertAck(p, c) ==
    /\ alive[p]
    /\ c.step = "insert"
    /\ ack' = [ack EXCEPT ![p] = @ \cup {EntryOf(c)}]
    /\ calls' = [calls EXCEPT ![p] = (@ \ {c}) \cup {At(c, "find")}]
    /\ UNCHANGED <<alive, poller, sent, net, seen, pending, torn, delivered>>

(* Two link threads insert into the tree at once and hang their nodes on    *)
(* the same place: the first node is lost.                                  *)
RacyInsert(p, c, d) ==
    /\ Races
    /\ alive[p]
    /\ c # d
    /\ c.step = "insert"
    /\ d.step = "insert"
    /\ ack' = [ack EXCEPT ![p] = @ \cup {EntryOf(d)}]
    /\ calls' = [calls EXCEPT ![p] = (@ \ {c, d}) \cup {At(c, "find"), At(d, "find")}]
    /\ UNCHANGED <<alive, poller, sent, net, seen, pending, torn, delivered>>

(* Under pending_mutex: the message is known and nothing happens.           *)
SkipKnown(p, c) ==
    /\ alive[p]
    /\ c.step = "find"
    /\ KeyOf(c.pkt) \in pending[p]
    /\ calls' = [calls EXCEPT ![p] = @ \ {c}]
    /\ UNCHANGED <<alive, poller, sent, net, seen, ack, pending, torn, delivered>>

(* Fault: only originals are relayed, what is itself a relay is just filed. *)
RelayOriginals(p, c) ==
    /\ alive[p]
    /\ c.step = "find"
    /\ KeyOf(c.pkt) \notin pending[p]
    /\ pending' = [pending EXCEPT ![p] = Pushed(p, KeyOf(c.pkt))]
    /\ net' = IF c.pkt.relay THEN net ELSE net \cup Packets(p, KeyOf(c.pkt), TRUE)
    /\ calls' = [calls EXCEPT ![p] = @ \ {c}]
    /\ UNCHANGED <<alive, poller, sent, seen, ack, torn, delivered>>

(* Under pending_mutex: the message is new, it is filed and relayed.        *)
Relay(p, c) ==
    /\ alive[p]
    /\ c.step = "find"
    /\ KeyOf(c.pkt) \notin pending[p]
    /\ pending' = [pending EXCEPT ![p] = Pushed(p, KeyOf(c.pkt))]
    /\ net' = net \cup Packets(p, KeyOf(c.pkt), TRUE)
    /\ calls' = [calls EXCEPT ![p] = @ \ {c}]
    /\ UNCHANGED <<alive, poller, sent, seen, ack, torn, delivered>>

(* The main thread's push_back takes no mutex and overlaps the one of a     *)
(* link thread: one of the two nodes stays on the chain, and the tail may   *)
(* be left pointing at the other.  Both threads then send.                  *)
RacyPush(p, m, c) ==
    /\ Races
    /\ alive[p]
    /\ poller[p] # "off"
    /\ m \in Script[p] \ sent[p]
    /\ c.step = "find"
    /\ KeyOf(c.pkt) \notin pending[p]
    /\ \E winner \in {OwnEntry(p, m), KeyOf(c.pkt)}, off \in BOOLEAN :
        /\ pending' = [pending EXCEPT ![p] = Pushed(p, winner)]
        /\ torn' = [torn EXCEPT ![p] = @ \/ off]
    /\ sent' = [sent EXCEPT ![p] = @ \cup {m}]
    /\ net' = net \cup Packets(p, [orig |-> p, body |-> m], FALSE)
                  \cup Packets(p, KeyOf(c.pkt), TRUE)
    /\ calls' = [calls EXCEPT ![p] = @ \ {c}]
    /\ UNCHANGED <<alive, poller, seen, ack, delivered>>

-----------------------------------------------------------------------------
(* The polling thread.                                                     *)

(* deliverPending reaches the entry k of the list, under pending_mutex.     *)
deliverPending(p, k) ==
    /\ alive[p]
    /\ poller[p] = "polling"
    /\ k \in pending[p]
    /\ k \notin delivered[p]
    /\ canDeliver(p, k)
    /\ delivered' = [delivered EXCEPT ![p] = @ \cup {k}]
    /\ UNCHANGED <<alive, poller, sent, net, seen, calls, ack, pending, torn>>

-----------------------------------------------------------------------------
(* A process stops for good; what its links had queued may still arrive.    *)
Crash(p) ==
    /\ alive[p]
    /\ Cardinality({q \in Proc : ~alive[q]}) < MaxCrash
    /\ alive' = [alive EXCEPT ![p] = FALSE]
    /\ UNCHANGED <<poller, sent, net, seen, calls, ack, pending, torn, delivered>>

Upcalls(p) ==
    \E c \in calls[p] : Record(p, c) \/ InsertAck(p, c) \/ SkipKnown(p, c) \/ Relay(p, c)

MainThread(p) ==
    \/ setBroadcastActive(p)
    \/ \E m \in Payload : broadcastMessage(p, m)

LinkThreads(p) ==
    \/ \E pkt \in net : HandUp(p, pkt)
    \/ Upcalls(p)
    \/ \E c, d \in calls[p] : RacyInsert(p, c, d)
    \/ \E m \in Payload : \E c \in calls[p] : RacyPush(p, m, c)

Poller(p) == \E k \in pending[p] : deliverPending(p, k)

Next == \E p \in Proc : MainThread(p) \/ LinkThreads(p) \/ Poller(p) \/ Crash(p)

Spec == Init /\ [][Next]_vars

-----------------------------------------------------------------------------
(* Scheduling: the threads of a live process keep running, and a link of a  *)
(* live sender retransmits until its packet was handed up.  Nothing makes a *)
(* crashed sender's packet arrive.  A process takes finitely many steps, so *)
(* that weak fairness of all its threads together gives each one its turn.  *)
Retransmitted(p) == \E pkt \in net : alive[pkt.from] /\ HandUp(p, pkt)

Running(p) == MainThread(p) \/ Upcalls(p) \/ Retransmitted(p) \/ Poller(p)

Fairness == \A p \in Proc : WF_vars(Running(p))

FairSpec == Spec /\ Fairness

-----------------------------------------------------------------------------
(* Properties.                                                             *)

(* q has queued the message k, its own or relayed, on every link it has (or *)
(* is in the loop that does: see Packets).                                  *)
Holds(q, k) ==
    \A r \in Proc \ {q} : \E pkt \in net : pkt.from = q /\ pkt.to = r /\ KeyOf(pkt) = k

Holders(k) == {q \in Proc : Holds(q, k)}

(* Threads of p were handed copies of one packet, and it counts twice in p. *)
CountedTwice(p, k) == \E e, f \in AcksFor(p, k) : e.pkt = f.pkt /\ e.copy # f.copy

(* The quorum behind canDeliver: when a process delivers, a majority of the *)
(* processes have queued the message on all of their links, although the    *)
(* deliverer never acknowledges to itself and an originator that does not   *)
(* find its own message pending relays it and is counted a second time.     *)
(* Only a packet that the filters let pass twice breaks it.                 *)
MajorityHolds ==
    \A p \in Proc : \A k \in delivered[p] :
        CountedTwice(p, k) \/ 2 * Cardinality(Holders(k)) > Cardinality(Proc)

(* Uniformity: while no more than a minority has crashed, a message that    *)
(* anyone has delivered, even a process that crashed right after, is held   *)
(* by a live process whose links go on retransmitting it.                   *)
SurvivingHolder ==
    \A p \in Proc : \A k \in delivered[p] : \E q \in Holders(k) : alive[q]

(* Nothing is left to do among the live: every packet of theirs was handed  *)
(* up, and no link thread is in the middle of a call.                       *)
Quiet ==
    \A p \in Proc : alive[p] =>
        /\ calls[p] = {}
        /\ \A pkt \in net : pkt.to = p /\ alive[pkt.from] => pkt \in seen[p]

(* No live process is left behind: once the links of the live are quiet and *)
(* two more of them than half of the processes (rounded down) are left, for *)
(* no process counts an acknowledgment of its own, a message that any live  *)
(* process holds is on file and deliverable at all of them.  A message may  *)
(* have come through any relays, in any order, and found the process it     *)
(* reaches with or without an entry of its own for it.                      *)
QuietDelivers ==
    ~Races /\ Quiet /\ Cardinality({q \in Proc : alive[q]}) > Cardinality(Proc) \div 2 + 1 =>
        \A q \in Proc, k \in Key : alive[q] /\ Holds(q, k) =>
            \A p \in Proc : alive[p] => k \in pending[p] /\ canDeliver(p, k)

Contract == INSTANCE UrbContract

(* The layer does what UrbContract promises: a message is handed up at most *)
(* once, by a live process, and only if its originator broadcast it, however *)
(* many relays it came through.                                             *)
ContractSpec == Contract!Spec

(* Validity and uniform agreement, as UrbContract states them.              *)
Validity == Contract!Validity
UniformAgreement == Contract!UniformAgreement

=============================================================================
