-------------------------------- MODULE Lcb --------------------------------
(***************************************************************************)
(* LocalizedCausalBroadcast (src/broadcast/lcb.cpp), the layer main runs,  *)
(* over uniform reliable broadcast as UrbContract states it: what a        *)
(* process broadcasts may be handed to each process once, in any order.    *)
(*                                                                         *)
(* Two threads of each process meet here.  The main thread stamps a        *)
(* message with the clock entries of the processes it depends on and with  *)
(* its own sequence number, logs it and broadcasts it.  The polling thread *)
(* delivers a pending message once its stamp is covered by the clock.  The *)
(* main thread reads the clock without the mutex the polling thread holds. *)
(*                                                                         *)
(* A crash is a process that takes no more steps: Spec asks no step of     *)
(* anyone, so every property of Spec covers crashes at any point.          *)
(***************************************************************************)
EXTENDS Integers, Sequences, FiniteSets

CONSTANTS
    Proc,    \* the processes of the hosts file
    Deps,    \* Deps[p]: the processes p's line of the config file names
    Count    \* Count[p]: how many messages (groups of 15) p broadcasts

ASSUME DepsAssumption == Deps \in [Proc -> SUBSET Proc]
ASSUME CountAssumption == Count \in [Proc -> Nat]

VARIABLES
    lsn,      \* lsn[p]: the sequence number of p's next message
    VC,       \* VC[p][q]: how many messages of q p has delivered
    main,     \* main[p]: where p's main thread is in broadcastMessage
    sent,     \* the messages handed to the layer below
    handed,   \* handed[p]: the messages the layer below has handed to p
    pairs,    \* pairs[p]: the messages waiting for their stamp to be covered
    cur,      \* cur[p]: the message p's polling thread is delivering, in a set
    log,      \* log[p]: the lines of p's output file
    mark      \* history: mark[p][i] is how long log[p] was when p's main
              \*   thread entered broadcastMessage for message i - 1

vars == <<lsn, VC, main, sent, handed, pairs, cur, log, mark>>

-----------------------------------------------------------------------------
Clock == [Proc -> Nat]

(* A message as the layers below carry it.  The code's stamp has entries    *)
(* for the dependencies and the sender only; an absent entry is 0 here,     *)
(* which every clock covers.                                                *)
Message == [src : Proc, sn : Nat, W : Clock]

Event == [ev : {"b", "d"}, src : Proc, sn : Nat]

NoClock == [q \in Proc |-> 0]

Stages == {"idle", "reading", "sending"}

TypeOK ==
    /\ lsn \in [Proc -> Nat]
    /\ VC \in [Proc -> Clock]
    /\ main \in [Proc -> [stage : Stages, todo : SUBSET Proc, W : Clock]]
    /\ sent \subseteq Message
    /\ handed \in [Proc -> SUBSET Message]
    /\ pairs \in [Proc -> SUBSET Message]
    /\ cur \in [Proc -> SUBSET Message]
    /\ log \in [Proc -> Seq(Event)]
    /\ mark \in [Proc -> Seq(Nat)]

Init ==
    /\ lsn = [p \in Proc |-> 0]
    /\ VC = [p \in Proc |-> NoClock]
    /\ main = [p \in Proc |-> [stage |-> "idle", todo |-> {}, W |-> NoClock]]
    /\ sent = {}
    /\ handed = [p \in Proc |-> {}]
    /\ pairs = [p \in Proc |-> {}]
    /\ cur = [p \in Proc |-> {}]
    /\ log = [p \in Proc |-> <<>>]
    /\ mark = [p \in Proc |-> <<>>]

-----------------------------------------------------------------------------
(* The main thread, in broadcastMessage.                                   *)

Enter(p) ==
    /\ main[p].stage = "idle"
    /\ lsn[p] < Count[p]
    /\ main' = [main EXCEPT ![p] = [stage |-> "reading", todo |-> Deps[p], W |-> NoClock]]
    /\ mark' = [mark EXCEPT ![p] = Append(@, Len(log[p]))]
    /\ UNCHANGED <<lsn, VC, sent, handed, pairs, cur, log>>

(* Fault: the entry of a dependency is left out of the stamp.               *)
ReadClockLeavingOut(p, d) ==
    /\ main[p].stage = "reading"
    /\ d \in main[p].todo
    /\ main' = [main EXCEPT ![p].todo = @ \ {d}]
    /\ UNCHANGED <<lsn, VC, sent, handed, pairs, cur, log, mark>>

(* One turn of the loop over the dependencies: reads one entry, no mutex.   *)
ReadClock(p, d) ==
    /\ main[p].stage = "reading"
    /\ d \in main[p].todo
    /\ main' = [main EXCEPT ![p].todo = @ \ {d}, ![p].W[d] = VC[p][d]]
    /\ UNCHANGED <<lsn, VC, sent, handed, pairs, cur, log, mark>>

(* Fault: the stamp gets the number of the message before.                  *)
StampAndLogOld(p) ==
    /\ main[p].stage = "reading"
    /\ main[p].todo = {}
    /\ main' = [main EXCEPT ![p].stage = "sending", ![p].W[p] = lsn[p] - 1]
    /\ lsn' = [lsn EXCEPT ![p] = @ + 1]
    /\ log' = [log EXCEPT ![p] = Append(@, [ev |-> "b", src |-> p, sn |-> lsn[p]])]
    /\ UNCHANGED <<VC, sent, handed, pairs, cur, mark>>

(* Fault: counts up before the number goes into the stamp, not after.       *)
StampAndLogAhead(p) ==
    /\ main[p].stage = "reading"
    /\ main[p].todo = {}
    /\ main' = [main EXCEPT ![p].stage = "sending", ![p].W[p] = lsn[p] + 1]
    /\ lsn' = [lsn EXCEPT ![p] = @ + 1]
    /\ log' = [log EXCEPT ![p] = Append(@, [ev |-> "b", src |-> p, sn |-> lsn[p]])]
    /\ UNCHANGED <<VC, sent, handed, pairs, cur, mark>>

(* The loop is over: the sequence number goes into the stamp and counts up, *)
(* and the broadcast is logged.                                             *)
StampAndLog(p) ==
    /\ main[p].stage = "reading"
    /\ main[p].todo = {}
    /\ main' = [main EXCEPT ![p].stage = "sending", ![p].W[p] = lsn[p]]
    /\ lsn' = [lsn EXCEPT ![p] = @ + 1]
    /\ log' = [log EXCEPT ![p] = Append(@, [ev |-> "b", src |-> p, sn |-> lsn[p]])]
    /\ UNCHANGED <<VC, sent, handed, pairs, cur, mark>>

(* The stamped message goes to urb->broadcastMessage.                       *)
Stamped(p) == [src |-> p, sn |-> main[p].W[p], W |-> main[p].W]

Send(p) ==
    /\ main[p].stage = "sending"
    /\ sent' = sent \cup {Stamped(p)}
    /\ main' = [main EXCEPT ![p].stage = "idle"]
    /\ UNCHANGED <<lsn, VC, handed, pairs, cur, log, mark>>

-----------------------------------------------------------------------------
(* The upcall from uniform reliable broadcast, under pairs_mutex: it waits  *)
(* while the polling thread delivers.                                       *)
deliver(p, m) ==
    /\ cur[p] = {}
    /\ m \in sent \ handed[p]
    /\ handed' = [handed EXCEPT ![p] = @ \cup {m}]
    /\ pairs' = [pairs EXCEPT ![p] = @ \cup {m}]
    /\ UNCHANGED <<lsn, VC, main, sent, cur, log, mark>>

-----------------------------------------------------------------------------
(* The polling thread, in deliverPending, under pairs_mutex.  It walks over *)
(* the map again and again; an entry that is not covered is left alone.     *)

(* Fault: off by one, as if the clock counted from the message delivered.   *)
isInferiorByOne(p, W) == \A q \in Proc : W[q] <= VC[p][q] + 1

isInferior(p, W) == \A q \in Proc : W[q] <= VC[p][q]

(* Fault: the clock does not advance.                                       *)
AdvanceUncounted(p, m) ==
    /\ cur[p] = {}
    /\ m \in pairs[p]
    /\ isInferior(p, m.W)
    /\ cur' = [cur EXCEPT ![p] = {m}]
    /\ UNCHANGED <<lsn, VC, main, sent, handed, pairs, log, mark>>

Advance(p, m) ==
    /\ cur[p] = {}
    /\ m \in pairs[p]
    /\ isInferior(p, m.W)
    /\ VC' = [VC EXCEPT ![p][m.src] = @ + 1]
    /\ cur' = [cur EXCEPT ![p] = {m}]
    /\ UNCHANGED <<lsn, main, sent, handed, pairs, log, mark>>

(* The delivery is logged and the entry erased from the map.                *)
LogAndErase(p, m) ==
    /\ m \in cur[p]
    /\ log' = [log EXCEPT ![p] = Append(@, [ev |-> "d", src |-> m.src, sn |-> m.sn])]
    /\ pairs' = [pairs EXCEPT ![p] = @ \ {m}]
    /\ cur' = [cur EXCEPT ![p] = {}]
    /\ UNCHANGED <<lsn, VC, main, sent, handed, mark>>

-----------------------------------------------------------------------------
MainThread(p) ==
    \/ Enter(p)
    \/ \E d \in Deps[p] : ReadClock(p, d)
    \/ StampAndLog(p)
    \/ Send(p)

Poller(p) ==
    \/ \E m \in pairs[p] : Advance(p, m)
    \/ \E m \in cur[p] : LogAndErase(p, m)

Upcall(p) == \E m \in sent : deliver(p, m)

Next == \E p \in Proc : MainThread(p) \/ Poller(p) \/ Upcall(p)

Spec == Init /\ [][Next]_vars

(* Nobody crashes, both threads run, and the layer below hands everything   *)
(* to everyone (Urb: Validity and UniformAgreement).  A process takes       *)
(* finitely many steps, so one fairness condition for all of it suffices.   *)
Fairness == \A p \in Proc : WF_vars(MainThread(p) \/ Poller(p) \/ Upcall(p))

FairSpec == Spec /\ Fairness

-----------------------------------------------------------------------------
(* Properties.                                                             *)

(* What of its clock p has logged: the polling thread counts first.         *)
Logged(p, s) == VC[p][s] - (IF \E m \in cur[p] : m.src = s THEN 1 ELSE 0)

Fifo == INSTANCE FifoContract WITH
    bcast <- lsn, dlv <- [p \in Proc |-> [s \in Proc |-> Logged(p, s)]]

(* The output files satisfy the FIFO conditions at every moment, in         *)
(* particular when a process stops: what p logs as delivered from s is the  *)
(* next message of s in order and has been logged as broadcast by s.        *)
FifoSpec == Fifo!Spec

(* Is the message x in the first n lines of p's output as delivered?        *)
DeliveredIn(p, n, x) ==
    \E i \in 1..n : log[p][i] = [ev |-> "d", src |-> x.src, sn |-> x.sn]

(* The deliveries in the first n lines of p's output that p's config line   *)
(* makes dependencies of what it broadcasts next.                           *)
Causes(p, n) == {log[p][i] : i \in {j \in 1..n : log[p][j].ev = "d" /\ log[p][j].src \in Deps[p]}}

(* Every process that delivers message i - 1 of p has the messages of past  *)
(* delivered before it.                                                     *)
DeliveredAfter(p, i, past) ==
    \A q \in Proc : \A j \in 1..Len(log[q]) :
        log[q][j] = [ev |-> "d", src |-> p, sn |-> i - 1]
            => \A x \in past : DeliveredIn(q, j - 1, x)

(* Localized causality counted from the call: what p had delivered from its *)
(* dependencies when its main thread entered broadcastMessage is delivered  *)
(* everywhere before the message, though the stamp is put together from     *)
(* clock entries that change meanwhile.                                     *)
CausalFromCall ==
    \A p \in Proc : \A i \in 1..Len(mark[p]) : DeliveredAfter(p, i, Causes(p, mark[p][i]))

(* Localized causality as the output files show it (README.md:214: "all the *)
(* messages which process z broadcasts and which process x delivers become  *)
(* dependencies for all future messages broadcast by process x"): every     *)
(* delivery from a dependency above the b line of a message.                *)
LocalizedCausality ==
    \A p \in Proc : \A n \in 1..Len(log[p]) :
        log[p][n].ev = "b" => DeliveredAfter(p, log[p][n].sn + 1, Causes(p, n - 1))

(* Messages never wait for each other in a circle, nor for one that is not  *)
(* issued yet: a process that was handed everything sent so far and still   *)
(* holds messages finds one among them that its clock covers, so the walk   *)
(* of the polling thread always has something to deliver.                   *)
NothingStuck ==
    \A q \in Proc :
        cur[q] = {} /\ sent \subseteq handed[q] /\ pairs[q] # {}
            => \E m \in pairs[q] : isInferior(q, m.W)

(* Every process broadcasts all of its messages and everyone delivers all   *)
(* of them, whatever order they arrive in and whatever they depend on.      *)
AllDelivered ==
    <>(\A p, q \in Proc : \A n \in 1..Count[p] :
            \E j \in 1..Len(log[q]) : log[q][j] = [ev |-> "d", src |-> p, sn |-> n - 1])

=============================================================================
