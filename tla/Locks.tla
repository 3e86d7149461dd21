------------------------------- MODULE Locks -------------------------------
(***************************************************************************)
(* The mutexes of one process and the threads that take them, from         *)
(* Perfectlink up to the log: every nesting of a mutex in another, through *)
(* the calls from layer to layer.                                          *)
(*                                                                         *)
(* sendThreaded and ackThreaded hold the mutex of their list during a      *)
(* whole pass, URB's polling thread calls LCB with two of its own held, a  *)
(* link's delivery thread calls BEB, URB and from there every link with    *)
(* three held, and a signal handler takes the log's mutex in the place of  *)
(* a thread that may hold any of them.                                     *)
(*                                                                         *)
(* Of the code of a thread only its sections are kept: the sets of mutexes *)
(* it holds together.  It goes from one to another by locking or unlocking *)
(* one mutex, in any order the sections allow, hence in the code's.        *)
(*                                                                         *)
(* Left out are the mutexes that are held inside one call of a container   *)
(* only, but for the log's, and the startup.                               *)
(***************************************************************************)
EXTENDS Naturals

CONSTANTS
    Link,      \* the links of the process, one for each other process
    NoLink     \* stands where a thread or a mutex is not a link's

ASSUME LinksAssumption == NoLink \notin Link

VARIABLES
    held,         \* held[t]: the mutexes t holds
    interrupted,  \* the thread whose place the signal handler has taken, in a set
    exited        \* the handler has ended the process

vars == <<held, interrupted, exited>>

-----------------------------------------------------------------------------
(* The mutexes.                                                            *)

receiver_mutex(l)         == <<"receiver_mutex", l>>
broadcast_mutex(l)        == <<"broadcast_mutex", l>>
link_mutex(l)             == <<"link_mutex", l>>
acks_to_send_mutex(l)     == <<"acks_to_send_mutex", l>>
messages_to_send_mutex(l) == <<"messages_to_send_mutex", l>>

pending_mutex      == <<"pending_mutex", NoLink>>        \* of URB
upper_layer_mutex  == <<"upper_layer_mutex", NoLink>>    \* of URB
pairs_mutex        == <<"pairs_mutex", NoLink>>          \* of LCB
lcb_receiver_mutex == <<"lcb_receiver_mutex", NoLink>>   \* of LCB's Broadcast part
log_mutex          == <<"mutex_", NoLink>>               \* of Receiver's process_log

LinkMutex(l) ==
    {receiver_mutex(l), broadcast_mutex(l), link_mutex(l),
     acks_to_send_mutex(l), messages_to_send_mutex(l)}

Mutex ==
    (UNION {LinkMutex(l) : l \in Link})
        \cup {pending_mutex, upper_layer_mutex, pairs_mutex, lcb_receiver_mutex, log_mutex}

-----------------------------------------------------------------------------
(* The sections of the code.                                               *)

(* A scope that locks k around code with the sections inner.               *)
With(k, inner) == {{}} \cup {s \cup {k} : s \in inner}

Touch(k) == With(k, {{}})

(* addMessageLog, called by LCB with its receiver_mutex held.              *)
AddLog == With(lcb_receiver_mutex, Touch(log_mutex))

(* beb->broadcastMessage: sendNewMessage on each link.                     *)
SendOnLinks == UNION {Touch(messages_to_send_mutex(l)) : l \in Link}

(* LCB's broadcastMessage.  URB's, below it, takes no mutex.               *)
MainSections == AddLog \cup SendOnLinks

(* URB's deliverPending calls LCB's deliver.                               *)
UrbSections == With(pending_mutex, With(upper_layer_mutex, Touch(pairs_mutex)))

(* Fault: LCB hands back to URB what it delivers.                          *)
LcbSectionsForwarding == With(pairs_mutex, AddLog \cup Touch(pending_mutex))

(* LCB's deliverPending.                                                   *)
LcbSections == With(pairs_mutex, AddLog)

(* BEB's deliver calls URB's, which relays what is new to it.              *)
BebDeliver == With(pending_mutex, SendOnLinks \cup {{}})

(* A message, the acknowledgment queued for it, here or under link_mutex on *)
(* another link, and an acknowledgment read.  One that came to another link *)
(* is looked up under link_mutex, and no link is found.                     *)
DeliverSections(l) ==
    With(receiver_mutex(l), With(broadcast_mutex(l), BebDeliver))
        \cup Touch(acks_to_send_mutex(l))
        \cup With(link_mutex(l), {{}} \cup UNION {Touch(acks_to_send_mutex(x)) : x \in Link \ {l}})
        \cup Touch(messages_to_send_mutex(l))

-----------------------------------------------------------------------------
(* The threads.                                                            *)

Main         == <<"main", NoLink>>
UrbPoller    == <<"urb", NoLink>>
LcbPoller    == <<"lcb", NoLink>>
Deliverer(l) == <<"deliver_thread", l>>
Sender(l)    == <<"send_thread", l>>
Acker(l)     == <<"ack_thread", l>>
Handler      == <<"handler", NoLink>>

Thread ==
    {Main, UrbPoller, LcbPoller}
        \cup (UNION {{Deliverer(l), Sender(l), Acker(l)} : l \in Link})

Everyone == Thread \cup {Handler}

SectionsOf(t) ==
    CASE t = Main                  -> MainSections
      [] t = UrbPoller             -> UrbSections
      [] t = LcbPoller             -> LcbSections
      [] t = Handler               -> Touch(log_mutex)
      [] t[1] = "deliver_thread"   -> DeliverSections(t[2])
      [] t[1] = "send_thread"      -> Touch(messages_to_send_mutex(t[2]))
      [] t[1] = "ack_thread"       -> Touch(acks_to_send_mutex(t[2]))

Sections == [t \in Everyone |-> SectionsOf(t)]

(* What t may lock next in a section s.                                     *)
Inner == [t \in Everyone |-> [s \in Sections[t] |->
            {k \in Mutex \ s : s \cup {k} \in Sections[t]}]]

TypeOK ==
    /\ held \in [Everyone -> SUBSET Mutex]
    /\ \A t \in Everyone : held[t] \in Sections[t]
    /\ interrupted \in SUBSET Thread
    /\ exited \in BOOLEAN

Init ==
    /\ held = [t \in Everyone |-> {}]
    /\ interrupted = {}
    /\ exited = FALSE

(* The handler runs once there is a signal, in the place of a thread.       *)
Runs(t) ==
    /\ ~exited
    /\ IF t = Handler THEN interrupted # {} ELSE t \notin interrupted

(* What t may be about to lock.                                             *)
Wanted(t) == Inner[t][held[t]]

Free(k) == \A t \in Everyone : k \notin held[t]

Lock(t, k) ==
    /\ Runs(t)
    /\ k \in Wanted(t)
    /\ Free(k)
    /\ held' = [held EXCEPT ![t] = @ \cup {k}]
    /\ UNCHANGED <<interrupted, exited>>

(* Fault: the mutexes of nested scopes are unlocked in any order.           *)
UnlockAny(t, k) ==
    /\ Runs(t)
    /\ k \in held[t]
    /\ held' = [held EXCEPT ![t] = @ \ {k}]
    /\ UNCHANGED <<interrupted, exited>>

Unlock(t, k) ==
    /\ Runs(t)
    /\ k \in held[t]
    /\ held[t] \ {k} \in Sections[t]
    /\ held' = [held EXCEPT ![t] = @ \ {k}]
    /\ UNCHANGED <<interrupted, exited>>

(* A signal interrupts t, wherever it is.                                   *)
stop(t) ==
    /\ interrupted = {}
    /\ interrupted' = {t}
    /\ UNCHANGED <<held, exited>>

(* The handler has copied the log, writes the output and exits.             *)
writeOutput ==
    /\ log_mutex \in held[Handler]
    /\ ~exited
    /\ exited' = TRUE
    /\ UNCHANGED <<held, interrupted>>

Next ==
    \/ \E t \in Everyone :
        \/ \E k \in Wanted(t) : Lock(t, k)
        \/ \E k \in held[t] : Unlock(t, k)
    \/ \E t \in Thread : stop(t)
    \/ writeOutput

Spec == Init /\ [][Next]_vars

-----------------------------------------------------------------------------
(* t cannot go on before u does: u holds what t is about to lock, or u is  *)
(* the handler that runs in t's place.                                     *)
WaitsFor(t, u) ==
    \/ Wanted(t) \cap held[u] # {}
    \/ t \in interrupted /\ u = Handler

(* Threads that wait for each other in a circle.                           *)
Deadlocked(waiting) ==
    /\ waiting # {}
    /\ \A t \in waiting : \E u \in waiting : WaitsFor(t, u)

MayWait == {t \in Everyone : \E u \in Everyone : WaitsFor(t, u)}

(* No deadlock, whichever mutex each thread is about to lock: threads wait  *)
(* for each other in a circle only when a signal has interrupted a thread   *)
(* that is searching the log or appending to it, and the handler that took  *)
(* its place waits for it to unlock the log.                                *)
NoCircularWait ==
    \A waiting \in SUBSET MayWait :
        Deadlocked(waiting) => \E t \in interrupted : log_mutex \in held[t]

=============================================================================
