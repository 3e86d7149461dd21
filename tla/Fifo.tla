-------------------------------- MODULE Fifo --------------------------------
(***************************************************************************)
(* Fifo (src/broadcast/fifo.cpp), composed with uniform reliable broadcast *)
(* as UrbContract states it: what a process broadcasts may be handed to    *)
(* each process once, in any order.                                        *)
(*                                                                         *)
(* The main thread numbers messages and hands them to URB.  URB's polling  *)
(* thread runs deliver: the message is kept, and then every message of the *)
(* same sender that is next in order is logged.                            *)
(*                                                                         *)
(* A process calls startBroadcast once, which is what opens the links, and *)
(* may go on with broadcastMessage, which numbers a message and sends it   *)
(* without the number.                                                     *)
(***************************************************************************)
EXTENDS UrbContract, Sequences

CONSTANTS
    Batch,     \* Batch[p]: how many messages p gives to startBroadcast
    Extra,     \* Extra[p]: how many messages p gives to broadcastMessage after
    Misread    \* Misread[k]: what stoul makes of a message k without number,
               \*   of a text with an 'l' or with none

ASSUME CountsAssumption == Batch \in [Proc -> Nat] /\ Extra \in [Proc -> Nat]

(* The text of message n is n; numbered tells whether 'l' and n follow it.  *)
Text(n, numbered) == [n |-> n, numbered |-> numbered]

ASSUME TextAssumption ==
    /\ Script = [p \in Proc |-> {Text(n, n <= Batch[p]) : n \in 1..(Batch[p] + Extra[p])}]
    /\ \A p \in Proc : Script[p] \subseteq Payload

(* Every text is read as some number: one on which stoul throws, where no   *)
(* digit follows the last 'l', ends the process.                            *)
ASSUME MisreadAssumption == Misread \in [Key -> Nat]

VARIABLES
    lsn,      \* lsn[p]: the number of p's last message
    main,     \* main[p]: where p's main thread is in startBroadcast
    kept,     \* kept[p]: the layer's own list pending
    next,     \* next[p][s]: the number of the next message of s to deliver
    walk,     \* walk[p]: the sender whose kept messages URB's polling thread
              \*   is going through, in a set
    log       \* log[p]: the lines of p's output file

fifo_vars == <<lsn, main, kept, next, walk, log>>

stack_vars == <<vars, fifo_vars>>

StackTypeOK ==
    /\ lsn \in [Proc -> Nat]
    /\ main \in [Proc -> {"loop", "send"}]
    /\ kept \in [Proc -> SUBSET Key]
    /\ next \in [Proc -> [Proc -> Nat \ {0}]]
    /\ walk \in [Proc -> SUBSET Proc]
    /\ log \in [Proc -> Seq([ev : {"b", "d"}, src : Proc, sn : Nat])]

StackInit ==
    /\ Init
    /\ lsn = [p \in Proc |-> 0]
    /\ main = [p \in Proc |-> "loop"]
    /\ kept = [p \in Proc |-> {}]
    /\ next = [p \in Proc |-> [s \in Proc |-> 1]]
    /\ walk = [p \in Proc |-> {}]
    /\ log = [p \in Proc |-> <<>>]

(* Lines count from 0, as FifoContract does.                                *)
Line(ev, s, n) == [ev |-> ev, src |-> s, sn |-> n - 1]

-----------------------------------------------------------------------------
(* The main thread.                                                        *)

(* Fault: the number is counted up after the line was put together.         *)
NumberAndLogOld(p) ==
    /\ main[p] = "loop"
    /\ lsn[p] < Batch[p]
    /\ lsn' = [lsn EXCEPT ![p] = @ + 1]
    /\ log' = [log EXCEPT ![p] = Append(@, Line("b", p, lsn[p]))]
    /\ main' = [main EXCEPT ![p] = "send"]
    /\ UNCHANGED <<vars, kept, next, walk>>

(* A turn of startBroadcast's loop numbers and logs a message ...           *)
NumberAndLog(p) ==
    /\ main[p] = "loop"
    /\ lsn[p] < Batch[p]
    /\ lsn' = [lsn EXCEPT ![p] = @ + 1]
    /\ log' = [log EXCEPT ![p] = Append(@, Line("b", p, lsn[p] + 1))]
    /\ main' = [main EXCEPT ![p] = "send"]
    /\ UNCHANGED <<vars, kept, next, walk>>

(* ... and hands it, with its number, to URB.                               *)
SendNumbered(p) ==
    /\ main[p] = "send"
    /\ Broadcast(p, Text(lsn[p], TRUE))
    /\ main' = [main EXCEPT ![p] = "loop"]
    /\ UNCHANGED <<lsn, kept, next, walk, log>>

(* broadcastMessage counts a message up, appends the number to a copy and   *)
(* sends the original: a defect, since fifo.hpp:28 says that it "broadcasts *)
(* a message", and no process delivers it as this one.  Nothing is logged.  *)
BroadcastUnnumbered(p) ==
    /\ main[p] = "loop"
    /\ lsn[p] >= Batch[p]
    /\ Broadcast(p, Text(lsn[p] + 1, FALSE))
    /\ lsn' = [lsn EXCEPT ![p] = @ + 1]
    /\ UNCHANGED <<main, kept, next, walk, log>>

-----------------------------------------------------------------------------
(* The polling thread of URB, in deliver.                                  *)

(* stoul(substr(rfind('l') + 1)): without an 'l', rfind gives npos, npos    *)
(* and 1 make 0, and the digits at the beginning are read: the sender's id  *)
(* and those that the text goes on with.                                    *)
SequenceNumber(k) == IF k.body.numbered THEN k.body.n ELSE Misread[k]

(* The messages of s that p keeps and is to deliver next.  Of several that  *)
(* read the same the map holds the one that was kept last: any, here.       *)
NextOf(p, s) == {k \in kept[p] : k.orig = s /\ SequenceNumber(k) = next[p][s]}

(* URB hands the message up, and it is kept.                                *)
deliver(p, k) ==
    /\ walk[p] = {}
    /\ Deliver(p, k)
    /\ kept' = [kept EXCEPT ![p] = @ \cup {k}]
    /\ walk' = [walk EXCEPT ![p] = {k.orig}]
    /\ UNCHANGED <<lsn, main, next, log>>

(* Fault: the loop takes the first kept message, whatever its number.       *)
DeliverFirst(p, s) ==
    /\ s \in walk[p]
    /\ \E k \in kept[p] :
        /\ k.orig = s
        /\ next' = [next EXCEPT ![p][s] = @ + 1]
        /\ kept' = [kept EXCEPT ![p] = @ \ {k}]
        /\ log' = [log EXCEPT ![p] = Append(@, Line("d", s, k.body.n))]
    /\ UNCHANGED <<vars, lsn, main, walk>>

(* A turn of the loop over the sender's kept messages.                      *)
DeliverNext(p, s) ==
    /\ s \in walk[p]
    /\ \E k \in NextOf(p, s) :
        /\ next' = [next EXCEPT ![p][s] = @ + 1]
        /\ kept' = [kept EXCEPT ![p] = @ \ {k}]
        /\ log' = [log EXCEPT ![p] = Append(@, Line("d", s, k.body.n))]
    /\ UNCHANGED <<vars, lsn, main, walk>>

(* Fault: one message is delivered per call, however many are next.         *)
EndWalkEarly(p) ==
    /\ walk[p] # {}
    /\ walk' = [walk EXCEPT ![p] = {}]
    /\ UNCHANGED <<vars, lsn, main, kept, next, log>>

EndWalk(p) ==
    /\ \E s \in walk[p] : NextOf(p, s) = {}
    /\ walk' = [walk EXCEPT ![p] = {}]
    /\ UNCHANGED <<vars, lsn, main, kept, next, log>>

-----------------------------------------------------------------------------
StackNext ==
    \E p \in Proc :
        \/ NumberAndLog(p)
        \/ SendNumbered(p)
        \/ BroadcastUnnumbered(p)
        \/ \E k \in Key : deliver(p, k)
        \/ \E s \in Proc : DeliverNext(p, s)
        \/ EndWalk(p)

(* A crash is a process that takes no more steps: nothing asks one of it.   *)
StackSpec == StackInit /\ [][StackNext]_stack_vars

-----------------------------------------------------------------------------
(* Properties.                                                             *)

Logged(p) == IF lsn[p] <= Batch[p] THEN lsn[p] ELSE Batch[p]

Fifo == INSTANCE FifoContract WITH
    bcast <- [p \in Proc |-> Logged(p)],
    dlv <- [p \in Proc |-> [s \in Proc |-> next[p][s] - 1]]

(* The output files satisfy the FIFO conditions at every moment, whatever   *)
(* order URB delivers in: a sender's messages are logged in order, without  *)
(* gaps, once, and after the sender's own b.                                *)
FifoSpec == Fifo!Spec

(* URB has handed p the first n messages of s, in whatever order.           *)
HandedUpTo(p, s, n) == \A i \in 1..n : [orig |-> s, body |-> Text(i, TRUE)] \in delivered[p]

(* The layer holds nothing back: when it has been handed the first n        *)
(* messages of a sender, in any order, and the call has returned, it has    *)
(* logged them.  With the agreement of URB this is what makes every process *)
(* deliver.                                                                 *)
NothingHeldBack ==
    \A p, s \in Proc : \A n \in 1..Batch[s] :
        walk[p] = {} /\ HandedUpTo(p, s, n) => next[p][s] > n

=============================================================================
