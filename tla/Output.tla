------------------------------- MODULE Output -------------------------------
(***************************************************************************)
(* The program around the broadcast layers (src/main.cpp): the main thread *)
(* groups the messages it broadcasts, broadcasts and deliveries are logged *)
(* in memory, and a signal makes a handler stop the layers, copy the log,  *)
(* expand its groups and write the output file.                            *)
(*                                                                         *)
(* One process, with its main thread, LCB's polling thread, which logs the *)
(* deliveries of one peer, the sending thread of one link, and the handler,*)
(* which borrows the thread the signal interrupts, one of these or another,*)
(* and never gives it back.                                                *)
(***************************************************************************)
EXTENDS Naturals, Sequences, FiniteSets, SequencesExt

CONSTANTS
    Counts,      \* the numbers of messages the config file may ask for
    PeerCount,   \* how many messages of the peer may be delivered
    GroupBy,     \* groupy_by, 15 in the code
    Handlers     \* the threads a signal may interrupt

ASSUME CountsAssumption == Counts \subseteq Nat /\ PeerCount \in Nat

(* A full group's count is written with to_string and is two digits long.   *)
ASSUME GroupByAssumption == GroupBy \in 10..99

ASSUME HandlersAssumption == Handlers \subseteq {"main", "poller", "sender", "other"}

VARIABLES
    num,        \* num_messages_to_send
    seq_num,    \* the next message of the main loop
    concat,     \* messages_concat: the numbers in it, msg_num many
    group,      \* the group the main thread is broadcasting
    pc,         \* pc[t]: where the main and the polling thread are
    log,        \* process_log
    to_send,    \* the link's messages_to_send
    armed,      \* the sending thread has read link_active as TRUE
    wire,       \* the groups that left the process
    handler,    \* the thread the handler runs in and how far it is
    copy,       \* the list getMessageLog returned to the handler
    file,       \* the lines of the output file
    atStop      \* history: how long the log was when the signal came

vars == <<num, seq_num, concat, group, pc, log, to_send, armed, wire, handler, copy, file, atStop>>

Logging == {"main", "poller"}

Stages == {"none", "receiver", "links", "flags", "copied", "exited"}

-----------------------------------------------------------------------------
(* Groups of messages and the lines they stand for.                        *)

Group == [count : 0..GroupBy, msgs : Seq(Nat)]

LogEntry == [ev : {"b", "d"}, src : {"self", "peer"}, count : 1..GroupBy, msgs : Seq(Nat)]

Line == [ev : {"b", "d"}, src : {"self", "peer"}, msg : Nat]

(* The two characters a count is read from: stoul(msg.substr(1, 2)).        *)
stoul(head) == 10 * head[1] + head[2]

(* main's "%02d" of what is left.  Of a full group it is to_string's text.  *)
LastHead(n) == <<n \div 10, n % 10>>

(* Fault: the count is written with to_string.  One digit is followed by    *)
(* the first of the messages: of 16, in the run.                            *)
RemainderHeadUnpadded(n) == IF n < 10 THEN <<n, 1>> ELSE <<n \div 10, n % 10>>

(* The same of concatMessages, which writes "%02lu" in a place of its own.  *)
RemainderHead(n) == <<n \div 10, n % 10>>

(* A group as its readers take it apart.                                    *)
GroupOf(msgs) == [count |-> stoul(LastHead(Len(msgs))), msgs |-> msgs]

Entry(ev, src, g) == [ev |-> ev, src |-> src, count |-> g.count, msgs |-> g.msgs]

(* Broadcast::concatMessages, which groups a whole list: one turn of its    *)
(* loop over the messages.                                                  *)
ConcatTurn(total, s, m) ==
    LET full == s.group_num < total \div GroupBy
        size == IF full THEN GroupBy ELSE total % GroupBy
        cur == Append(s.cur, m)
    IN  IF s.msg_num + 1 # size
        THEN [s EXCEPT !.cur = cur, !.msg_num = @ + 1]
        ELSE [out       |-> Append(s.out, [count |-> stoul(RemainderHead(size)), msgs |-> cur]),
              cur       |-> <<>>,
              msg_num   |-> IF full THEN 0 ELSE size,
              group_num |-> IF full THEN s.group_num + 1 ELSE s.group_num]

NoTurn == [out |-> <<>>, cur |-> <<>>, msg_num |-> 0, group_num |-> 0]

(* Its loop: after[n] is what n turns make.                                 *)
concatMessages(msgs) ==
    LET after[n \in 0..Len(msgs)] ==
            IF n = 0 THEN NoTurn ELSE ConcatTurn(Len(msgs), after[n - 1], msgs[n])
    IN  after[Len(msgs)].out

UpTo(n) == [i \in 1..n |-> i]

(* deconcatMessages of one log entry: as many messages as its count says    *)
(* (substr throws where the text has fewer).                                *)
Lines(e) == [i \in 1..e.count |-> [ev |-> e.ev, src |-> e.src, msg |-> e.msgs[i]]]

deconcatMessages(entries) == FlattenSeq([i \in 1..Len(entries) |-> Lines(entries[i])])

(* The group the main loop of a process with so many messages makes after k *)
(* others: the next GroupBy numbers, or what is left.                       *)
MainGroup(total, k) ==
    LET left == total - k * GroupBy IN
    GroupOf([i \in 1..(IF left < GroupBy THEN left ELSE GroupBy) |-> k * GroupBy + i])

(* How many of the first n lines or entries are of one kind.                *)
CountTo(lines, n, ev) == Cardinality({i \in 1..n : lines[i].ev = ev})

CountOf(lines, ev) == CountTo(lines, Len(lines), ev)

-----------------------------------------------------------------------------
TypeOK ==
    /\ num \in Counts
    /\ seq_num \in 1..(num + 1)
    /\ concat \in Seq(1..num) /\ Len(concat) < GroupBy
    /\ group \in Group
    /\ pc \in [Logging -> {"idle", "walk", "log", "scan", "push", "append", "send"}]
    /\ log \in Seq(LogEntry)
    /\ to_send \subseteq Group
    /\ armed \in BOOLEAN
    /\ wire \subseteq to_send
    /\ handler \in [by : {"nobody"} \cup Handlers, stage : Stages]
    /\ copy \in Seq(LogEntry)
    /\ file \in Seq(Line)
    /\ atStop \in Nat

Init ==
    /\ num \in Counts
    /\ seq_num = 1
    /\ concat = <<>>
    /\ group = GroupOf(<<>>)
    /\ pc = [t \in Logging |-> "idle"]
    /\ log = <<>>
    /\ to_send = {}
    /\ armed = FALSE
    /\ wire = {}
    /\ handler = [by |-> "nobody", stage |-> "none"]
    /\ copy = <<>>
    /\ file = <<>>
    /\ atStop = 0

(* A thread runs unless the handler has taken it over or the process ended. *)
Runs(t) == handler.by # t /\ handler.stage # "exited"

can_receive == handler.stage = "none"

link_active == handler.stage \in {"none", "receiver"}

lcb_active == handler.stage \in {"none", "receiver", "links"}

-----------------------------------------------------------------------------
(* The main thread.                                                        *)

(* Fault: a group is broadcast once it is larger than it should be.         *)
IsFullLate(msgs) == Len(msgs) > GroupBy

IsFull(msgs) == Len(msgs) = GroupBy

(* Fault: the last message of a group starts the next one.                  *)
EmptiedButLast(msgs) == <<msgs[Len(msgs)]>>

(* messages_concat after its group was broadcast.                           *)
Emptied(msgs) == <<>>

(* Fault: the group is sent and not logged.                                 *)
BroadcastUnlogged == [pc EXCEPT !["main"] = "send"]

(* LCB's broadcastMessage begins with the log.                              *)
Broadcast == [pc EXCEPT !["main"] = "log"]

(* A turn of the loop: the message joins the others, and when they are      *)
(* GroupBy many they are broadcast.                                         *)
AddMessage ==
    LET msgs == Append(concat, seq_num) IN
    /\ Runs("main")
    /\ pc["main"] = "idle"
    /\ seq_num <= num
    /\ seq_num' = seq_num + 1
    /\ IF IsFull(msgs)
       THEN group' = GroupOf(msgs) /\ concat' = Emptied(msgs) /\ pc' = Broadcast
       ELSE concat' = msgs /\ UNCHANGED <<group, pc>>
    /\ UNCHANGED <<num, log, to_send, armed, wire, handler, copy, file, atStop>>

(* After the loop, what is left.  The code does not clear it: it sleeps.    *)
LastGroup ==
    /\ Runs("main")
    /\ pc["main"] = "idle"
    /\ seq_num > num
    /\ concat # <<>>
    /\ group' = GroupOf(concat)
    /\ concat' = <<>>
    /\ pc' = Broadcast
    /\ UNCHANGED <<num, seq_num, log, to_send, armed, wire, handler, copy, file, atStop>>

(* After logging, LCB passes the group down to the link: sendNewMessage.    *)
SendGroup ==
    /\ Runs("main")
    /\ pc["main"] = "send"
    /\ to_send' = to_send \cup {group}
    /\ wire' = IF link_active THEN wire \cup {group} ELSE wire
    /\ pc' = [pc EXCEPT !["main"] = "idle"]
    /\ UNCHANGED <<num, seq_num, concat, group, log, armed, handler, copy, file, atStop>>

-----------------------------------------------------------------------------
(* The polling thread, which asks for active once per walk over the pairs   *)
(* and delivers the next groups of the peer on the way, in order (Lcb:      *)
(* FifoSpec).                                                               *)

Step(t, from, to) ==
    /\ Runs(t)
    /\ pc[t] = from
    /\ pc' = [pc EXCEPT ![t] = to]
    /\ UNCHANGED <<num, seq_num, concat, group, to_send, armed, wire, handler, copy, file, atStop>>

StartWalk == lcb_active /\ Step("poller", "idle", "walk") /\ UNCHANGED log

Deliver ==
    /\ CountOf(log, "d") * GroupBy < PeerCount
    /\ Step("poller", "walk", "log")
    /\ UNCHANGED log

EndWalk == Step("poller", "walk", "idle") /\ UNCHANGED log

-----------------------------------------------------------------------------
(* addMessageLog, called by both threads under LCB's receiver_mutex.  The   *)
(* list's own mutex_ is held while it is searched and while it grows.       *)

receiver_mutex_held == \E t \in Logging : pc[t] \in {"scan", "push", "append"}

mutex_held == \E t \in Logging : pc[t] \in {"scan", "append"}

NewEntry(t) ==
    IF t = "main"
    THEN Entry("b", "self", group)
    ELSE Entry("d", "peer", MainGroup(PeerCount, CountOf(log, "d")))

Return(t) == IF t = "main" THEN "send" ELSE "walk"

LockToSearch(t) ==
    /\ ~receiver_mutex_held
    /\ ~mutex_held
    /\ Step(t, "log", "scan")
    /\ UNCHANGED log

Searched(t) ==
    /\ Step(t, "scan", IF Contains(log, NewEntry(t)) THEN Return(t) ELSE "push")
    /\ UNCHANGED log

LockToGrow(t) ==
    /\ ~mutex_held
    /\ Step(t, "push", "append")
    /\ UNCHANGED log

Grown(t) ==
    /\ Step(t, "append", Return(t))
    /\ log' = Append(log, NewEntry(t))

-----------------------------------------------------------------------------
(* The sending thread of the link reads link_active and then, as a step of  *)
(* its own, sends what is queued.                                           *)

ReadActive ==
    /\ Runs("sender")
    /\ ~armed
    /\ link_active
    /\ armed' = TRUE
    /\ UNCHANGED <<num, seq_num, concat, group, pc, log, to_send, wire, handler, copy, file, atStop>>

SendQueued ==
    /\ Runs("sender")
    /\ armed
    /\ armed' = FALSE
    /\ wire' = wire \cup to_send
    /\ UNCHANGED <<num, seq_num, concat, group, pc, log, to_send, handler, copy, file, atStop>>

-----------------------------------------------------------------------------
(* The handler.                                                            *)

GoOn(from, to) ==
    /\ handler.stage = from
    /\ handler' = [handler EXCEPT !.stage = to]
    /\ UNCHANGED <<num, seq_num, concat, group, pc, log, to_send, armed, wire, atStop>>

(* The signal interrupts t; stopProcesses begins with setCanReceive(false). *)
stop(t) ==
    /\ handler.stage = "none"
    /\ handler' = [by |-> t, stage |-> "receiver"]
    /\ atStop' = Len(log)
    /\ UNCHANGED <<num, seq_num, concat, group, pc, log, to_send, armed, wire, copy, file>>

setLinksInactive == GoOn("receiver", "links") /\ UNCHANGED <<copy, file>>

setBroadcastsInactive == GoOn("links", "flags") /\ UNCHANGED <<copy, file>>

(* Fault: the log is only given out while the process receives.             *)
getMessageLogReceiving == IF can_receive THEN log ELSE <<>>

getMessageLog == IF can_receive THEN <<>> ELSE log

(* Fault: the log is read through the layer, under its receiver_mutex.      *)
CopyLogOfLayer ==
    /\ ~receiver_mutex_held
    /\ GoOn("flags", "copied")
    /\ copy' = getMessageLog
    /\ UNCHANGED file

(* It waits for the list's mutex, even for the thread it interrupted.       *)
CopyLog ==
    /\ ~mutex_held
    /\ GoOn("flags", "copied")
    /\ copy' = getMessageLog
    /\ UNCHANGED file

writeOutput ==
    /\ GoOn("copied", "exited")
    /\ file' = deconcatMessages(copy)
    /\ UNCHANGED copy

-----------------------------------------------------------------------------
AddLog(t) == LockToSearch(t) \/ Searched(t) \/ LockToGrow(t) \/ Grown(t)

MainThread == AddMessage \/ LastGroup \/ SendGroup \/ AddLog("main")

Poller == StartWalk \/ Deliver \/ EndWalk \/ AddLog("poller")

SendThread == ReadActive \/ SendQueued

Handler == setLinksInactive \/ setBroadcastsInactive \/ CopyLog \/ writeOutput

Next ==
    \/ MainThread
    \/ Poller
    \/ SendThread
    \/ Handler
    \/ \E t \in Handlers : stop(t)

Spec == Init /\ [][Next]_vars

(* Every thread keeps running, the interrupted one as the handler.          *)
Fairness ==
    WF_vars(MainThread) /\ WF_vars(Poller) /\ WF_vars(SendThread) /\ WF_vars(Handler)

FairSpec == Spec /\ Fairness

-----------------------------------------------------------------------------
(* Properties.                                                             *)

Exited == handler.stage = "exited"

(* What tools/validate_fifo.py asks of the lines of one kind.               *)
InOrder(lines, ev) ==
    \A n \in 1..Len(lines) : lines[n].ev = ev => lines[n].msg = CountTo(lines, n, ev)

(* The output file passes tools/validate_fifo.py at whatever moment the     *)
(* signal comes: the lines of the expanded groups are numbered 1, 2, 3, ... *)
(* for the broadcasts and for the deliveries of a sender.                   *)
FileInOrder == Exited => InOrder(file, "b") /\ InOrder(file, "d")

(* Whatever was logged when the signal came is in the file, in its order,   *)
(* though other threads go on logging while the handler copies the log.     *)
FileComplete == Exited => IsPrefix(deconcatMessages(SubSeq(log, 1, atStop)), file)

(* The groups the main loop broadcasts are those Broadcast::concatMessages  *)
(* makes of the whole list, the last incomplete one included.               *)
GroupsAgree ==
    LET all == concatMessages(UpTo(num)) IN
    /\ \A i \in 1..Len(log) :
        log[i].ev = "b" =>
            LET k == CountTo(log, i, "b") IN
            k <= Len(all) /\ log[i] = Entry("b", "self", all[k])
    /\ seq_num > num /\ concat = <<>> /\ pc["main"] = "idle" => CountOf(log, "b") = Len(all)

(* When the signal interrupts the main thread, every message that left the  *)
(* process is in the file as a broadcast: another process's file cannot     *)
(* show the delivery of a message nobody broadcast.                         *)
SentIsWritten ==
    Exited /\ handler.by = "main"
        => \A g \in wire : \A i \in 1..g.count :
            Contains(file, [ev |-> "b", src |-> "self", msg |-> g.msgs[i]])

(* README.md:130, "even a crashed process needs to output the sequence of   *)
(* events that occurred before the crash": the handler gets to its end,     *)
(* unless the thread it interrupted was searching the log or appending to   *)
(* it, whose mutex nobody unlocks then.                                     *)
StopWrites ==
    handler.stage # "none" ~>
        Exited \/ \E t \in Logging : handler.by = t /\ pc[t] \in {"scan", "append"}

=============================================================================
