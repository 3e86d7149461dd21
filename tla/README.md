# A verification project for decentralized_broadcast

TLA+ modules of the broadcast stack that `src/template_cpp` builds, TLC runs of
small instances, and TLAPS proofs for instances of any size. Paths below are
relative to `src/template_cpp/src/` unless they start otherwise; file and line
numbers are those of the modelled commit.

## The system

Every process runs the same program (`src/main.cpp`). It reads the number of
messages to broadcast and the localized dependencies from a config file, builds
a stack of layers, broadcasts its messages in groups of 15, logs every broadcast
and delivery in memory, and writes the log to a file when SIGINT or SIGTERM
"crashes" it.

    main thread                      signal handler (stop)
        | broadcastMessage               | stop the layers, copy the log, write
        v                                v
    LocalizedCausalBroadcast (lcb.cpp)  --- addMessageLog --->  Receiver's log
        | broadcastMessage   ^ deliver
        v                    |
    UniformReliableBroadcast (urb.cpp)
        | broadcastMessage   ^ deliver
        v                    |
    BestEffortBroadcast (beb.cpp)
        | sendNewMessage     ^ deliver
        v                    |
    Perfectlink, one per peer (perfectlink.cpp)  ->  Sender / Receiver: UDP sockets

Threads of a process of N: the main thread, a polling thread in URB and one in
LCB, and three threads for each of the N-1 links (retransmit, acknowledge, read
the socket). Upcalls run on the thread that makes them: a link's reading thread
runs BEB's and URB's `deliver`, URB's polling thread runs LCB's `deliver`.

| component | state | operations | what makes it correct |
|---|---|---|---|
| Perfectlink | `messages_to_send`, `acks_to_send`, `link_active`; shared by all links of a process: the socket, Receiver's delivered list, BEB's | queue and send a message, retransmit, read a message or an acknowledgment, acknowledge | what is queued arrives; a sender forgets a message only when it is safe; retransmission ends |
| BestEffortBroadcast | `messages_delivered` | send on every link; filter duplicates and hand up | only what was queued is handed up, once |
| UniformReliableBroadcast | `pending`, the multimap `ack`, `delivered` | file and send; count an acknowledgment, relay; deliver what a majority acknowledged | what anyone delivers, every process that does not crash delivers, once, and someone broadcast it |
| LocalizedCausalBroadcast | `lsn`, the clock `VC`, `pairs` | stamp, log and send; keep; deliver what the clock covers | FIFO and localized causal order in the output files; nothing waits forever |
| Receiver, ThreadsafeList | the delivered list, the log, `can_receive` | test, append, copy | nothing logged is lost |
| main | the group being filled | group, stop, expand the groups, write | the handler gets to its end; the file is complete and in order at whatever moment the signal comes |
| all of these together | the mutexes, nested across the layers | lock, unlock, take over a thread | no circle of threads that wait for each other |
| Parser, main | the hosts, the vector of links | accept and sort the hosts file, make a link per other host | the link of a process is at its place |
| Fifo (not run by `main`) | `lsn`, `pending`, `next` | number, log and send; keep; log what is next | FIFO files; nothing that is next is held back |
| ReliableBroadcast (not run by `main`) | BEB's list, the links' | filter, hand up, relay under the originator's name | agreement among live processes, whoever crashes |
| sockets, the rest of Parser, ThreadsafeQueue and -Map, hello, the test drivers | | system calls, input, unused code | |

What is hard about it: all link threads of a process share one socket and two
duplicate filters, and the mutexes around them are members of the *link*, so that
they exclude nobody; URB's containers are changed by threads with and without its
mutex; LCB's clock is read without the mutex under which it advances; the flags
`active` are plain, unset members; the network loses, repeats and reorders; the
signal handler runs on a thread it interrupts anywhere and takes a mutex; and a
process may stop between any two steps. PROJECT.json lists these hazards line by
line, with the properties that watch them.

## The modules

Each layer is modelled on top of the *contract* of the one below, and shown to
implement its own. That keeps every instance small enough for every interleaving.

| module | models | over | implements |
|---|---|---|---|
| `LinkContract` | what links and BEB promise together | | |
| `Links` | `perfectlink.cpp`, `beb.cpp`, the delivered list of `receiver.cpp` | a network that loses, repeats, reorders | `LinkContract` (`ContractSpec`) |
| `UrbContract` | what uniform reliable broadcast promises | | |
| `Urb` | `urb.cpp` | `LinkContract` | `UrbContract` (`ContractSpec`, `Validity`, `UniformAgreement`) |
| `FifoContract` | what `src/tools/validate_fifo.py` checks, and that nobody delivers what is not logged as broadcast | | |
| `Lcb` | `lcb.cpp` | `UrbContract` | `FifoContract` (`FifoSpec`) |
| `Output` | `main.cpp`, the log of `receiver.cpp`, `threadsafelist.cpp`, `concatMessages` | LCB's order of deliveries | |
| `Hosts` | `Parser::hosts` of `parser.hpp`, the links `main.cpp` makes | | |
| `Locks` | every mutex of a process but those held inside one container call, and the threads that take them | | |
| `Fifo` | `fifo.cpp` | `UrbContract`, composed with it (`EXTENDS`) | `FifoContract` (`FifoSpec`) |
| `Rb` | `rb.cpp`, `Perfectlink::addMessageRelay`, and the links under it | a network that loses, repeats, reorders; crashes | |
| `MCLinks`, `MCUrb`, `MCLcb`, `MCOutput`, `MCLocks`, `MCFifo`, `MCRb` | the instances TLC checks | | |
| `LinksProofs`, `UrbProofs`, `LcbProofs`, `LcbCausalProofs`, `FifoProofs`, `LocksProofs`, `RbProofs`, `ProgramProofs` (of `Output` and `Hosts`) | theorems | | |

Every module has a few definitions marked *Fault*: a definition as a plausible bug
would have it. No specification uses them. Each is the mutant that shows that a
property can tell the code from a broken version of it (PROJECT.json, `mutants`).

**Links.** A link is a pair of processes, a packet a sender, a receiver and a
body, a datagram a packet or its acknowledgment. The list a packet is kept in follows
from its two ids, so that `to_send` and `acks` are one set each for all links; the
lists are unordered because nothing depends on their order. `wire` holds what is on its
way; `Receive` takes a datagram off it or leaves a copy. The reading thread of a link
goes through the steps at which other threads can come between: test the receiver's
list (`ReadNew`, `ReadAgain`), append to it (`addMessageDelivered`), test BEB's list
(`BebPasses`, `BebDrops`), append and hand up (`BebDelivers`), queue the acknowledgment
(`addAck`). The mutexes of the link appear nowhere: a link has one reading thread, and
they protect it from nothing. URB's `deliver` is the increment of `upcalls`.

**Urb.** `calls[p]` are the upcalls under way on the link threads of `p`, each at the
step `filter` (it has passed BEB's test), `insert` (about to enter `ack`) or `find` (about to take
`pending_mutex`). `Relay` and `SkipKnown` are what runs under the mutex,
`deliverPending` the polling thread's turn at one entry. Three switches select what the
code's undefined behaviour, and a property's assumption, come to:

- `OncePerPacket`: are the two duplicate filters atomic? FALSE is the code, and what the proofs and
  `urb_duplicate` are about. `urb_safety` sets it to TRUE: with it FALSE the number of copies in
  hand makes the instance too large for a run of minutes.
- `Races`: two `ack.insert` at once lose one entry (`RacyInsert`); a push of the main thread
  that overlaps a link thread's loses one node or leaves the tail off the chain, so that
  later pushes are invisible (`RacyPush`, `torn`). These are the outcomes in which the
  process goes on.
- `Hoisted`: the build reads `active` once, before the polling loop, and the thread that
  read FALSE is stuck.

`AddId` is the set of messages that go through the overload of `broadcastMessage` that adds the process's id; the runs
use the empty set, which is what LCB calls, and the proofs cover any. The loop over the links in
`beb->broadcastMessage` is one step: packets arrive at any later time and those of a
crashed sender perhaps never, so that a loop cut short by a crash looks to the others as
it does here. "Holds" therefore means: has queued, or is in the loop that queues.

**Lcb.** `main[p]` is where the main thread is in `broadcastMessage`: it reads the clock
entry by entry (`ReadClock`), stamps and logs (`StampAndLog`), sends (`Send`). The order in which it
reads the entries is left open (the config file's order in the code). The
polling thread's delivery is two steps, the clock first (`Advance`) and the log
afterwards (`LogAndErase`), under `pairs_mutex`, which `deliver` waits for. A message is a
group of 15 there. `mark` is a history variable.

**Output.** One process: main thread, LCB's polling thread logging the groups of one
peer, the retransmitting thread of one link, and the handler on any of these or on another thread. `pc` goes
through `addMessageLog` at the grain of its two mutexes. A group is its messages and its count as a reader
of the two characters before them finds it (`stoul`): `main` writes those of an incomplete group with `%02d` (`LastHead`),
`concatMessages` in a place of its own (`RemainderHead`), and without the leading zero the first digit of a message would be
read with the count. `deconcatMessages` reads as many messages as the count says. The text of a message is
abstracted to its number. The peer groups its messages as the main loop does (`MainGroup`), and
`concatMessages` is written as the function of the turns of its loop. `MCOutput` adds the hosts files `main` starts from.

**Hosts.** A file is a sequence of identifiers, its places standing for the addresses.
`Accepts` is the parser's check (two lines, least identifier 1, greatest the number of
lines), `Sorted` every outcome of `std::sort`, `links` the vector with `nullptr` at the
own place. The module has no variables: `LinksByIndex` is a fact about every file up to
`MaxLines` lines.

**Locks.** A thread is the set of sets of mutexes it ever holds together, its *sections*, composed
with `With` as the scopes of the code nest, across the calls between layers: `DeliverSections` is a
delivery thread that goes up from `receiver_mutex` through BEB and URB and relays down to every link,
`UrbSections` URB's polling thread that calls LCB, `LcbSections` the one that logs. A step locks or unlocks
one mutex and stays within the sections, so that every order the code locks in, and
some it does not, are behaviours. `stop` puts the handler in the place of a thread
wherever it is; the handler takes the log's mutex and ends the process.

**Fifo.** One action for a turn of `startBroadcast`'s loop up to the log and one for
the hand-over to URB, `BroadcastUnnumbered` for `broadcastMessage`. `deliver` files the
message (URB's polling thread is its only caller, hence `walk` is one sender at most),
`DeliverNext` is a turn of the loop over the sender's messages, `EndWalk` the return. A text
without a number is read by `stoul` as the digits it begins with, the sender's id and what follows: `Misread`, any number for
each message, which may be that of another message (one on which `stoul` throws ends the process and is left out). In the run
it is 1011, the text that `main` would broadcast: sender 001, a group of 01, message 1.

**Rb.** A packet names originator, target and message, not its sender, as
`addMessageRelay` leaves it: relays and originals of a message to one target are equal, which is
what the properties are about. The delivery thread is modelled at the steps of `Links` (`Read`,
`addMessageDelivered`, `Filter`, `BebDeliver`, `relay`, `addAck`). An acknowledgment is the packet with another first digit, and
`acks` and `acked` hold those that wait on a link and those that are under way. It is queued on the link to the *originator*
(`Acked`), whoever sent the packet, by the thread that has dealt with the packet or by one that finds it recorded (`ReadAgain`); `SendAcks`
is a pass of `ackThreaded`; `RemoveAcked` the originator's thread that reads it, any number of times and at any later time. Only the
thread of the link to the acknowledging process removes anything, the other threads look the link up under the process's own id and
drop what they read. Sending does not test the mutex or `link_active`, which are in `Links`.

## The runs

| run | instance | checks | shows |
|---|---|---|---|
| `urb_safety` | 3 processes, one message, one crash, or two broadcasters where the third never ran; `Races`, `Hoisted`, atomic filters | `TypeOK`, `MajorityHolds`, `SurvivingHolder`, `ContractSpec` | delivery rests on a majority that holds the message, one of them alive |
| `urb_live` | 3 processes, one message, no crash | `QuietDelivers`, `Validity`, `UniformAgreement` | every message is delivered by everyone, no count of acknowledgments is left short |
| `urb_minority_crash` | the same, one crash | `UniformAgreement`: **violated** | see findings |
| `urb_duplicate` | 5 processes, two crashes, filters as in the code | `SurvivingHolder`: **violated** | see findings |
| `lcb_mutual` | p1 and p2 depend on each other, two and one messages, p3 observes | `TypeOK`, `CausalFromCall`, `NothingStuck`, `FifoSpec`, `AllDelivered` | FIFO files, causality from the call on, no stamps that wait for each other |
| `lcb_stale_clock` | p2 depends on p1, a message each | `LocalizedCausality`: **violated** | see findings |
| `links_safety` | a broadcaster, two receivers with two reading threads each | `TypeOK`, `ForgottenWhenHeld`, `ContractSpec` | racing filters keep the contract, nothing is forgotten early |
| `links_live` | 2 processes, a message each way | `Reliable`, `EventuallyQuiet` | delivery and the end of retransmission despite losses |
| `output_file` | 0, 14, 15 or 17 own messages, 17 of the peer, a signal anywhere; hosts files of up to 3 lines | `TypeOK`, `FileInOrder`, `FileComplete`, `GroupsAgree`, `SentIsWritten`, `StopWrites`, `LinksByIndex` | the handler ends, but for one case, and the file is complete and in order whenever it is written |
| `fifo` | p1 starts with three messages and broadcasts one more, p2 starts with one | `StackTypeOK`, `NothingHeldBack`, `FifoSpec` | FIFO files in any order of URB, nothing numbered held back |
| `locks` | 2 links, nine threads and the handler | `TypeOK`, `NoCircularWait` | no circular wait but the handler's on the thread it interrupted |
| `rb` | 3 processes, one message, up to two crashes | `TypeOK`, `RelayersKeep`, `ForgottenWhenHeld`, `NoCreation`, `SettledDelivers`, `Agreement`, `Validity` | agreement among the live with any number of crashes, by relays that never stop; nothing forgotten early |

**Bounds.** Three processes are the smallest system with a majority that is not
everyone, a minority that may crash, a relay by a third party, and two threads that race for
one socket; five are needed for a duplicate acknowledgment to outvote a majority. Crashed
processes are at most `MaxCrash`, always a minority (`MinorityAssumption`). One message is
enough where the layer treats messages independently (URB, RB and the links compare
whole messages); that two pushes to one of URB's containers overlap needs two broadcasters, which
`urb_safety` has where its third process crashed at the start (`OneOrPair`, the state constraint of the run);
the proofs hold for any scripts, races included. In LCB, two messages of p1 give a stamp
that lags, the order of one sender's messages and a chain through p2; the
counts are the groups of 15. The counts of `output_file` are nothing, one less than a group, exactly a group, and a
group and two; the peer's 17 leave an incomplete group of fewer than ten. Three messages of one sender in
`fifo` may arrive with the first last, so that one call delivers three; the fourth is the one without number.
Two links in `locks` let a delivery thread relay to another thread's link. Three lines of a
hosts file are the fewest that repeat an identifier within the bounds the parser checks. `rb` lets all
but one crash, since reliable broadcast assumes no majority. The proofs remove the
bounds from the safety properties. A run that lets the system come to its end says `CHECK_DEADLOCK
FALSE`: all messages delivered, or the process ended. The processes other than the first broadcaster are alike in the safety runs of `Urb` and `Links`,
and so are the links in `locks`; no liveness run uses symmetry.

**Fairness.** `Urb`: the threads of a live process keep running (the scheduler) and a link
of a live sender gets each packet through (`LinkContract`'s `Reliable`, which
`links_live` checks); a crashed sender's packets need not arrive. `Lcb`: threads run and the layer below
hands everything to everyone (`urb_live`). `Links`: weak fairness for every thread, and strong
fairness for the network, that a datagram sent again and again arrives and is read again
and again, which is the fair-loss assumption of perfect links. Nothing says *which* thread of the
receiver reads it: for two processes there is one. With more, an acknowledgment that the thread of
another link reads is dropped (`perfectlink.cpp:158` looks the link up under the process's own id, where
there is none), so that the end of retransmission needs it to meet the right thread at last,
which no scheduler guarantees, and is not claimed. `Output`: every thread runs, the interrupted one as the
handler; `StopWrites` is for the loops of the code, the wait for a mutex included. `Rb`: threads run, and a packet
that a live process keeps sending is read at last; one whose senders have all crashed or forgotten it need not be
(`StillSent`). One weak fairness stands for all of them: no behaviour takes these steps for ever, since each packet is sent
once here and read, by each thread, until it is recorded. Broadcasting, crashing, and the whole way of an acknowledgment once it is queued
are never forced.

## Findings

- `urb_minority_crash`: with three processes and one crash, uniform agreement
  fails. A process never counts itself (`broadcast/urb.cpp:126`: it has no link to itself), so that a
  quorum of three needs both others; and the originator, whose entry has no id
  (`broadcast/lcb.cpp:92`), relays its own message and is counted twice. One live process delivers,
  the other, the originator itself, does not.
- `urb_duplicate`: two link threads pass both duplicate filters with copies of one
  datagram (`perfectlink.cpp:118`, the mutex is the link's own), one process is counted
  as several, and a message is delivered that no survivor holds, so that nobody is bound to bring it to
  the others: not the uniform reliable broadcast that `include/urb.hpp:15` claims, with the minority of crashes of `src/README.md:128`.
- `lcb_stale_clock`: a delivery logged between the read of the clock and the log of the
  broadcast (`broadcast/lcb.cpp:79,88`) is above the `b` line and not in the stamp, against
  `src/README.md:214`. `CausalFromCall` is what does hold: everything delivered before the
  *call* is covered.

Two more defects were met on the way. `StopWrites` has to except the signal that
interrupts a thread searching the log or appending to it: the handler then waits for a mutex that nobody unlocks
(`main.cpp:187`, `containers/threadsafelist.cpp:41`) and writes no file; `NoCircularWait` shows that this is the only circle.
`Fifo::broadcastMessage`, which `include/fifo.hpp:28` documents as "Broadcasts a message", sends the text without its number
(`broadcast/fifo.cpp:43`): its receivers keep it for good, or take it for another message if it happens to read as the number of that. No run states
the claim; the program does not call it.

## The proofs

All for arbitrary constants, from the named assumptions of the modules only
(finite `Proc`, scripts and counts of the right type, a minority of crashes).

**UrbProofs.** `TypeCorrect`, `MajorityHoldsCorrect`, `SurvivingHolderCorrect`, `ContractRefined`, with the filters as in the code and
the races included. The filters let a packet pass twice, and what that can break is part of the statements: a majority holds what a process
delivers unless that process counts one packet twice (`CountedTwice`), and a survivor holds it as long as nothing was ever counted
twice (`NothingCountedTwice`). `urb_duplicate` shows that neither condition can be dropped. With
atomic filters nothing is (`AtomicFiltersSuffice`). `MajorityHolds` is not
inductive: it says nothing of why an acknowledgment stands for a holder. `IInv` adds that a
packet on the network has a broadcast behind it (`PacketsOK`), that a process with one packet
of a message on a link has it on all (`SenderHolds`), that upcalls and acknowledgments are of
packets sent to the process (`HeardOK`), that with atomic filters each packet has one copy
(`OneCopy`, for `AtomicFiltersSuffice`), and that what is filed has been queued (`PendingHolds`). The counting
argument is `AcksAreHolders`: the acknowledgments of a message at `p` are an original or a relay per
sender, each once if none was counted twice, and at most one sender, the originator, is there in both forms; but `p` itself, which never acknowledges to itself, is a holder
whom nobody counted, and so the acknowledgments map one to one into the holders. That the
two defects of the count cancel here is what makes delivery safe for every N.
`SurvivingHolder` follows: a majority does not fit in a minority.

`QuietDeliversCorrect` is the safety part of `UniformAgreement`, without the races (which lose acknowledgments and
entries) but with any crashes and with atomic filters or not: when every packet between live processes was handed up and
every upcall has ended, each live process can deliver what one of them holds. `Handled` says what becomes of a packet: recorded, it is
acknowledged or about to be (`Acknowledged`), and then its message is filed or about to be (`Filed`). So every live
process has filed the message, relayed it (`PendingHolds`), and has an acknowledgment of each of the others
(`ReachesOthers`), which is one less than the live processes (`AckOfEach`). The theorem therefore needs more live processes than N div 2 + 1, not
more than N div 2: with N = 3 everyone, with N = 5 four. That is the crash tolerance the code has, one crash
less than a minority, and the finding `urb_minority_crash` is the case just below it.

**LcbProofs.** `TypeCorrect` and `FifoRefined`. `IInv` says that a message's stamp carries its own
number and the number names it (`SentOK`), that what waits was handed over (`WaitingOK`),
that no clock is ahead of what a sender issued (`ClockBound`), that a clock never passes an
undelivered message (`NothingSkipped`) and has just passed the one being delivered
(`CurOK`). With these the stamp test of `Advance` can only succeed for the next message in
order (`NextInOrder`), and `LogAndErase` maps to `FifoContract`'s `Deliver`.

`NeverStuck` is the safety part of `AllDelivered`, for any dependencies, cyclic ones too: a walk that starts when
all that was sent has been handed up finds something to deliver. `UInv` adds to `IInv` that the
messages of a sender are numbered without a gap (`Contiguous`), that what was taken out of the map has been counted (`PastCounted`),
that no stamp asks for what is not issued (`StampsIssued`), and that in any set of sent messages one awaits no other of the set
(`WellOrdered`): a new message is asked for by no earlier stamp, whatever it asks for itself. The pending message that awaits none of the
pending ones is the one to deliver (`Unblocked`).

**LcbCausalProofs.** `CausalFromCallCorrect`, for any dependencies, cyclic ones too. On top of `IInv`, `CInv`
ties the files to the clocks (`CountedLines` and `LinesCounted`: a delivery is in the file exactly when
the clock has counted it and it is not the one under way) and the stamps to the files: what the sender had
delivered of its dependencies at the call is covered by the entries of the stamp that have been read
(`ReadingCovers`), then by the whole stamp (`SendingCovers`, `SentCovers`). The clock only grows, which is why a
read after the mark covers the mark. At the receiver, the stamp of the message being
delivered is covered by what its file shows (`CurCovered`).

**LinksProofs.** `TypeCorrect`, `ForgottenWhenHeldCorrect`, `ContractRefined`. `IInv` says where a
packet can be: threads and network carry queued packets only (`ThreadsOK`, `WireOK`), and an
acknowledgment, in a list, on the network or about to be queued, exists only for a
packet that is handed up or in the hands of some thread on its way there (`ListsOK`, `AckingOK`).
The lemma `HeldStable` is the heart: a packet on its way stays so until it is handed up, whatever the other threads do.

**FifoProofs.** `TypeCorrect`, whatever the texts; `FifoRefined` and `NothingHeldBackCorrect` where no text given to
`broadcastMessage` reads as a number from 1 to the one after the sender's batch (`NothingMisread`, a hypothesis of the theorems: the text
"abc" of process 1 is sent as 001abc and reads 1). `IInv` says that what
a process has sent are its first messages (`SentOK`), that what was handed up is either kept or
numbered below `next` (`SplitOK`), that everything below `next` was handed up (`PastOK`), and that only the sender
whose message was just filed can have a kept message that is next (`WalkOK`); that is what lets the walk end without
looking at the others. `UrbContract` gives that a message is handed up once and was broadcast (`HandedOK`).

**LocksProofs.** `TypeCorrect` and `NoCircularWaitCorrect`, for any set of links. `Rank` orders the mutexes as the layers
are stacked, receiver, BEB, URB, LCB, log, with the lists of the links last. Every way from a section to
a larger one locks a mutex of higher rank (`SectionsAscend`, built up scope by scope with `WithAscends` and
`UnionAscends`). Of the threads in a circle, the one whose awaited mutex ranks highest would wait for a thread
that waits for a higher one, unless that thread is an interrupted one and waits for the handler.

**RbProofs.** `TypeCorrect`, `RelayersKeepCorrect`, `ForgottenWhenHeldCorrect`, `NoCreationCorrect`, for any number of processes,
messages and crashes. `IInv` adds that every packet anywhere carries a name and a message that were broadcast together
(`AllGenuine`), which a relay keeps, that a thread past the first filter has recorded what it has in hand
(`InHandRecorded`), that only what is recorded is acknowledged, queued or under way (`AcksRecorded`), and hence only that is
removed at an originator (`ForgottenRecorded`). `ForgottenWhenHeldCorrect` adds that what is recorded at a live process is delivered or
in the hands of a thread on its way to BEB (`RecordedDone`).

`SettledDeliversCorrect` is the safety part of `Agreement` and `Validity`: live processes whose threads are idle and
whose queued packets were all recorded have delivered what any of them owes the others, for any number of crashes at any moment. What is recorded at a
live process is delivered or in the hands of a thread that delivers it (`RecordedDone`); a relayer still has its relays
(`RelayersKeep`, through `PassedOn`), an originator only lost what was recorded (`ForgottenRecorded`, through
`ReachedByOriginator`), and it gets its own message back from one that it reached.

**ProgramProofs.** For `Output`, `TypeCorrect`, `FileInOrderCorrect`, `FileCompleteCorrect`, `SentIsWrittenCorrect` and
`GroupsAgreeCorrect`, for any set of counts, any number of messages of the peer, any group size of two digits
and whichever thread is interrupted; `HeadRead` shows that the two digits of a count are read back as the count. None of the properties is inductive: they speak of the file at the end. `IInv` says what
the lines would be at every moment (`Written`): the messages logged, those of the group in hand, those in `concat` and
`seq_num` follow each other without a gap (`OwnOrder`), the peer's likewise (`PeerOrder`), and no entry begins with a number that is
not written (`FirstsWritten`), so that the search of the log never finds the entry it is about to append
(`NewEntryIsNew`) and drops nothing. What was logged at the signal stays a beginning of the log (`StopOK`), and
the handler's copy, complete at its own moment, is what the file becomes (`CopyOK`, `FileOK`). `OwnGroups` adds where
the groups of the main loop end, for the comparison with `concatMessages`.

The lines are `FlattenSeq` of the entries and `concatMessages` is a recursive function, so that these proofs reason about
recursive definitions. The library's induction theorems, which take an operator as a parameter, cannot be used. The
lemma `Least`, that a set of numbers that is not empty has a least element, follows from `WFMin` and
`NatLessThanWellFounded` without one, and stands for induction: the numbers for which the claim fails are a set, and its
least element is contradicted. The existence of the recursive function itself is proved in the same way
(`StrungExists`, `TurningExists`), then what it computes (`FlattenAppend`, `TurnsOK`, `ConcatGroups`).

For `Hosts`, `LinksByIndexCorrect`, for files of any length (`MaxLines` is any number): identifiers that are different and
sorted within 1..n are 1..n itself (`GrowingIsIdentity`).

**Model-checked only:** liveness (`Validity`, `UniformAgreement` and `Agreement`, `AllDelivered`,
`Reliable`, `EventuallyQuiet`, `StopWrites`), which is out of the prover's reach, as is `ENABLED`. Every invariant and every
refinement a passing run checks is also a theorem, and of the liveness of `Urb`, `Rb` and `Lcb` the part that says what must
be true when nothing moves any more (`QuietDelivers`, `SettledDelivers`, `NothingStuck`).

## Not modelled

Sockets (system calls; a datagram's fate is `wire`), the parser's command line, config file and addresses
(input, read before any thread starts; the own id is taken to be one of the hosts' although
`main.cpp:244` does not check it), `Broadcast::addMessage` where `main` leaves its list empty,
ThreadsafeQueue and ThreadsafeMap (unused), the greeting, the drivers `stress.py` and `tc.py`. Lengths of messages, the text of
the formats but for the digits of a count, and time (sleeps, the length of a pass over a list) are abstracted. Of undefined
behaviour, a data race that ends the process is not modelled. Of what the signal handler does that a handler must not do, the
log's mutex is modelled; the locks of `malloc` and of the standard streams, which it takes too and which the thread it interrupted may
hold, are not, so that `StopWrites` is silent about them.

## Plan

Done, in this order: `LinkContract`/`Links`, `UrbContract`/`Urb`, `FifoContract`/`Lcb`, `Output`, their runs and
proofs; `CausalFromCall` for any dependency graph; `Fifo` and `ReliableBroadcast`; the mutexes of a whole process; the hosts.

The proofs cover the invariants of every module. What is left, in the order of importance:

1. `Urb` with the loop over the links as steps of its own, so that `Holds` is literal; an abstract
   quorum lemma shared with `MajorityHoldsCorrect`.
2. A module that composes `Lcb` with the delivery order of `Urb`'s polling thread.
3. `Links`: how many copies of a packet can be handed up. The two filters one after the other bound it
   by the number of reading threads, so that no single change of the code breaks the bound.
