----------------------------- MODULE LcbProofs -----------------------------
(***************************************************************************)
(* Theorems about Lcb for every set of processes, every dependency graph   *)
(* and every number of messages.                                           *)
(***************************************************************************)
EXTENDS Lcb, TLAPS

-----------------------------------------------------------------------------
(* The inductive invariant.                                                *)

(* The main thread has counted the message it is about to send.             *)
SendingOK == \A p \in Proc : main[p].stage = "sending" => lsn[p] = main[p].W[p] + 1

(* How many messages of p the layer below may have.                         *)
Issued(p) == IF main[p].stage = "sending" THEN main[p].W[p] ELSE lsn[p]

(* A message carries its own number in its stamp, and the number names it.  *)
SentOK ==
    /\ \A m \in sent : m.W[m.src] = m.sn /\ m.sn < Issued(m.src)
    /\ \A m, n \in sent : m.src = n.src /\ m.sn = n.sn => m = n

WaitingOK ==
    \A p \in Proc :
        /\ handed[p] \subseteq sent
        /\ pairs[p] \subseteq handed[p]
        /\ cur[p] \subseteq pairs[p]
        /\ \A m, n \in cur[p] : m = n

(* No clock runs ahead of what was issued ...                               *)
ClockBound == \A p, s \in Proc : VC[p][s] <= Issued(s)

(* ... nor past a message that is still to be delivered ...                 *)
Undelivered(p, m) ==
    \/ m \in sent \ handed[p]
    \/ m \in pairs[p] \ cur[p]

NothingSkipped == \A p \in Proc : \A m \in sent : Undelivered(p, m) => VC[p][m.src] <= m.sn

(* ... and it has just passed the one being delivered.                      *)
CurOK == \A p \in Proc : \A m \in cur[p] : VC[p][m.src] = m.sn + 1

IInv == TypeOK /\ SendingOK /\ SentOK /\ WaitingOK /\ ClockBound /\ NothingSkipped /\ CurOK

-----------------------------------------------------------------------------
Main == [stage : Stages, todo : SUBSET Proc, W : Clock]

LEMMA TypeOf ==
  ASSUME TypeOK, NEW p \in Proc
  PROVE  /\ main[p] \in Main /\ main[p].W \in Clock
         /\ VC[p] \in Clock /\ lsn[p] \in Nat
  BY DEF TypeOK, Main

LEMMA ClockSet ==
  ASSUME NEW c \in Clock, NEW q \in Proc, NEW n \in Nat
  PROVE  [c EXCEPT ![q] = n] \in Clock /\ c[q] \in Nat
  BY DEF Clock

LEMMA MainSet ==
  ASSUME NEW r \in Main, NEW stage \in Stages, NEW todo \in SUBSET Proc, NEW c \in Clock
  PROVE  /\ [r EXCEPT !.todo = todo, !.W = c] \in Main
         /\ [r EXCEPT !.stage = stage, !.W = c] \in Main
         /\ [r EXCEPT !.stage = stage] \in Main
  BY DEF Main

LEMMA ReadClockMain ==
  ASSUME NEW p \in Proc, NEW d \in Deps[p], ReadClock(p, d)
  PROVE  main' = [main EXCEPT ![p] = [main[p] EXCEPT !.todo = @ \ {d},
                                                     !.W = [@ EXCEPT ![d] = VC[p][d]]]]
  BY DEF ReadClock

LEMMA TypeStep == TypeOK /\ [Next]_vars => TypeOK'
<1> SUFFICES ASSUME TypeOK, [Next]_vars PROVE TypeOK'
  OBVIOUS
<1>1. CASE UNCHANGED vars
  BY <1>1 DEF TypeOK, vars
<1>2. ASSUME NEW p \in Proc, Enter(p) PROVE TypeOK'
  <2>1. Len(log[p]) \in Nat
    BY DEF TypeOK
  <2>2. [stage |-> "reading", todo |-> Deps[p], W |-> NoClock]
            \in [stage : Stages, todo : SUBSET Proc, W : Clock]
    BY DepsAssumption DEF Stages, NoClock, Clock
  <2> QED
    BY <1>2, <2>1, <2>2 DEF TypeOK, Enter
<1>3. ASSUME NEW p \in Proc, NEW d \in Deps[p], ReadClock(p, d) PROVE TypeOK'
  <2>1. d \in Proc
    BY DepsAssumption
  <2>2. [main[p].W EXCEPT ![d] = VC[p][d]] \in Clock
    BY <2>1, TypeOf, ClockSet
  <2>3. main' = [main EXCEPT ![p] = [main[p] EXCEPT !.todo = @ \ {d},
                                                    !.W = [@ EXCEPT ![d] = VC[p][d]]]]
    BY <1>3, ReadClockMain
  <2>4. main[p].todo \ {d} \in SUBSET Proc
    BY TypeOf DEF Main
  <2>5. [main[p] EXCEPT !.todo = main[p].todo \ {d}, !.W = [main[p].W EXCEPT ![d] = VC[p][d]]] \in Main
    BY <2>2, <2>4, TypeOf, MainSet DEF Stages
  <2>6. main' \in [Proc -> Main]
    BY <2>3, <2>5 DEF TypeOK, Main
  <2> QED
    BY <1>3, <2>6 DEF TypeOK, ReadClock, Main
<1>4. ASSUME NEW p \in Proc, StampAndLog(p) PROVE TypeOK'
  <2>1. [main[p].W EXCEPT ![p] = lsn[p]] \in Clock
    BY TypeOf, ClockSet
  <2>2. [main[p] EXCEPT !.stage = "sending", !.W = [main[p].W EXCEPT ![p] = lsn[p]]] \in Main
    BY <2>1, TypeOf, MainSet DEF Stages
  <2>3. main' = [main EXCEPT ![p] = [main[p] EXCEPT !.stage = "sending",
                                                    !.W = [@ EXCEPT ![p] = lsn[p]]]]
    BY <1>4 DEF StampAndLog
  <2>4. main' \in [Proc -> Main]
    BY <2>2, <2>3 DEF TypeOK, Main
  <2>5. [ev |-> "b", src |-> p, sn |-> lsn[p]] \in Event
    BY DEF TypeOK, Event
  <2> QED
    BY <1>4, <2>4, <2>5 DEF TypeOK, StampAndLog, Main
<1>5. ASSUME NEW p \in Proc, Send(p) PROVE TypeOK'
  <2>1. Stamped(p) \in Message
    BY TypeOf, ClockSet DEF Stamped, Message
  <2>2. [main[p] EXCEPT !.stage = "idle"] \in Main
    BY TypeOf, MainSet DEF Stages
  <2> QED
    BY <1>5, <2>1, <2>2 DEF TypeOK, Send, Main
<1>6. ASSUME NEW p \in Proc, NEW m \in sent, deliver(p, m) PROVE TypeOK'
  BY <1>6 DEF TypeOK, deliver
<1>7. ASSUME NEW p \in Proc, NEW m \in pairs[p], Advance(p, m) PROVE TypeOK'
  <2>1. m \in Message /\ m.src \in Proc
    BY DEF TypeOK, Message
  <2> QED
    <3>1. VC[p][m.src] + 1 \in Nat
      BY <2>1, TypeOf DEF Clock
    <3>2. [VC[p] EXCEPT ![m.src] = VC[p][m.src] + 1] \in Clock
      BY <2>1, <3>1, TypeOf, ClockSet
    <3>3. VC' = [VC EXCEPT ![p] = [VC[p] EXCEPT ![m.src] = @ + 1]]
      BY <1>7 DEF Advance
    <3>4. VC' \in [Proc -> Clock]
      BY <3>2, <3>3 DEF TypeOK
    <3> QED
      BY <1>7, <2>1, <3>4 DEF TypeOK, Advance
<1>8. ASSUME NEW p \in Proc, NEW m \in cur[p], LogAndErase(p, m) PROVE TypeOK'
  <2>1. [ev |-> "d", src |-> m.src, sn |-> m.sn] \in Event
    BY DEF TypeOK, Event, Message
  <2> QED
    BY <1>8, <2>1 DEF TypeOK, LogAndErase
<1> QED
  BY <1>1, <1>2, <1>3, <1>4, <1>5, <1>6, <1>7, <1>8 DEF Next, MainThread, Poller, Upcall

-----------------------------------------------------------------------------
LEMMA InvInit == Init => IInv
<1> SUFFICES ASSUME Init PROVE IInv
  OBVIOUS
<1>1. TypeOK
  BY DEF Init, TypeOK, NoClock, Clock, Stages
<1>2. SendingOK /\ SentOK /\ WaitingOK /\ ClockBound /\ NothingSkipped /\ CurOK
  BY DEF Init, SendingOK, SentOK, WaitingOK, ClockBound, Issued, NothingSkipped, CurOK, NoClock
<1> QED
  BY <1>1, <1>2 DEF IInv

(* Entering, and reading the clock, change nothing the invariant speaks of. *)
LEMMA ReadingStep ==
  ASSUME IInv, NEW p \in Proc, Enter(p) \/ \E d \in Deps[p] : ReadClock(p, d)
  PROVE  (SendingOK /\ SentOK /\ WaitingOK /\ ClockBound /\ NothingSkipped /\ CurOK)'
<1>1. /\ \A q \in Proc : main'[q].stage = "sending" <=> main[q].stage = "sending"
      /\ \A q \in Proc : main[q].stage = "sending" => main'[q] = main[q]
      /\ UNCHANGED <<lsn, VC, sent, handed, pairs, cur>>
  <2>1. CASE Enter(p)
    BY <2>1 DEF IInv, TypeOK, Enter
  <2>2. ASSUME NEW d \in Deps[p], ReadClock(p, d)
        PROVE  /\ \A q \in Proc : main'[q].stage = main[q].stage
               /\ \A q \in Proc \ {p} : main'[q] = main[q]
               /\ main[p].stage = "reading"
               /\ UNCHANGED <<lsn, VC, sent, handed, pairs, cur>>
    <3>1. main \in [Proc -> Main]
      BY DEF IInv, TypeOK, Main
    <3> QED
      <4>1. main' = [main EXCEPT ![p] = [main[p] EXCEPT !.todo = @ \ {d},
                                                        !.W = [@ EXCEPT ![d] = VC[p][d]]]]
        BY <2>2, ReadClockMain
      <4>2. main'[p].stage = main[p].stage /\ \A q \in Proc \ {p} : main'[q] = main[q]
        BY <3>1, <4>1 DEF Main
      <4> QED
        BY <2>2, <4>2 DEF ReadClock
  <2> QED
    BY <2>1, <2>2
<1>2. \A q \in Proc : Issued(q)' = Issued(q)
  BY <1>1 DEF Issued
<1>3. \A m \in sent : m.src \in Proc
  BY DEF IInv, TypeOK, Message
<1>4. SendingOK'
  BY <1>1 DEF IInv, SendingOK
<1>5. SentOK'
  BY <1>1, <1>2, <1>3 DEF IInv, SentOK
<1>6. ClockBound'
  BY <1>1, <1>2 DEF IInv, ClockBound
<1>7. (WaitingOK /\ NothingSkipped /\ CurOK)'
  BY <1>1 DEF IInv, WaitingOK, NothingSkipped, Undelivered, CurOK
<1> QED
  BY <1>4, <1>5, <1>6, <1>7

(* Counting a message issues nothing: it waits in the main thread.          *)
LEMMA StampStep ==
  ASSUME IInv, NEW p \in Proc, StampAndLog(p)
  PROVE  (SendingOK /\ SentOK /\ WaitingOK /\ ClockBound /\ NothingSkipped /\ CurOK)'
<1>1. /\ \A q \in Proc \ {p} : main'[q] = main[q] /\ lsn'[q] = lsn[q]
      /\ lsn'[p] = lsn[p] + 1 /\ main'[p].W[p] = lsn[p] /\ main'[p].stage = "sending"
      /\ main[p].stage = "reading"
      /\ UNCHANGED <<VC, sent, handed, pairs, cur>>
  BY DEF IInv, TypeOK, StampAndLog, Clock
<1>2. \A q \in Proc : Issued(q)' = Issued(q)
  BY <1>1 DEF Issued
<1>3. \A m \in sent : m.src \in Proc
  BY DEF IInv, TypeOK, Message
<1>4. SendingOK'
  BY <1>1 DEF IInv, SendingOK
<1>5. SentOK'
  BY <1>1, <1>2, <1>3 DEF IInv, SentOK
<1>6. ClockBound'
  BY <1>1, <1>2 DEF IInv, ClockBound
<1>7. (WaitingOK /\ NothingSkipped /\ CurOK)'
  BY <1>1 DEF IInv, WaitingOK, NothingSkipped, Undelivered, CurOK
<1> QED
  BY <1>4, <1>5, <1>6, <1>7

(* The message sent has a number no message had and no clock has passed.    *)
LEMMA SendStep ==
  ASSUME IInv, NEW p \in Proc, Send(p)
  PROVE  (SendingOK /\ SentOK /\ WaitingOK /\ ClockBound /\ NothingSkipped /\ CurOK)'
<1> DEFINE new == Stamped(p)
<1>1. /\ \A q \in Proc \ {p} : main'[q] = main[q]
      /\ main'[p].stage = "idle"
      /\ main[p].stage = "sending"
      /\ sent' = sent \cup {new}
      /\ UNCHANGED <<lsn, VC, handed, pairs, cur>>
  BY DEF IInv, TypeOK, Send
<1>2. new.src = p /\ new.sn = main[p].W[p] /\ new.W[p] = main[p].W[p] /\ main[p].W[p] \in Nat
  BY DEF Stamped, IInv, TypeOK, Clock
<1>3. Issued(p) = new.sn /\ Issued(p)' = new.sn + 1
  BY <1>1, <1>2 DEF IInv, SendingOK, Issued
<1>4. \A q \in Proc \ {p} : Issued(q)' = Issued(q)
  BY <1>1 DEF Issued
<1>5. \A m \in sent : m.src \in Proc /\ m.sn \in Nat
  BY DEF IInv, TypeOK, Message
<1> HIDE DEF new
<1>6. SendingOK'
  BY <1>1 DEF IInv, SendingOK
<1>7. SentOK'
  <2>1. \A m \in sent : m.sn < Issued(m.src) /\ m.W[m.src] = m.sn
    BY DEF IInv, SentOK
  <2>2. \A m \in sent' : m.W[m.src] = m.sn /\ m.sn < Issued(m.src)'
    BY <1>1, <1>2, <1>3, <1>4, <1>5, <2>1
  <2>3. \A m \in sent : m.src = p => m.sn # new.sn
    BY <1>3, <1>5, <2>1
  <2>4. \A m, n \in sent' : m.src = n.src /\ m.sn = n.sn => m = n
    BY <1>1, <1>2, <2>3 DEF IInv, SentOK
  <2> QED
    BY <2>2, <2>4 DEF SentOK
<1>8. ClockBound'
  <2>1. \A q, s \in Proc : VC[q][s] \in Nat
    BY DEF IInv, TypeOK, Clock
  <2> QED
    BY <1>1, <1>2, <1>3, <1>4, <2>1 DEF IInv, ClockBound
<1>9. NothingSkipped'
  <2>1. \A q \in Proc : VC[q][p] <= new.sn
    BY <1>3 DEF IInv, ClockBound
  <2>2. \A q \in Proc : \A m \in sent : Undelivered(q, m)' => Undelivered(q, m)
    BY <1>1 DEF Undelivered
  <2> QED
    BY <1>1, <1>2, <2>1, <2>2 DEF IInv, NothingSkipped
<1>10. (WaitingOK /\ CurOK)'
  BY <1>1 DEF IInv, WaitingOK, CurOK
<1> QED
  BY <1>6, <1>7, <1>8, <1>9, <1>10

LEMMA DeliverStep ==
  ASSUME IInv, NEW p \in Proc, NEW m \in sent, deliver(p, m)
  PROVE  (SendingOK /\ SentOK /\ WaitingOK /\ ClockBound /\ NothingSkipped /\ CurOK)'
<1>1. /\ \A q \in Proc \ {p} : handed'[q] = handed[q] /\ pairs'[q] = pairs[q]
      /\ handed'[p] = handed[p] \cup {m} /\ pairs'[p] = pairs[p] \cup {m}
      /\ m \notin handed[p]
      /\ UNCHANGED <<lsn, VC, main, sent, cur>>
  BY DEF IInv, TypeOK, deliver
<1>2. \A q \in Proc : Issued(q)' = Issued(q)
  BY <1>1 DEF Issued
<1>3. (SendingOK /\ SentOK /\ ClockBound /\ CurOK)'
  BY <1>1, <1>2 DEF IInv, SendingOK, SentOK, ClockBound, CurOK, TypeOK, Message, Issued
<1>4. WaitingOK'
  BY <1>1 DEF IInv, WaitingOK
<1>5. \A q \in Proc : \A n \in sent : Undelivered(q, n)' => Undelivered(q, n)
  BY <1>1 DEF Undelivered
<1>6. NothingSkipped'
  BY <1>1, <1>5 DEF IInv, NothingSkipped
<1> QED
  BY <1>3, <1>4, <1>6

(* The stamp is covered and the number not yet passed: it is the next one.  *)
LEMMA NextInOrder ==
  ASSUME IInv, NEW p \in Proc, NEW m \in pairs[p], Advance(p, m)
  PROVE  /\ VC[p][m.src] = m.sn
         /\ m \in sent /\ m \in Message
         /\ m.sn < Issued(m.src)
<1>1. cur[p] = {} /\ isInferior(p, m.W)
  BY DEF Advance
<1>2. m \in sent /\ m \in Message
  BY DEF IInv, TypeOK, WaitingOK
<1>3. m.src \in Proc /\ m.sn \in Nat /\ VC[p][m.src] \in Nat
  BY <1>2 DEF IInv, TypeOK, Message, Clock
<1>4. m.W[m.src] = m.sn /\ m.sn < Issued(m.src)
  BY <1>2 DEF IInv, SentOK
<1>5. m.sn <= VC[p][m.src]
  BY <1>1, <1>3, <1>4 DEF isInferior
<1>6. VC[p][m.src] <= m.sn
  BY <1>1, <1>2 DEF IInv, NothingSkipped, Undelivered
<1> QED
  BY <1>2, <1>3, <1>4, <1>5, <1>6

LEMMA AdvanceStep ==
  ASSUME IInv, NEW p \in Proc, NEW m \in pairs[p], Advance(p, m)
  PROVE  (SendingOK /\ SentOK /\ WaitingOK /\ ClockBound /\ NothingSkipped /\ CurOK)'
<1>1. /\ \A q \in Proc \ {p} : VC'[q] = VC[q] /\ cur'[q] = cur[q]
      /\ \A s \in Proc \ {m.src} : VC'[p][s] = VC[p][s]
      /\ VC'[p][m.src] = VC[p][m.src] + 1
      /\ cur[p] = {} /\ cur'[p] = {m}
      /\ UNCHANGED <<lsn, main, sent, handed, pairs>>
  <2>1. m.src \in Proc
    BY NextInOrder DEF Message
  <2> QED
    BY <2>1 DEF IInv, TypeOK, Advance, Clock
<1>2. VC[p][m.src] = m.sn /\ m \in sent /\ m.src \in Proc /\ m.sn \in Nat /\ m.sn < Issued(m.src)
  BY NextInOrder DEF Message
<1>3. \A q \in Proc : Issued(q)' = Issued(q) /\ Issued(q) \in Nat
  BY <1>1 DEF Issued, IInv, TypeOK, Clock
<1>4. \A n \in sent : n.src \in Proc /\ n.sn \in Nat
  BY DEF IInv, TypeOK, Message
<1>5. (SendingOK /\ SentOK)'
  BY <1>1, <1>3, <1>4 DEF IInv, SendingOK, SentOK
<1>6. WaitingOK'
  BY <1>1 DEF IInv, WaitingOK
<1>7. ClockBound'
  BY <1>1, <1>2, <1>3 DEF IInv, ClockBound
<1>8. NothingSkipped'
  <2> SUFFICES ASSUME NEW q \in Proc, NEW n \in sent, Undelivered(q, n)'
               PROVE  VC'[q][n.src] <= n.sn
    BY <1>1 DEF NothingSkipped
  <2>1. Undelivered(q, n) /\ VC[q][n.src] <= n.sn
    BY <1>1 DEF IInv, NothingSkipped, Undelivered
  <2>2. CASE q = p /\ n.src = m.src
    <3>1. n # m
      BY <1>1, <2>2 DEF Undelivered, IInv, WaitingOK
    <3>2. n.sn # m.sn
      BY <1>2, <2>2, <3>1 DEF IInv, SentOK
    <3> QED
      BY <1>1, <1>2, <1>4, <2>1, <2>2, <3>2
  <2>3. CASE q # p \/ n.src # m.src
    BY <1>1, <1>4, <2>1, <2>3
  <2> QED
    BY <2>2, <2>3
<1>9. CurOK'
  BY <1>1, <1>2 DEF IInv, CurOK
<1> QED
  BY <1>5, <1>6, <1>7, <1>8, <1>9

LEMMA EraseStep ==
  ASSUME IInv, NEW p \in Proc, NEW m \in cur[p], LogAndErase(p, m)
  PROVE  (SendingOK /\ SentOK /\ WaitingOK /\ ClockBound /\ NothingSkipped /\ CurOK)'
<1>1. /\ \A q \in Proc \ {p} : cur'[q] = cur[q] /\ pairs'[q] = pairs[q]
      /\ pairs'[p] = pairs[p] \ {m} /\ cur'[p] = {} /\ cur[p] = {m}
      /\ UNCHANGED <<lsn, VC, main, sent, handed>>
  BY DEF IInv, TypeOK, WaitingOK, LogAndErase
<1>2. \A q \in Proc : Issued(q)' = Issued(q)
  BY <1>1 DEF Issued
<1>3. (SendingOK /\ SentOK /\ ClockBound)'
  BY <1>1, <1>2 DEF IInv, SendingOK, SentOK, ClockBound, TypeOK, Message, Issued
<1>4. (WaitingOK /\ CurOK)'
  BY <1>1 DEF IInv, WaitingOK, CurOK
<1>5. \A q \in Proc : \A n \in sent : Undelivered(q, n)' => Undelivered(q, n)
  BY <1>1 DEF Undelivered
<1>6. NothingSkipped'
  BY <1>1, <1>5 DEF IInv, NothingSkipped
<1> QED
  BY <1>3, <1>4, <1>6

THEOREM Invariance == Spec => []IInv
<1>1. IInv /\ [Next]_vars => IInv'
  <2> SUFFICES ASSUME IInv, [Next]_vars PROVE IInv'
    OBVIOUS
  <2>1. TypeOK'
    BY TypeStep DEF IInv
  <2>2. (SendingOK /\ SentOK /\ WaitingOK /\ ClockBound /\ NothingSkipped /\ CurOK)'
    <3>1. CASE UNCHANGED vars
      BY <3>1 DEF vars, IInv, SendingOK, SentOK, WaitingOK, ClockBound, NothingSkipped, CurOK,
                  Issued, Undelivered
    <3>2. CASE Next
      BY <3>2, ReadingStep, StampStep, SendStep, DeliverStep, AdvanceStep, EraseStep
      DEF Next, MainThread, Poller, Upcall
    <3> QED
      BY <3>1, <3>2
  <2> QED
    BY <2>1, <2>2 DEF IInv
<1> QED
  BY <1>1, InvInit, PTL DEF Spec

(* Every reachable state is well typed.                                     *)
THEOREM TypeCorrect == Spec => []TypeOK
<1>1. IInv => TypeOK
  BY DEF IInv
<1> QED
  BY <1>1, Invariance, PTL

-----------------------------------------------------------------------------
(* The output files.                                                       *)

LoggedClock == [p \in Proc |-> [s \in Proc |-> Logged(p, s)]]

LEMMA ClockType ==
  ASSUME TypeOK, NEW q \in Proc, NEW s \in Proc
  PROVE  VC[q][s] \in Nat
  BY DEF TypeOK, Clock

(* Counting a delivery does not log it yet.                                 *)
LEMMA AdvanceLogsNothing ==
  ASSUME IInv, NEW p \in Proc, NEW m \in pairs[p], Advance(p, m)
  PROVE  LoggedClock' = LoggedClock
<1>1. m.src \in Proc
  BY NextInOrder DEF Message
<1>2. cur[p] = {} /\ cur' = [cur EXCEPT ![p] = {m}] /\ VC' = [VC EXCEPT ![p][m.src] = @ + 1]
  BY DEF Advance
<1>3. ASSUME NEW q \in Proc, NEW s \in Proc
      PROVE  Logged(q, s)' = Logged(q, s)
  <2>1. VC[p][m.src] \in Nat /\ VC[q][s] \in Nat
    BY <1>1, ClockType DEF IInv
  <2>2. CASE q # p
    BY <1>2, <2>2 DEF IInv, TypeOK, Logged
  <2>3. CASE q = p /\ s # m.src
    <3>1. VC'[q][s] = VC[q][s]
      BY <1>1, <1>2, <2>3 DEF IInv, TypeOK, Clock
    <3>2. cur[q] = {} /\ cur'[q] = {m}
      BY <1>2, <2>3 DEF IInv, TypeOK
    <3> QED
      BY <2>1, <2>3, <3>1, <3>2 DEF Logged
  <2>4. CASE q = p /\ s = m.src
    <3>1. VC'[q][s] = VC[q][s] + 1
      BY <1>1, <1>2, <2>4 DEF IInv, TypeOK, Clock
    <3>2. cur[q] = {} /\ cur'[q] = {m}
      BY <1>2, <2>4 DEF IInv, TypeOK
    <3> QED
      BY <2>1, <2>4, <3>1, <3>2 DEF Logged
  <2> QED
    BY <2>2, <2>3, <2>4
<1> QED
  BY <1>3 DEF LoggedClock

(* Logging a delivery is the contract's Deliver of the next message.        *)
LEMMA EraseDelivers ==
  ASSUME IInv, NEW p \in Proc, NEW m \in cur[p], LogAndErase(p, m)
  PROVE  Fifo!Deliver(p, m.src)
<1>1. /\ m \in sent /\ m \in Message /\ m.src \in Proc /\ m.sn \in Nat
      /\ cur[p] = {m}
      /\ VC[p][m.src] = m.sn + 1
  <2>1. m \in sent /\ m \in Message /\ cur[p] = {m}
    BY DEF IInv, WaitingOK, TypeOK
  <2> QED
    BY <2>1 DEF IInv, CurOK, Message
<1>2. m.sn < lsn[m.src]
  <2>1. m.sn < Issued(m.src)
    BY <1>1 DEF IInv, SentOK
  <2>2. lsn[m.src] \in Nat /\ main[m.src].W[m.src] \in Nat
    BY <1>1, TypeOf DEF IInv, Clock
  <2> QED
    BY <1>1, <2>1, <2>2 DEF Issued, IInv, SendingOK
<1>3. cur' = [cur EXCEPT ![p] = {}] /\ VC' = VC /\ lsn' = lsn
      /\ log' = [log EXCEPT ![p] = Append(@, [ev |-> "d", src |-> m.src, sn |-> m.sn])]
  BY DEF LogAndErase
<1>4. Logged(p, m.src) = m.sn
  BY <1>1 DEF Logged
<1>5. Logged(p, m.src)' = m.sn + 1
  BY <1>1, <1>3 DEF Logged, IInv, TypeOK
<1>6. ASSUME NEW q \in Proc, NEW s \in Proc, q # p \/ s # m.src
      PROVE  Logged(q, s)' = Logged(q, s)
  <2>1. VC[q][s] \in Nat
    BY DEF IInv, TypeOK, Clock
  <2>2. CASE q # p
    BY <1>3, <2>2 DEF Logged, IInv, TypeOK
  <2>3. CASE q = p /\ s # m.src
    <3>1. cur'[q] = {} /\ cur[q] = {m}
      BY <1>1, <1>3, <2>3 DEF IInv, TypeOK
    <3> QED
      BY <1>3, <2>1, <2>3, <3>1 DEF Logged
  <2> QED
    BY <1>6, <2>2, <2>3
<1>7. LoggedClock' = [LoggedClock EXCEPT ![p][m.src] = @ + 1]
  BY <1>1, <1>4, <1>5, <1>6 DEF LoggedClock
<1>8. LoggedClock[p][m.src] = m.sn
  BY <1>1, <1>4 DEF LoggedClock
<1> QED
  BY <1>2, <1>3, <1>7, <1>8 DEF Fifo!Deliver, LoggedClock

(* The layer implements the FIFO contract of the output files.              *)
THEOREM FifoRefined == Spec => FifoSpec
<1>1. Init => Fifo!Init
  BY DEF Init, Fifo!Init, Logged, NoClock
<1>2. IInv /\ [Next]_vars => [Fifo!Next]_(Fifo!vars)
  <2> SUFFICES ASSUME IInv, [Next]_vars
               PROVE  Fifo!Next \/ (UNCHANGED <<lsn, log>> /\ LoggedClock' = LoggedClock)
    BY DEF Fifo!vars, LoggedClock
  <2>1. CASE UNCHANGED vars
    BY <2>1 DEF vars, LoggedClock, Logged
  <2>2. ASSUME NEW p \in Proc, StampAndLog(p)
        PROVE  Fifo!Next
    <3>1. Fifo!Broadcast(p)
      BY <2>2 DEF StampAndLog, Fifo!Broadcast, Logged
    <3> QED
      BY <3>1 DEF Fifo!Next
  <2>3. ASSUME NEW p \in Proc, NEW m \in cur[p], LogAndErase(p, m)
        PROVE  Fifo!Next
    <3>1. Fifo!Deliver(p, m.src)
      BY <2>3, EraseDelivers
    <3>2. m.src \in Proc
      BY DEF IInv, TypeOK, Message
    <3> QED
      BY <3>1, <3>2 DEF Fifo!Next
  <2>4. ASSUME NEW p \in Proc, NEW m \in pairs[p], Advance(p, m)
        PROVE  UNCHANGED <<lsn, log>> /\ LoggedClock' = LoggedClock
    BY <2>4, AdvanceLogsNothing DEF Advance
  <2>5. ASSUME NEW p \in Proc,
               \/ Enter(p)
               \/ \E d \in Deps[p] : ReadClock(p, d)
               \/ Send(p)
               \/ \E m \in sent : deliver(p, m)
        PROVE  UNCHANGED <<lsn, log, VC, cur>>
    BY <2>5 DEF Enter, ReadClock, Send, deliver
  <2>6. UNCHANGED <<VC, cur>> => LoggedClock' = LoggedClock
    BY DEF LoggedClock, Logged
  <2> QED
    BY <2>1, <2>2, <2>3, <2>4, <2>5, <2>6 DEF Next, MainThread, Poller, Upcall
<1> QED
  BY <1>1, <1>2, Invariance, PTL DEF Spec, FifoSpec, Fifo!Spec

-----------------------------------------------------------------------------
(* The polling thread is never stuck.                                      *)

(* What has been issued has been sent, one message for every number.        *)
Contiguous ==
    \A s \in Proc : \A n \in Nat :
        n < Issued(s) => \E m \in sent : m.src = s /\ m.sn = n

(* What a process took out of its map it has counted.                       *)
PastCounted ==
    \A q \in Proc : \A m \in sent :
        m \in handed[q] /\ ~(m \in pairs[q] \ cur[q]) => m.sn < VC[q][m.src]

(* No stamp asks for a message that is not issued.                          *)
StampsIssued ==
    /\ \A p, s \in Proc : main[p].W[s] <= Issued(s)
    /\ \A m \in sent : \A s \in Proc : m.W[s] <= Issued(s)

(* The stamp of m asks for x.                                               *)
Awaits(m, x) == x.sn < m.W[x.src]

(* Waiting has no circle: of any messages one awaits none of the others.    *)
WellOrdered == \A S \in SUBSET sent : S # {} => \E m \in S : \A x \in S : ~Awaits(m, x)

UInv == Contiguous /\ PastCounted /\ StampsIssued /\ WellOrdered

LEMMA StuckInit == Init => UInv
<1> SUFFICES ASSUME Init PROVE UInv
  OBVIOUS
<1>1. \A s \in Proc : Issued(s) = 0
  BY DEF Init, Issued
<1>2. Contiguous /\ PastCounted /\ StampsIssued
  BY <1>1 DEF Init, Contiguous, PastCounted, StampsIssued, NoClock
<1>3. WellOrdered
  BY DEF Init, WellOrdered
<1> QED
  BY <1>2, <1>3 DEF UInv

LEMMA IssuedType ==
  ASSUME IInv, NEW p \in Proc
  PROVE  Issued(p) \in Nat /\ (main[p].stage = "sending" => Issued(p) + 1 = lsn[p])
<1>1. lsn[p] \in Nat /\ main[p].W[p] \in Nat
  BY TypeOf DEF IInv, Clock
<1> QED
  BY <1>1 DEF Issued, IInv, SendingOK

LEMMA MessageType ==
  ASSUME IInv, NEW m \in sent
  PROVE  m \in Message /\ m.src \in Proc /\ m.sn \in Nat /\ \A s \in Proc : m.W[s] \in Nat
  BY DEF IInv, TypeOK, Message, Clock

(* The steps of the main thread that send nothing issue nothing.            *)
LEMMA StuckMainStep ==
  ASSUME IInv, UInv, NEW p \in Proc,
         Enter(p) \/ (\E d \in Deps[p] : ReadClock(p, d)) \/ StampAndLog(p)
  PROVE  UInv'
<1>1. UNCHANGED <<VC, sent, handed, pairs, cur>>
  BY DEF Enter, ReadClock, StampAndLog
<1>2. /\ \A q \in Proc : Issued(q)' = Issued(q)
      /\ \A q \in Proc \ {p} : main'[q] = main[q]
      /\ \A s \in Proc : main'[p].W[s] <= Issued(s)
  <2>1. \A s \in Proc : main[p].W[s] \in Nat /\ Issued(s) \in Nat
    BY IssuedType, TypeOf DEF IInv, Clock
  <2>2. CASE Enter(p)
    <3>1. main'[p] = [stage |-> "reading", todo |-> Deps[p], W |-> NoClock] /\ lsn' = lsn
          /\ main[p].stage = "idle"
      BY <2>2 DEF Enter, IInv, TypeOK
    <3>2. \A q \in Proc \ {p} : main'[q] = main[q]
      BY <2>2 DEF Enter, IInv, TypeOK
    <3> QED
      BY <2>1, <3>1, <3>2 DEF Issued, NoClock
  <2>3. ASSUME NEW d \in Deps[p], ReadClock(p, d)
        PROVE  /\ \A q \in Proc : Issued(q)' = Issued(q)
               /\ \A q \in Proc \ {p} : main'[q] = main[q]
               /\ \A s \in Proc : main'[p].W[s] <= Issued(s)
    <3>1. main'[p] = [main[p] EXCEPT !.todo = @ \ {d}, !.W = [@ EXCEPT ![d] = VC[p][d]]]
          /\ \A q \in Proc \ {p} : main'[q] = main[q]
      <4>1. main' = [main EXCEPT ![p] = [main[p] EXCEPT !.todo = @ \ {d},
                                                        !.W = [@ EXCEPT ![d] = VC[p][d]]]]
        BY <2>3, ReadClockMain
      <4>2. main \in [Proc -> Main]
        BY DEF IInv, TypeOK, Main
      <4> QED
        BY <4>1, <4>2
    <3>2. main[p] \in Main /\ main[p].W \in Clock /\ d \in Proc
      BY TypeOf, DepsAssumption DEF IInv
    <3>3. /\ main'[p].stage = main[p].stage
          /\ main'[p].W = [main[p].W EXCEPT ![d] = VC[p][d]]
      BY <3>1, <3>2 DEF Main
    <3>4. VC[p][d] <= Issued(d)
      BY <3>2 DEF IInv, ClockBound
    <3>5. \A s \in Proc : main'[p].W[s] <= Issued(s)
      BY <3>2, <3>3, <3>4 DEF UInv, StampsIssued, Clock
    <3>6. \A q \in Proc : Issued(q)' = Issued(q)
      <4>1. main[p].stage = "reading" /\ lsn' = lsn
        BY <2>3 DEF ReadClock
      <4> QED
        BY <3>1, <3>3, <4>1 DEF Issued
    <3> QED
      BY <3>1, <3>5, <3>6
  <2>4. CASE StampAndLog(p)
    <3>1. /\ main' = [main EXCEPT ![p] = [main[p] EXCEPT !.stage = "sending",
                                                         !.W = [@ EXCEPT ![p] = lsn[p]]]]
          /\ main[p].stage = "reading" /\ lsn' = [lsn EXCEPT ![p] = @ + 1]
      <4>1. main' = [main EXCEPT ![p] = [main[p] EXCEPT !.stage = "sending",
                                                        !.W = [@ EXCEPT ![p] = lsn[p]]]]
        BY <2>4 DEF StampAndLog
      <4>2. main[p].stage = "reading" /\ lsn' = [lsn EXCEPT ![p] = @ + 1]
        BY <2>4 DEF StampAndLog
      <4> QED
        BY <4>1, <4>2
    <3>2. main[p] \in Main /\ main[p].W \in Clock
      BY TypeOf DEF IInv
    <3>3. /\ main'[p].stage = "sending" /\ main'[p].W = [main[p].W EXCEPT ![p] = lsn[p]]
          /\ \A q \in Proc \ {p} : main'[q] = main[q] /\ lsn'[q] = lsn[q]
      BY <3>1, <3>2 DEF Main, IInv, TypeOK
    <3>4. Issued(p) = lsn[p] /\ main'[p].W[p] = lsn[p]
      BY <3>1, <3>2, <3>3 DEF Issued, Clock
    <3>5. \A q \in Proc : Issued(q)' = Issued(q)
      BY <3>3, <3>4 DEF Issued
    <3>6. \A s \in Proc : main'[p].W[s] <= Issued(s)
      BY <2>1, <3>2, <3>3, <3>4 DEF UInv, StampsIssued, Clock
    <3> QED
      BY <3>3, <3>5, <3>6
  <2> QED
    BY <2>2, <2>3, <2>4
<1>3. Contiguous'
  BY <1>1, <1>2 DEF UInv, Contiguous
<1>4. PastCounted' /\ WellOrdered'
  BY <1>1 DEF UInv, PastCounted, WellOrdered, Awaits
<1>5. StampsIssued'
  <2>1. \A q, s \in Proc : main'[q].W[s] <= Issued(s)'
    BY <1>2 DEF UInv, StampsIssued
  <2> QED
    BY <1>1, <1>2, <2>1 DEF UInv, StampsIssued
<1> QED
  BY <1>3, <1>4, <1>5 DEF UInv

(* The message sent awaits issued messages, and no message awaits it.       *)
LEMMA StuckSendStep ==
  ASSUME IInv, UInv, NEW p \in Proc, Send(p)
  PROVE  UInv'
<1> DEFINE new == Stamped(p)
<1>1. /\ \A q \in Proc \ {p} : main'[q] = main[q]
      /\ main'[p].stage = "idle" /\ main'[p].W = main[p].W
      /\ main[p].stage = "sending"
      /\ sent' = sent \cup {new}
      /\ UNCHANGED <<lsn, VC, handed, pairs, cur>>
  <2>1. main' = [main EXCEPT ![p] = [main[p] EXCEPT !.stage = "idle"]] /\ main[p] \in Main
    BY TypeOf DEF Send, IInv
  <2> QED
    BY <2>1 DEF IInv, TypeOK, Send, Main
<1>2. new.src = p /\ new.sn = main[p].W[p] /\ new.W = main[p].W
      /\ \A s \in Proc : new.W[s] \in Nat
  BY TypeOf DEF Stamped, IInv, Clock
<1>3. Issued(p) = new.sn /\ Issued(p)' = new.sn + 1 /\ new.sn \in Nat
  BY <1>1, <1>2 DEF IInv, SendingOK, Issued
<1>4. \A q \in Proc : Issued(q) \in Nat /\ Issued(q) <= Issued(q)'
  <2>1. \A q \in Proc \ {p} : Issued(q)' = Issued(q)
    BY <1>1 DEF Issued
  <2> QED
    BY <1>3, <2>1, IssuedType
<1> HIDE DEF new
<1>5. Contiguous'
  <2>1. ASSUME NEW s \in Proc, NEW n \in Nat, n < Issued(s)'
        PROVE  \E m \in sent' : m.src = s /\ m.sn = n
    <3>1. CASE n < Issued(s)
      BY <1>1, <3>1 DEF UInv, Contiguous
    <3>2. CASE s = p /\ n = new.sn
      BY <1>1, <1>2, <3>2
    <3>3. s # p => Issued(s)' = Issued(s)
      BY <1>1 DEF Issued
    <3> QED
      BY <1>3, <2>1, <3>1, <3>2, <3>3
  <2> QED
    BY <2>1 DEF Contiguous
<1>6. PastCounted'
  <2>1. \A q \in Proc : new \notin handed[q]
    <3>1. new \notin sent
      BY <1>2, <1>3 DEF IInv, SentOK
    <3> QED
      BY <3>1 DEF IInv, WaitingOK
  <2> QED
    BY <1>1, <2>1 DEF UInv, PastCounted
<1>7. StampsIssued'
  <2>1. \A q, s \in Proc : main'[q].W[s] = main[q].W[s] /\ main[q].W[s] \in Nat
    BY <1>1, TypeOf DEF IInv, Clock
  <2>2. \A q, s \in Proc : main'[q].W[s] <= Issued(s)'
    <3> TAKE q, s \in Proc
    <3>1. main[q].W[s] <= Issued(s) /\ main'[q].W[s] = main[q].W[s] /\ main[q].W[s] \in Nat
      BY <2>1 DEF UInv, StampsIssued
    <3>2. Issued(s) \in Nat /\ Issued(s) <= Issued(s)' /\ Issued(s)' \in Nat
      <4>1. s # p => Issued(s)' = Issued(s)
        BY <1>1 DEF Issued
      <4> QED
        BY <1>3, <1>4, <4>1
    <3> QED
      BY <3>1, <3>2
  <2>3. \A s \in Proc : new.W[s] <= Issued(s)'
    BY <1>1, <1>2, <2>2
  <2>4. \A m \in sent : \A s \in Proc : m.W[s] <= Issued(s)'
    <3> TAKE m \in sent
    <3> TAKE s \in Proc
    <3>1. m.W[s] \in Nat /\ m.W[s] <= Issued(s)
      BY MessageType DEF UInv, StampsIssued
    <3>2. Issued(s)' \in Nat
      BY <1>1, <1>3, <1>4 DEF Issued
    <3> QED
      BY <1>4, <3>1, <3>2
  <2> QED
    BY <1>1, <2>2, <2>3, <2>4 DEF StampsIssued
<1>8. WellOrdered'
  <2> SUFFICES ASSUME NEW S \in SUBSET (sent \cup {new}), S # {}
               PROVE  \E m \in S : \A x \in S : ~Awaits(m, x)
    BY <1>1 DEF WellOrdered, Awaits
  <2>1. ~Awaits(new, new)
    BY <1>2 DEF Awaits
  <2>2. \A m \in sent : ~Awaits(m, new)
    <3> TAKE m \in sent
    <3>1. m.W[p] <= new.sn /\ m.W[p] \in Nat
      BY <1>3, MessageType DEF UInv, StampsIssued
    <3> QED
      BY <1>2, <1>3, <3>1 DEF Awaits
  <2>3. CASE S \subseteq {new}
    BY <2>1, <2>3
  <2>4. CASE ~(S \subseteq {new})
    <3>1. S \ {new} \in SUBSET sent /\ S \ {new} # {}
      BY <2>4
    <3>2. PICK m \in S \ {new} : \A x \in S \ {new} : ~Awaits(m, x)
      BY <3>1 DEF UInv, WellOrdered
    <3> QED
      BY <2>2, <3>1, <3>2
  <2> QED
    BY <2>3, <2>4
<1> QED
  BY <1>5, <1>6, <1>7, <1>8 DEF UInv

(* The upcall and the polling thread.                                       *)
LEMMA StuckPollerStep ==
  ASSUME IInv, UInv, NEW p \in Proc, Poller(p) \/ Upcall(p)
  PROVE  UInv'
<1>1. UNCHANGED <<lsn, main, sent>>
  BY DEF Poller, Upcall, Advance, LogAndErase, deliver
<1>2. \A q \in Proc : Issued(q)' = Issued(q)
  BY <1>1 DEF Issued
<1>3. Contiguous' /\ StampsIssued' /\ WellOrdered'
  BY <1>1, <1>2 DEF UInv, Contiguous, StampsIssued, WellOrdered, Awaits
<1>4. PastCounted'
  <2> SUFFICES ASSUME NEW q \in Proc, NEW m \in sent, m \in handed'[q],
                      ~(m \in pairs'[q] \ cur'[q])
               PROVE  m.sn < VC'[q][m.src]
    BY <1>1 DEF PastCounted
  <2>1. m.src \in Proc /\ m.sn \in Nat /\ VC[q][m.src] \in Nat
    BY MessageType, ClockType DEF IInv
  <2>2. ASSUME NEW n \in sent, deliver(p, n)
        PROVE  m.sn < VC'[q][m.src]
    <3>1. VC' = VC /\ cur' = cur /\ n \notin handed[p]
          /\ handed' = [handed EXCEPT ![p] = @ \cup {n}]
          /\ pairs' = [pairs EXCEPT ![p] = @ \cup {n}]
      BY <2>2 DEF deliver
    <3>2. n \notin cur[p]
      BY <3>1 DEF IInv, WaitingOK
    <3>3. m \in handed[q] /\ ~(m \in pairs[q] \ cur[q])
      BY <3>1, <3>2 DEF IInv, TypeOK
    <3> QED
      BY <3>1, <3>3 DEF UInv, PastCounted
  <2>3. ASSUME NEW n \in pairs[p], Advance(p, n)
        PROVE  m.sn < VC'[q][m.src]
    <3>1. n \in sent /\ VC[p][n.src] = n.sn /\ n.src \in Proc
      BY <2>3, NextInOrder DEF Message
    <3>2. cur[p] = {} /\ cur' = [cur EXCEPT ![p] = {n}] /\ pairs' = pairs /\ handed' = handed
          /\ VC' = [VC EXCEPT ![p] = [VC[p] EXCEPT ![n.src] = @ + 1]]
      BY <2>3 DEF Advance
    <3>3. VC[q] \in Clock /\ VC[p] \in Clock /\ VC \in [Proc -> Clock] /\ cur \in [Proc -> SUBSET Message]
      BY DEF IInv, TypeOK
    <3>4. VC[q][m.src] <= VC'[q][m.src]
      BY <2>1, <3>1, <3>2, <3>3 DEF Clock
    <3>5. VC'[q][m.src] \in Nat
      BY <2>1, <3>1, <3>2, <3>3 DEF Clock
    <3>6. CASE q = p /\ m = n
      BY <2>1, <3>1, <3>2, <3>3, <3>6 DEF Clock
    <3>7. CASE ~(q = p /\ m = n)
      <4>1. m \in handed[q] /\ ~(m \in pairs[q] \ cur[q])
        BY <3>2, <3>3, <3>7
      <4>2. m.sn < VC[q][m.src]
        BY <4>1 DEF UInv, PastCounted
      <4> QED
        BY <2>1, <3>4, <3>5, <4>2
    <3> QED
      BY <3>6, <3>7
  <2>4. ASSUME NEW n \in cur[p], LogAndErase(p, n)
        PROVE  m.sn < VC'[q][m.src]
    <3>1. cur[p] = {n} /\ cur' = [cur EXCEPT ![p] = {}] /\ pairs' = [pairs EXCEPT ![p] = @ \ {n}]
          /\ VC' = VC /\ handed' = handed
      BY <2>4 DEF LogAndErase, IInv, WaitingOK
    <3>2. m \in handed[q] /\ ~(m \in pairs[q] \ cur[q])
      BY <3>1 DEF IInv, TypeOK
    <3> QED
      BY <3>1, <3>2 DEF UInv, PastCounted
  <2> QED
    BY <2>2, <2>3, <2>4 DEF Poller, Upcall
<1> QED
  BY <1>3, <1>4 DEF UInv

(* Of the messages held, one that awaits no other is covered: if the clock  *)
(* of some s were behind its stamp, the message of s the clock stands at    *)
(* would be issued, hence sent, handed over, not counted, and so held.      *)
LEMMA Unblocked ==
  ASSUME IInv, UInv, NEW q \in Proc, cur[q] = {}, sent \subseteq handed[q], pairs[q] # {}
  PROVE  \E m \in pairs[q] : isInferior(q, m.W)
<1>1. pairs[q] \in SUBSET sent
  BY DEF IInv, WaitingOK
<1>2. PICK m \in pairs[q] : \A x \in pairs[q] : ~Awaits(m, x)
  BY <1>1 DEF UInv, WellOrdered
<1>3. ASSUME NEW s \in Proc, ~(m.W[s] <= VC[q][s])
      PROVE  FALSE
  <2>1. m.W[s] \in Nat /\ VC[q][s] \in Nat /\ Issued(s) \in Nat
    BY <1>1, MessageType, ClockType, IssuedType DEF IInv
  <2>2. m.W[s] <= Issued(s)
    BY <1>1 DEF UInv, StampsIssued
  <2>3. VC[q][s] < m.W[s] /\ VC[q][s] < Issued(s)
    BY <1>3, <2>1, <2>2
  <2>4. PICK x \in sent : x.src = s /\ x.sn = VC[q][s]
    BY <2>1, <2>3 DEF UInv, Contiguous
  <2>5. x \in pairs[q]
    <3>1. ~(x.sn < VC[q][x.src])
      BY <2>1, <2>4
    <3> QED
      BY <2>4, <3>1 DEF UInv, PastCounted
  <2> QED
    BY <1>2, <2>3, <2>4, <2>5 DEF Awaits
<1> QED
  BY <1>2, <1>3 DEF isInferior

(* A process that was handed everything sent so far always holds a message  *)
(* its clock covers, if it holds any: the causal order never deadlocks.     *)
THEOREM NeverStuck == Spec => []NothingStuck
<1>1. IInv /\ UInv /\ [Next]_vars => UInv'
  <2> SUFFICES ASSUME IInv, UInv, [Next]_vars PROVE UInv'
    OBVIOUS
  <2>1. CASE UNCHANGED vars
    BY <2>1 DEF vars, UInv, Contiguous, PastCounted, StampsIssued, WellOrdered, Awaits, Issued
  <2>2. CASE Next
    BY <2>2, StuckMainStep, StuckSendStep, StuckPollerStep DEF Next, MainThread
  <2> QED
    BY <2>1, <2>2
<1>2. IInv /\ UInv => NothingStuck
  BY Unblocked DEF NothingStuck
<1> QED
  BY <1>1, <1>2, StuckInit, Invariance, PTL DEF Spec

=============================================================================
