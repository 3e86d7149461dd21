----------------------------- MODULE FifoProofs -----------------------------
(***************************************************************************)
(* Theorems about Fifo for any processes and any numbers of messages, and  *)
(* for any text given to broadcastMessage but one that reads as a number   *)
(* of startBroadcast.                                                      *)
(***************************************************************************)
EXTENDS Fifo, TLAPS

-----------------------------------------------------------------------------
(* What a process gives to broadcastMessage, if anything, does not read as  *)
(* the number of a message of its batch, nor as the one after it.  Nothing  *)
(* in the code sees to it: "abc", of the process 1, reads 1.                *)
NothingMisread ==
    \A p \in Proc : \A m \in Script[p] :
        ~m.numbered => Misread[[orig |-> p, body |-> m]] \notin 1..(Batch[p] + 1)

(* What holds whatever the texts: what is kept was handed up, and what was  *)
(* handed up was sent.                                                      *)
TypeInv ==
    /\ TypeOK /\ StackTypeOK
    /\ \A p \in Proc : sent[p] \subseteq Script[p]
    /\ \A p \in Proc : \A k \in delivered[p] : k.body \in sent[k.orig]
    /\ \A p \in Proc : kept[p] \subseteq delivered[p]

(* The inductive invariant.                                                *)

(* How many messages p has handed to URB.                                   *)
Issued(p) == IF main[p] = "send" THEN lsn[p] - 1 ELSE lsn[p]

CountsOK ==
    \A p \in Proc :
        /\ lsn[p] <= Batch[p] + Extra[p]
        /\ main[p] = "send" => lsn[p] \in 1..Batch[p]

(* What p has sent are its first messages, of which the batch is numbered.  *)
SentOK ==
    \A p \in Proc : \A m \in sent[p] :
        \E n \in Nat : n \in 1..Issued(p) /\ m = Text(n, n <= Batch[p])

(* What is kept or handed up was sent.                                      *)
KeptOK == \A p \in Proc : kept[p] \subseteq delivered[p]

HandedOK == \A p \in Proc : \A k \in delivered[p] : k.body \in sent[k.orig]

(* Of what was handed up, the messages that are no longer kept are those    *)
(* with the numbers that have been delivered.                               *)
SplitOK ==
    \A p \in Proc : \A k \in delivered[p] :
        k \notin kept[p] <=> k.body.numbered /\ k.body.n < next[p][k.orig]

(* What was delivered was handed up under its number.                       *)
PastOK == \A p, s \in Proc : HandedUpTo(p, s, next[p][s] - 1)

(* Nobody is past what a sender has numbered.                               *)
NextBound == \A p, s \in Proc : next[p][s] <= Batch[s] + 1 /\ next[p][s] <= Issued(s) + 1

(* Only of the sender whose message was just handed up can one be next.     *)
WalkOK ==
    \A p \in Proc :
        /\ \A s, t \in walk[p] : s = t
        /\ \A s \in Proc \ walk[p] : NextOf(p, s) = {}

IInv ==
    /\ TypeOK /\ StackTypeOK
    /\ CountsOK /\ SentOK
    /\ KeptOK /\ HandedOK /\ SplitOK /\ PastOK
    /\ NextBound /\ WalkOK

-----------------------------------------------------------------------------
(* The messages of a script.                                               *)

LEMMA Counts == \A p \in Proc : Batch[p] \in Nat /\ Extra[p] \in Nat
  BY CountsAssumption

LEMMA TextFields == \A n, b : Text(n, b).n = n /\ Text(n, b).numbered = b
  BY DEF Text

LEMMA ScriptIs ==
  ASSUME NEW p \in Proc, NEW m \in Script[p]
  PROVE  \E n \in 1..(Batch[p] + Extra[p]) : m = Text(n, n <= Batch[p])
<1>1. Script[p] = {Text(n, n <= Batch[p]) : n \in 1..(Batch[p] + Extra[p])}
  BY TextAssumption
<1> QED
  BY <1>1

LEMMA KeyFields == \A k \in Key : k.orig \in Proc /\ k.body \in Payload
  BY DEF Key

(* A message handed up: its sender, its number, and whether it shows.       *)
LEMMA HandedIs ==
  ASSUME IInv, NEW p \in Proc, NEW k \in delivered[p]
  PROVE  /\ k \in Key /\ k.orig \in Proc
         /\ k.body.n \in Nat /\ 1 <= k.body.n /\ k.body.n <= Issued(k.orig)
         /\ k.body.numbered = (k.body.n <= Batch[k.orig])
         /\ k.body = Text(k.body.n, k.body.numbered)
         /\ Issued(k.orig) \in Nat
<1>1. k \in Key /\ k.orig \in Proc
  BY KeyFields DEF IInv, TypeOK
<1>2. PICK n \in Nat : n \in 1..Issued(k.orig) /\ k.body = Text(n, n <= Batch[k.orig])
  BY <1>1 DEF IInv, HandedOK, SentOK
<1>3. Issued(k.orig) \in Nat
  BY <1>1 DEF IInv, StackTypeOK, CountsOK, Issued
<1>4. k.body.n = n /\ k.body.numbered = (n <= Batch[k.orig])
  <2> DEFINE b == n <= Batch[k.orig]
  <2>1. k.body = Text(n, b)
    BY <1>2
  <2>2. Text(n, b).n = n /\ Text(n, b).numbered = b
    BY TextFields, Zenon
  <2> HIDE DEF b
  <2>3. k.body.n = n /\ k.body.numbered = b
    BY <2>1, <2>2, Zenon
  <2> QED
    BY <2>3, Zenon DEF b
<1>5. 1 <= n /\ n <= Issued(k.orig)
  BY <1>2, <1>3
<1> QED
  BY <1>1, <1>2, <1>3, <1>4, <1>5, Zenon

(* What a kept message without number is taken for is never next.           *)
LEMMA NextIsNumbered ==
  ASSUME NothingMisread, IInv, NEW p \in Proc, NEW s \in Proc, NEW k \in NextOf(p, s)
  PROVE  /\ k \in kept[p] /\ k \in delivered[p] /\ k.orig = s
         /\ k.body.numbered /\ k.body.n = next[p][s]
<1>1. k \in kept[p] /\ k \in delivered[p] /\ k.orig = s /\ SequenceNumber(k) = next[p][s]
  BY DEF NextOf, IInv, KeptOK
<1>2. k.body \in Script[s]
  <2>1. PICK n \in Nat : n \in 1..Issued(s) /\ k.body = Text(n, n <= Batch[s])
    BY <1>1, HandedIs DEF IInv, HandedOK, SentOK
  <2>2. Issued(s) \in Nat /\ Issued(s) <= Batch[s] + Extra[s]
    BY Counts DEF IInv, StackTypeOK, CountsOK, Issued
  <2>3. n \in 1..(Batch[s] + Extra[s])
    BY <2>1, <2>2, Counts
  <2>4. Script[s] = {Text(i, i <= Batch[s]) : i \in 1..(Batch[s] + Extra[s])}
    BY TextAssumption
  <2> QED
    BY <2>1, <2>3, <2>4
<1>3. ASSUME ~k.body.numbered PROVE FALSE
  <2>1. k = [orig |-> s, body |-> k.body]
    BY <1>1, HandedIs DEF Key
  <2>2. Misread[k] \notin 1..(Batch[s] + 1)
    BY <1>2, <1>3, <2>1 DEF NothingMisread
  <2>3. Misread[k] = next[p][s]
    BY <1>1, <1>3 DEF SequenceNumber
  <2>4. next[p][s] \in 1..(Batch[s] + 1)
    BY Counts DEF IInv, NextBound, StackTypeOK
  <2> QED
    BY <2>2, <2>3, <2>4
<1> QED
  BY <1>1, <1>3 DEF SequenceNumber

(* A numbered message that was handed up is named by its number.            *)
LEMMA NumberedIs ==
  ASSUME IInv, NEW p \in Proc, NEW k \in delivered[p], k.body.numbered
  PROVE  k = [orig |-> k.orig, body |-> Text(k.body.n, TRUE)]
<1>1. k = [orig |-> k.orig, body |-> k.body]
  BY HandedIs DEF Key
<1>2. k.body.numbered \in BOOLEAN /\ k.body = Text(k.body.n, k.body.numbered)
  BY HandedIs
<1> QED
  BY <1>1, <1>2

-----------------------------------------------------------------------------
(* Every step preserves the invariant.                                     *)

LEMMA Initially == StackInit => IInv
<1> SUFFICES ASSUME StackInit PROVE IInv
  OBVIOUS
<1>1. TypeOK
  BY DEF StackInit, Init, TypeOK
<1>2. StackTypeOK
  BY DEF StackInit, StackTypeOK
<1>3. CountsOK /\ SentOK /\ KeptOK /\ HandedOK /\ SplitOK
  BY Counts DEF StackInit, Init, CountsOK, SentOK, KeptOK, HandedOK, SplitOK
<1>4. PastOK /\ NextBound
  BY Counts DEF StackInit, PastOK, HandedUpTo, NextBound, Issued
<1>5. WalkOK
  BY DEF StackInit, WalkOK, NextOf
<1> QED
  BY <1>1, <1>2, <1>3, <1>4, <1>5 DEF IInv

LEMMA NumberAndLogKeeps ==
  ASSUME IInv, NEW p \in Proc, NumberAndLog(p)
  PROVE  IInv'
<1>1. TypeOK' /\ StackTypeOK'
  <2>1. Line("b", p, lsn[p] + 1) \in [ev : {"b", "d"}, src : Proc, sn : Nat]
    BY DEF IInv, StackTypeOK, Line
  <2> QED
    BY <2>1 DEF IInv, TypeOK, StackTypeOK, NumberAndLog, vars
<1>2. \A q \in Proc : Issued(q)' = Issued(q)
  BY DEF IInv, StackTypeOK, NumberAndLog, Issued
<1>3. CountsOK'
  BY Counts DEF IInv, StackTypeOK, CountsOK, NumberAndLog
<1>4. SentOK' /\ NextBound'
  BY <1>2 DEF IInv, SentOK, NextBound, NumberAndLog, vars
<1>5. KeptOK' /\ HandedOK' /\ SplitOK' /\ PastOK'
  BY DEF IInv, KeptOK, HandedOK, SplitOK, PastOK, HandedUpTo, NumberAndLog, vars
<1>6. WalkOK'
  BY DEF IInv, WalkOK, NextOf, SequenceNumber, NumberAndLog
<1> QED
  BY <1>1, <1>3, <1>4, <1>5, <1>6 DEF IInv

(* A message more: what both of the main thread's broadcasts have in common *)
LEMMA SendKeeps ==
  ASSUME IInv, NEW p \in Proc, NEW b \in BOOLEAN,
         StackTypeOK', CountsOK',
         \A q \in Proc : Issued(q)' = IF q = p THEN Issued(q) + 1 ELSE Issued(q),
         b = (Issued(p) + 1 <= Batch[p]),
         Broadcast(p, Text(Issued(p) + 1, b)),
         UNCHANGED <<kept, next, walk, log>>
  PROVE  IInv'
<1> DEFINE m == Text(Issued(p) + 1, b)
<1>1. TypeOK'
  <2>1. m \in Payload
    BY TextAssumption DEF Broadcast
  <2> HIDE DEF m
  <2> QED
    BY <2>1 DEF IInv, TypeOK, Broadcast, m
<1>2. \A q \in Proc : Issued(q) \in Nat
  BY DEF IInv, StackTypeOK, CountsOK, Issued
<1>3. SentOK'
  <2> SUFFICES ASSUME NEW q \in Proc, NEW x \in sent'[q]
               PROVE  \E n \in Nat : n \in 1..Issued(q)' /\ x = Text(n, n <= Batch[q])
    BY DEF SentOK
  <2>1. CASE x \in sent[q]
    <3>1. PICK n \in Nat : n \in 1..Issued(q) /\ x = Text(n, n <= Batch[q])
      BY <2>1 DEF IInv, SentOK
    <3>2. n \in 1..Issued(q)'
      BY <3>1, <1>2
    <3> QED
      BY <3>1, <3>2
  <2>2. CASE x \notin sent[q]
    <3>1. q = p /\ x = m
      BY <2>2 DEF IInv, TypeOK, Broadcast
    <3>2. Issued(p) + 1 \in 1..Issued(p)' /\ Issued(p) + 1 \in Nat
      BY <1>2
    <3>3. x = Text(Issued(p) + 1, Issued(p) + 1 <= Batch[p])
      BY <3>1
    <3> QED
      BY <3>1, <3>2, <3>3
  <2> QED
    BY <2>1, <2>2
<1>4. NextBound'
  <2> SUFFICES ASSUME NEW q \in Proc, NEW s \in Proc
               PROVE  next[q][s] <= Batch[s] + 1 /\ next[q][s] <= Issued(s)' + 1
    BY DEF NextBound
  <2>1. next[q][s] <= Batch[s] + 1 /\ next[q][s] <= Issued(s) + 1 /\ next[q][s] \in Nat
    BY DEF IInv, StackTypeOK, NextBound
  <2>2. Issued(s) \in Nat /\ (Issued(s)' = Issued(s) \/ Issued(s)' = Issued(s) + 1)
    BY <1>2
  <2> QED
    BY <2>1, <2>2
<1>5. HandedOK'
  <2>1. \A q \in Proc : sent[q] \subseteq sent'[q]
    BY DEF IInv, TypeOK, Broadcast
  <2> QED
    BY <2>1, HandedIs DEF IInv, HandedOK, Broadcast
<1>6. KeptOK' /\ SplitOK' /\ PastOK'
  BY DEF IInv, KeptOK, SplitOK, PastOK, HandedUpTo, Broadcast
<1>7. WalkOK'
  BY DEF IInv, WalkOK, NextOf, SequenceNumber
<1> QED
  BY <1>1, <1>3, <1>4, <1>5, <1>6, <1>7 DEF IInv

LEMMA SendNumberedKeeps ==
  ASSUME IInv, NEW p \in Proc, SendNumbered(p)
  PROVE  IInv'
<1>1. lsn[p] \in 1..Batch[p] /\ Issued(p) = lsn[p] - 1
  BY DEF IInv, CountsOK, SendNumbered, Issued
<1>2. Issued(p) + 1 = lsn[p] /\ lsn[p] <= Batch[p]
  BY <1>1, Counts
<1>3. StackTypeOK' /\ CountsOK'
  BY DEF IInv, StackTypeOK, CountsOK, SendNumbered
<1>4. \A q \in Proc : Issued(q)' = IF q = p THEN Issued(q) + 1 ELSE Issued(q)
  BY <1>2 DEF IInv, StackTypeOK, SendNumbered, Issued
<1>5. Broadcast(p, Text(Issued(p) + 1, TRUE)) /\ UNCHANGED <<kept, next, walk, log>>
  BY <1>2 DEF SendNumbered
<1> QED
  BY <1>2, <1>3, <1>4, <1>5, SendKeeps

LEMMA BroadcastUnnumberedKeeps ==
  ASSUME IInv, NEW p \in Proc, BroadcastUnnumbered(p)
  PROVE  IInv'
<1>1. Issued(p) = lsn[p] /\ lsn[p] \in Nat /\ ~(lsn[p] + 1 <= Batch[p])
  BY Counts DEF IInv, StackTypeOK, BroadcastUnnumbered, Issued
<1>2. lsn[p] + 1 <= Batch[p] + Extra[p]
  <2>1. PICK n \in 1..(Batch[p] + Extra[p]) : Text(lsn[p] + 1, FALSE) = Text(n, n <= Batch[p])
    BY ScriptIs DEF BroadcastUnnumbered, Broadcast
  <2>2. Text(lsn[p] + 1, FALSE).n = lsn[p] + 1
    BY TextFields, Zenon
  <2>3. \A b : Text(n, b).n = n
    BY TextFields, Zenon
  <2>4. lsn[p] + 1 = n
    BY <2>1, <2>2, <2>3, Zenon
  <2> QED
    BY <2>4, Counts
<1>3. StackTypeOK' /\ CountsOK'
  BY <1>1, <1>2, SMTT(30) DEF IInv, StackTypeOK, CountsOK, BroadcastUnnumbered
<1>4. \A q \in Proc : Issued(q)' = IF q = p THEN Issued(q) + 1 ELSE Issued(q)
  BY <1>1 DEF IInv, StackTypeOK, BroadcastUnnumbered, Issued
<1>5. Broadcast(p, Text(Issued(p) + 1, FALSE)) /\ UNCHANGED <<kept, next, walk, log>>
  BY <1>1 DEF BroadcastUnnumbered
<1>6. FALSE = (Issued(p) + 1 <= Batch[p])
  BY <1>1
<1> QED
  BY <1>3, <1>4, <1>5, <1>6, SendKeeps

LEMMA deliverKeeps ==
  ASSUME IInv, NEW p \in Proc, NEW k \in Key, deliver(p, k)
  PROVE  IInv'
<1>1. TypeOK' /\ StackTypeOK'
  BY KeyFields DEF IInv, TypeOK, StackTypeOK, deliver, Deliver
<1>2. \A q \in Proc : Issued(q)' = Issued(q)
  BY DEF deliver, Issued
<1>3. CountsOK' /\ SentOK' /\ NextBound'
  BY <1>2 DEF IInv, CountsOK, SentOK, NextBound, deliver, Deliver
<1>4. /\ \A q \in Proc : delivered'[q] = IF q = p THEN delivered[q] \cup {k} ELSE delivered[q]
      /\ \A q \in Proc : kept'[q] = IF q = p THEN kept[q] \cup {k} ELSE kept[q]
      /\ next' = next /\ sent' = sent /\ k \notin delivered[p] /\ k.body \in sent[k.orig]
  BY DEF IInv, TypeOK, StackTypeOK, deliver, Deliver
<1>5. KeptOK' /\ HandedOK' /\ PastOK'
  <2>1. \A q \in Proc : delivered[q] \subseteq delivered'[q]
    BY <1>4
  <2>2. KeptOK'
    BY <1>4 DEF IInv, KeptOK
  <2>3. HandedOK'
    <3> SUFFICES ASSUME NEW q \in Proc, NEW x \in delivered'[q] PROVE x.body \in sent[x.orig]
      BY <1>4 DEF HandedOK
    <3>1. x \in delivered[q] \/ x = k
      BY <1>4
    <3>2. CASE x \in delivered[q]
      BY <3>2 DEF IInv, HandedOK
    <3>3. CASE x = k
      BY <1>4, <3>3
    <3> QED
      BY <3>1, <3>2, <3>3
  <2>4. PastOK'
    <3>1. \A q, s \in Proc : HandedUpTo(q, s, next[q][s] - 1) => HandedUpTo(q, s, next[q][s] - 1)'
      BY <1>4, <2>1 DEF HandedUpTo
    <3> QED
      BY <1>4, <3>1 DEF IInv, PastOK
  <2> QED
    BY <2>2, <2>3, <2>4
<1>6. SplitOK'
  <2>1. ASSUME k.body.numbered, k.body.n < next[p][k.orig] PROVE FALSE
    <3>1. k.orig \in Proc
      BY KeyFields
    <3>2. PICK n \in Nat : n \in 1..Issued(k.orig) /\ k.body = Text(n, n <= Batch[k.orig])
      BY <1>4, <3>1 DEF IInv, SentOK
    <3> DEFINE b == n <= Batch[k.orig]
    <3>4. k.body = Text(n, b) /\ b \in BOOLEAN
      BY <3>2
    <3> HIDE DEF b
    <3>3. Text(n, b).n = n /\ Text(n, b).numbered = b
      BY TextFields, Zenon
    <3>5. k.body.n = n /\ b = TRUE
      BY <2>1, <3>3, <3>4, Zenon
    <3>6. k = [orig |-> k.orig, body |-> Text(n, TRUE)]
      BY <3>4, <3>5 DEF Key
    <3>7. next[p][k.orig] \in Nat /\ n < next[p][k.orig] /\ n >= 1
      BY <2>1, <3>1, <3>2, <3>5 DEF IInv, StackTypeOK
    <3>8. n \in 1..(next[p][k.orig] - 1)
      BY <3>7
    <3>9. HandedUpTo(p, k.orig, next[p][k.orig] - 1)
      BY <3>1 DEF IInv, PastOK
    <3>10. [orig |-> k.orig, body |-> Text(n, TRUE)] \in delivered[p]
      BY <3>8, <3>9 DEF HandedUpTo
    <3> QED
      BY <1>4, <3>6, <3>10
  <2>2. ASSUME NEW q \in Proc, NEW j \in delivered'[q]
        PROVE  j \notin kept'[q] <=> j.body.numbered /\ j.body.n < next'[q][j.orig]
    <3>1. CASE q = p /\ j = k
      BY <1>4, <2>1, <3>1
    <3>2. CASE j \in delivered[q] /\ (q # p \/ j # k)
      <4>1. j \in kept'[q] <=> j \in kept[q]
        BY <1>4, <3>2
      <4>2. j \notin kept[q] <=> j.body.numbered /\ j.body.n < next[q][j.orig]
        BY <3>2 DEF IInv, SplitOK
      <4> QED
        BY <1>4, <4>1, <4>2
    <3> QED
      BY <1>4, <2>2, <3>1, <3>2
  <2> QED
    BY <2>2 DEF SplitOK
<1>7. WalkOK'
  <2> SUFFICES ASSUME NEW q \in Proc
               PROVE  /\ \A s, t \in walk'[q] : s = t
                      /\ \A s \in Proc \ walk'[q] : NextOf(q, s)' = {}
    BY DEF WalkOK
  <2>1. CASE q = p
    <3>1. walk[q] = {} /\ walk'[q] = {k.orig}
      BY <2>1 DEF IInv, StackTypeOK, deliver
    <3>2. \A s \in Proc \ {k.orig} : NextOf(p, s)' = NextOf(p, s)
      BY <1>4 DEF NextOf, SequenceNumber
    <3>3. \A s \in Proc : NextOf(p, s) = {}
      BY <2>1, <3>1 DEF IInv, WalkOK
    <3> QED
      BY <2>1, <3>1, <3>2, <3>3
  <2>2. CASE q # p
    <3>1. walk'[q] = walk[q]
      BY <2>2 DEF IInv, StackTypeOK, deliver
    <3>2. \A s \in Proc : NextOf(q, s)' = NextOf(q, s)
      BY <1>4, <2>2 DEF NextOf, SequenceNumber
    <3> QED
      BY <2>2, <3>1, <3>2 DEF IInv, WalkOK
  <2> QED
    BY <2>1, <2>2
<1> QED
  BY <1>1, <1>3, <1>5, <1>6, <1>7 DEF IInv

(* What a turn of the loop does.                                            *)
LEMMA DeliverNextIs ==
  ASSUME NothingMisread, IInv, NEW p \in Proc, NEW s \in Proc, DeliverNext(p, s)
  PROVE  \E k \in NextOf(p, s) :
            /\ s \in walk[p]
            /\ kept' = [kept EXCEPT ![p] = @ \ {k}]
            /\ next' = [next EXCEPT ![p][s] = @ + 1]
            /\ log' = [log EXCEPT ![p] = Append(@, Line("d", s, next[p][s]))]
            /\ k \in kept[p] /\ k \in delivered[p]
            /\ k = [orig |-> s, body |-> Text(next[p][s], TRUE)]
            /\ next[p][s] \in Nat /\ 1 <= next[p][s]
            /\ next[p][s] <= Batch[s] /\ next[p][s] <= Issued(s)
<1>1. PICK k \in NextOf(p, s) :
            /\ kept' = [kept EXCEPT ![p] = @ \ {k}]
            /\ next' = [next EXCEPT ![p][s] = @ + 1]
            /\ log' = [log EXCEPT ![p] = Append(@, Line("d", s, k.body.n))]
  BY DEF DeliverNext
<1>2. /\ k \in kept[p] /\ k \in delivered[p] /\ k.orig = s
      /\ k.body.numbered /\ k.body.n = next[p][s]
  BY NextIsNumbered
<1>3. k = [orig |-> s, body |-> Text(next[p][s], TRUE)]
  <2>1. k = [orig |-> k.orig, body |-> Text(k.body.n, TRUE)]
    BY <1>2, NumberedIs
  <2> QED
    BY <1>2, <2>1
<1>4. /\ k.body.n \in Nat /\ 1 <= k.body.n /\ k.body.n <= Issued(k.orig)
      /\ k.body.numbered = (k.body.n <= Batch[k.orig])
  BY <1>2, HandedIs
<1>5. next[p][s] \in Nat /\ 1 <= next[p][s] /\ next[p][s] <= Issued(s) /\ next[p][s] <= Batch[s]
  BY <1>2, <1>4
<1>6. s \in walk[p]
  BY DEF DeliverNext
<1> QED
  BY <1>1, <1>2, <1>3, <1>5, <1>6

LEMMA DeliverNextKeeps ==
  ASSUME NothingMisread, IInv, NEW p \in Proc, NEW s \in Proc, DeliverNext(p, s)
  PROVE  IInv'
<1>1. PICK k \in NextOf(p, s) :
            /\ s \in walk[p]
            /\ kept' = [kept EXCEPT ![p] = @ \ {k}]
            /\ next' = [next EXCEPT ![p][s] = @ + 1]
            /\ log' = [log EXCEPT ![p] = Append(@, Line("d", s, next[p][s]))]
            /\ k \in kept[p] /\ k \in delivered[p]
            /\ k = [orig |-> s, body |-> Text(next[p][s], TRUE)]
            /\ next[p][s] \in Nat /\ 1 <= next[p][s]
            /\ next[p][s] <= Batch[s] /\ next[p][s] <= Issued(s)
  BY DeliverNextIs
<1>2. UNCHANGED <<alive, sent, delivered, lsn, main, walk>>
  BY DEF DeliverNext, vars
<1>3. TypeOK' /\ StackTypeOK'
  <2>1. Line("d", s, next[p][s]) \in [ev : {"b", "d"}, src : Proc, sn : Nat]
    BY <1>1 DEF Line
  <2>2. TypeOK'
    BY <1>2 DEF IInv, TypeOK
  <2>3. kept' \in [Proc -> SUBSET Key]
    BY <1>1 DEF IInv, StackTypeOK
  <2>5. next' \in [Proc -> [Proc -> Nat \ {0}]]
    <3>1. next \in [Proc -> [Proc -> Nat \ {0}]]
      BY DEF IInv, StackTypeOK
    <3>2. next[p][s] + 1 \in Nat \ {0}
      BY <1>1
    <3> QED
      BY <1>1, <3>1, <3>2
  <2>4. log' \in [Proc -> Seq([ev : {"b", "d"}, src : Proc, sn : Nat])]
    BY <1>1, <2>1 DEF IInv, StackTypeOK
  <2> QED
    BY <1>2, <2>2, <2>3, <2>4, <2>5 DEF IInv, StackTypeOK
<1>4. \A q \in Proc : Issued(q)' = Issued(q) /\ Issued(q) \in Nat
  BY <1>2, SMTT(30) DEF IInv, StackTypeOK, CountsOK, Issued
<1>5. /\ \A q \in Proc : kept'[q] = IF q = p THEN kept[q] \ {k} ELSE kept[q]
      /\ \A q, t \in Proc : next'[q][t] = IF q = p /\ t = s THEN next[q][t] + 1 ELSE next[q][t]
      /\ \A q, t \in Proc : next[q][t] \in Nat \ {0}
  BY <1>1 DEF IInv, StackTypeOK
<1>6. CountsOK' /\ SentOK' /\ KeptOK' /\ HandedOK'
  BY <1>2, <1>4, <1>5 DEF IInv, CountsOK, SentOK, KeptOK, HandedOK
<1>7. NextBound'
  <2> SUFFICES ASSUME NEW q \in Proc, NEW t \in Proc
               PROVE  next'[q][t] <= Batch[t] + 1 /\ next'[q][t] <= Issued(t) + 1
    BY <1>4 DEF NextBound
  <2>1. CASE q = p /\ t = s
    BY <1>1, <1>4, <1>5, <2>1, Counts
  <2>2. CASE ~(q = p /\ t = s)
    BY <1>5, <2>2 DEF IInv, NextBound
  <2> QED
    BY <2>1, <2>2
<1>8. PastOK'
  <2> SUFFICES ASSUME NEW q \in Proc, NEW t \in Proc, NEW n \in 1..(next'[q][t] - 1)
               PROVE  [orig |-> t, body |-> Text(n, TRUE)] \in delivered[q]
    BY <1>2 DEF PastOK, HandedUpTo
  <2>1. CASE n \in 1..(next[q][t] - 1)
    BY <2>1 DEF IInv, PastOK, HandedUpTo
  <2>2. CASE n \notin 1..(next[q][t] - 1)
    <3>1. q = p /\ t = s /\ n = next[p][s]
      BY <1>5, <2>2
    <3> QED
      BY <1>1, <3>1
  <2> QED
    BY <2>1, <2>2
<1>9. SplitOK'
  <2> SUFFICES ASSUME NEW q \in Proc, NEW j \in delivered[q]
               PROVE  j \notin kept'[q] <=> j.body.numbered /\ j.body.n < next'[q][j.orig]
    BY <1>2 DEF SplitOK
  <2>1. /\ j.orig \in Proc /\ j.body.n \in Nat /\ next[q][j.orig] \in Nat
        /\ j \notin kept[q] <=> j.body.numbered /\ j.body.n < next[q][j.orig]
    BY HandedIs, <1>5 DEF IInv, SplitOK
  <2>2. CASE q = p /\ j = k
    <3>1. k.orig = s /\ k.body.n = next[p][s] /\ k.body.numbered
      BY NextIsNumbered
    <3>2. next'[q][j.orig] = j.body.n + 1 /\ j \notin kept'[q]
      BY <1>5, <2>2, <3>1
    <3>3. j.body.numbered /\ j.body.n < next'[q][j.orig]
      BY <2>1, <2>2, <3>1, <3>2
    <3> QED
      BY <3>2, <3>3
  <2>3. CASE q = p /\ j.orig = s /\ j # k
    <3>1. ASSUME j.body.numbered PROVE j.body.n # next[p][s]
      <4>1. j = [orig |-> j.orig, body |-> Text(j.body.n, TRUE)]
        BY <2>3, <3>1, NumberedIs
      <4> QED
        BY <1>1, <2>3, <4>1
    <3>2. next'[q][j.orig] = next[q][j.orig] + 1 /\ (j \in kept'[q] <=> j \in kept[q])
      BY <1>5, <2>1, <2>3
    <3> QED
      BY <2>1, <2>3, <3>1, <3>2
  <2>4. CASE q # p \/ j.orig # s
    <3>1. next'[q][j.orig] = next[q][j.orig]
      BY <1>5, <2>1, <2>4
    <3>3. k.orig = s
      BY NextIsNumbered
    <3>2. j \in kept'[q] <=> j \in kept[q]
      BY <1>5, <2>4, <3>3
    <3> QED
      BY <2>1, <3>1, <3>2
  <2> QED
    BY <2>2, <2>3, <2>4
<1>10. WalkOK'
  <2>1. \A q \in Proc : \A t \in Proc \ walk[q] : kept'[q] \subseteq kept[q] /\ next'[q][t] = next[q][t]
    <3>1. s \in walk[p]
      BY <1>1
    <3>2. \A q \in Proc : \A t \in Proc \ walk[q] : ~(q = p /\ t = s)
      BY <3>1
    <3> QED
      BY <1>5, <3>2
  <2>2. \A q \in Proc : \A t \in Proc \ walk[q] : NextOf(q, t)' \subseteq NextOf(q, t)
    BY <2>1 DEF NextOf, SequenceNumber
  <2> QED
    BY <1>2, <2>2 DEF IInv, WalkOK
<1> QED
  BY <1>3, <1>6, <1>7, <1>8, <1>9, <1>10 DEF IInv

LEMMA EndWalkKeeps ==
  ASSUME IInv, NEW p \in Proc, EndWalk(p)
  PROVE  IInv'
<1>1. UNCHANGED <<alive, sent, delivered, lsn, main, kept, next, log>>
  BY DEF EndWalk, vars
<1>2. TypeOK' /\ StackTypeOK'
  BY <1>1 DEF IInv, TypeOK, StackTypeOK, EndWalk
<1>3. CountsOK' /\ SentOK' /\ KeptOK' /\ HandedOK' /\ SplitOK' /\ PastOK' /\ NextBound'
  BY <1>1 DEF IInv, CountsOK, SentOK, KeptOK, HandedOK, SplitOK, PastOK, HandedUpTo,
              NextBound, Issued
<1>4. WalkOK'
  <2>1. \A q \in Proc : walk'[q] = IF q = p THEN {} ELSE walk[q]
    BY DEF IInv, StackTypeOK, EndWalk
  <2>2. \A s \in walk[p] : NextOf(p, s) = {}
    BY DEF IInv, StackTypeOK, WalkOK, EndWalk
  <2>3. \A q, s \in Proc : NextOf(q, s)' = NextOf(q, s)
    BY <1>1 DEF NextOf, SequenceNumber
  <2> QED
    BY <2>1, <2>2, <2>3 DEF IInv, WalkOK
<1> QED
  BY <1>2, <1>3, <1>4 DEF IInv

LEMMA Stutters ==
  ASSUME IInv, UNCHANGED stack_vars
  PROVE  IInv'
<1>1. UNCHANGED <<alive, sent, delivered, lsn, main, kept, next, walk, log>>
  BY DEF stack_vars, fifo_vars, vars
<1>2. TypeOK' /\ StackTypeOK' /\ CountsOK' /\ KeptOK' /\ HandedOK' /\ SplitOK'
  BY <1>1 DEF IInv, TypeOK, StackTypeOK, CountsOK, KeptOK, HandedOK, SplitOK
<1>3. SentOK' /\ NextBound' /\ PastOK'
  BY <1>1 DEF IInv, SentOK, NextBound, PastOK, HandedUpTo, Issued
<1>4. WalkOK'
  BY <1>1 DEF IInv, WalkOK, NextOf, SequenceNumber
<1> QED
  BY <1>2, <1>3, <1>4 DEF IInv

LEMMA Steps ==
  ASSUME NothingMisread, IInv, [StackNext]_stack_vars
  PROVE  IInv'
  BY NumberAndLogKeeps, SendNumberedKeeps, BroadcastUnnumberedKeeps, deliverKeeps,
     DeliverNextKeeps, EndWalkKeeps, Stutters DEF StackNext

(* The types alone, with no hypothesis.                                     *)
LEMMA TypeSteps ==
  ASSUME TypeInv, [StackNext]_stack_vars
  PROVE  TypeInv'
<1>0. TypeOK /\ StackTypeOK
  BY DEF TypeInv
<1> USE <1>0 DEF TypeInv, TypeOK, StackTypeOK
<1>1. ASSUME NEW p \in Proc, NumberAndLog(p)
      PROVE  TypeInv'
  <2>1. Line("b", p, lsn[p] + 1) \in [ev : {"b", "d"}, src : Proc, sn : Nat]
    BY DEF Line
  <2>2. lsn' \in [Proc -> Nat] /\ main' \in [Proc -> {"loop", "send"}]
    BY <1>1 DEF NumberAndLog
  <2>3. log' \in [Proc -> Seq([ev : {"b", "d"}, src : Proc, sn : Nat])]
    BY <1>1, <2>1 DEF NumberAndLog
  <2>4. UNCHANGED <<alive, sent, delivered, kept, next, walk>>
    BY <1>1 DEF NumberAndLog, vars
  <2> QED
    BY <2>2, <2>3, <2>4
<1>2. ASSUME NEW p \in Proc, NEW m, Broadcast(p, m),
             \/ main' = [main EXCEPT ![p] = "loop"] /\ lsn' = lsn
             \/ lsn' = [lsn EXCEPT ![p] = @ + 1] /\ main' = main,
             UNCHANGED <<kept, next, walk, log>>
      PROVE  TypeInv'
  <2>1. m \in Payload /\ m \in Script[p]
    BY <1>2, TextAssumption DEF Broadcast
  <2>2. TypeOK' /\ \A q \in Proc : sent[q] \subseteq sent'[q] /\ sent'[q] \subseteq Script[q]
    BY <1>2, <2>1 DEF Broadcast
  <2>3. StackTypeOK'
    <3>1. lsn' \in [Proc -> Nat]
      BY <1>2
    <3>2. main' \in [Proc -> {"loop", "send"}]
      BY <1>2
    <3> QED
      BY <1>2, <3>1, <3>2
  <2>4. delivered' = delivered /\ kept' = kept
    BY <1>2 DEF Broadcast
  <2>5. \A q \in Proc : \A k \in delivered'[q] : k.body \in sent'[k.orig]
    BY <2>2, <2>4, KeyFields
  <2> QED
    BY <2>2, <2>3, <2>4, <2>5
<1>3. ASSUME NEW p \in Proc, NEW k \in Key, deliver(p, k)
      PROVE  TypeInv'
  <2>1. /\ delivered' = [delivered EXCEPT ![p] = @ \cup {k}] /\ k.body \in sent[k.orig]
        /\ kept' = [kept EXCEPT ![p] = @ \cup {k}]
        /\ walk' = [walk EXCEPT ![p] = {k.orig}]
        /\ UNCHANGED <<alive, sent, lsn, main, next, log>>
    BY <1>3 DEF deliver, Deliver
  <2>2. TypeOK' /\ StackTypeOK'
    BY <2>1, KeyFields
  <2>3. \A q \in Proc : \A x \in delivered'[q] : x \in delivered[q] \/ x = k
    BY <2>1
  <2>4. \A q \in Proc : kept'[q] \subseteq delivered'[q]
    BY <2>1
  <2> QED
    BY <2>1, <2>2, <2>3, <2>4
<1>4. ASSUME NEW p \in Proc, NEW s \in Proc, DeliverNext(p, s)
      PROVE  TypeInv'
  <2>1. PICK k \in NextOf(p, s) :
            /\ kept' = [kept EXCEPT ![p] = @ \ {k}]
            /\ next' = [next EXCEPT ![p][s] = @ + 1]
            /\ log' = [log EXCEPT ![p] = Append(@, Line("d", s, k.body.n))]
    BY <1>4 DEF DeliverNext
  <2>2. k \in delivered[p] /\ k.orig \in Proc
    BY <2>1, KeyFields DEF NextOf
  <2>3. k.body \in Script[k.orig]
    BY <2>2
  <2>4. k.body.n \in Nat /\ 1 <= k.body.n
    <3>1. PICK n \in 1..(Batch[k.orig] + Extra[k.orig]) : k.body = Text(n, n <= Batch[k.orig])
      BY <2>2, <2>3, ScriptIs
    <3>2. k.body.n = n
      BY <3>1, TextFields
    <3> QED
      BY <2>2, <3>2, Counts
  <2>5. Line("d", s, k.body.n) \in [ev : {"b", "d"}, src : Proc, sn : Nat]
    BY <2>4 DEF Line
  <2>6. /\ log' \in [Proc -> Seq([ev : {"b", "d"}, src : Proc, sn : Nat])]
        /\ next' \in [Proc -> [Proc -> Nat \ {0}]]
    <3>1. \A x \in Nat \ {0} : x + 1 \in Nat \ {0}
      OBVIOUS
    <3>2. next[p] \in [Proc -> Nat \ {0}] /\ next' = [next EXCEPT ![p] = [next[p] EXCEPT ![s] = @ + 1]]
      BY <2>1, Zenon
    <3>3. [next[p] EXCEPT ![s] = @ + 1] \in [Proc -> Nat \ {0}]
      BY <3>1, <3>2
    <3>4. next' \in [Proc -> [Proc -> Nat \ {0}]]
      BY <3>2, <3>3
    <3>5. log' \in [Proc -> Seq([ev : {"b", "d"}, src : Proc, sn : Nat])]
      <4> DEFINE L == [ev : {"b", "d"}, src : Proc, sn : Nat]
      <4>1. log \in [Proc -> Seq(L)] /\ log' = [log EXCEPT ![p] = Append(@, Line("d", s, k.body.n))]
        BY <2>1
      <4>2. Line("d", s, k.body.n) \in L
        BY <2>5
      <4> HIDE DEF L
      <4>3. log' \in [Proc -> Seq(L)]
        BY <4>1, <4>2
      <4> QED
        BY <4>3 DEF L
    <3> QED
      BY <3>4, <3>5
  <2>7. \A q \in Proc : kept'[q] \subseteq kept[q]
    BY <2>1
  <2>8. kept' \in [Proc -> SUBSET Key]
    BY <2>1
  <2>9. UNCHANGED <<alive, sent, delivered, lsn, main, walk>>
    BY <1>4 DEF DeliverNext, vars
  <2> QED
    BY <2>6, <2>7, <2>8, <2>9
<1>5. ASSUME NEW p \in Proc, EndWalk(p)
      PROVE  TypeInv'
  BY <1>5 DEF EndWalk, vars
<1>6. CASE UNCHANGED stack_vars
  BY <1>6 DEF stack_vars, fifo_vars, vars
<1> QED
  BY <1>1, <1>2, <1>3, <1>4, <1>5, <1>6 DEF StackNext, SendNumbered, BroadcastUnnumbered

-----------------------------------------------------------------------------
(* The theorems.                                                           *)

(* Every reachable state of the two layers, whatever the order in which URB *)
(* hands messages up, satisfies the invariant.                              *)
THEOREM Invariance ==
  ASSUME NothingMisread
  PROVE  StackSpec => []IInv
<1>1. IInv /\ [StackNext]_stack_vars => IInv'
  BY Steps
<1> QED
  BY <1>1, Initially, PTL DEF StackSpec

(* The variables of fifo.cpp keep their types, whatever the texts read as.  *)
THEOREM TypeCorrect == StackSpec => []StackTypeOK
<1>1. StackInit => TypeInv
  <2>1. StackInit => TypeOK
    BY DEF StackInit, Init, TypeOK
  <2> QED
    BY <2>1 DEF StackInit, Init, StackTypeOK, TypeInv
<1>2. TypeInv /\ [StackNext]_stack_vars => TypeInv'
  BY TypeSteps
<1>3. TypeInv => StackTypeOK
  BY DEF TypeInv
<1> QED
  BY <1>1, <1>2, <1>3, PTL DEF StackSpec

(* No message that is next in order is held back when deliver returns.      *)
THEOREM NothingHeldBackCorrect ==
  ASSUME NothingMisread
  PROVE  StackSpec => []NothingHeldBack
<1>1. IInv => NothingHeldBack
  <2> SUFFICES ASSUME IInv, NEW p \in Proc, NEW s \in Proc, NEW n \in 1..Batch[s],
                      walk[p] = {}, HandedUpTo(p, s, n), ~(next[p][s] > n)
               PROVE  FALSE
    BY DEF NothingHeldBack
  <2> DEFINE i == next[p][s]
             k == [orig |-> s, body |-> Text(i, TRUE)]
  <2>1. i \in 1..n
    BY Counts DEF IInv, StackTypeOK
  <2>2. k \in delivered[p]
    BY <2>1 DEF HandedUpTo
  <2>3. k.orig = s /\ k.body.n = i /\ k.body.numbered
    BY DEF Text
  <2>4. k \in kept[p]
    <3>1. ~(i < next[p][s])
      BY <2>1
    <3> HIDE DEF k
    <3> QED
      BY <2>2, <2>3, <3>1 DEF IInv, SplitOK
  <2>5. k \in NextOf(p, s)
    <3> HIDE DEF k
    <3> QED
      BY <2>3, <2>4 DEF NextOf, SequenceNumber
  <2> QED
    BY <2>5 DEF IInv, WalkOK
<1> QED
  BY <1>1, Invariance, PTL

(* The output files always satisfy FifoContract: each step of the two       *)
(* layers is a line of it or leaves the files alone.                        *)
THEOREM FifoRefined ==
  ASSUME NothingMisread
  PROVE  StackSpec => FifoSpec
<1>1. StackInit => Fifo!Init
  BY Counts DEF StackInit, Fifo!Init, Logged
<1>2. ASSUME IInv, [StackNext]_stack_vars
      PROVE  [Fifo!Next]_Fifo!vars
  <2>1. ASSUME NEW p \in Proc, NumberAndLog(p)
        PROVE  Fifo!Broadcast(p)
    <3>1. lsn[p] \in Nat /\ lsn[p] < Batch[p] /\ Batch[p] \in Nat
      BY <1>2, <2>1, Counts DEF NumberAndLog, IInv, StackTypeOK
    <3>2. Logged(p) = lsn[p] /\ lsn'[p] = lsn[p] + 1 /\ Logged(p)' = lsn[p] + 1
      BY <1>2, <2>1, <3>1 DEF NumberAndLog, IInv, StackTypeOK, Logged
    <3>3. \A q \in Proc : q # p => Logged(q)' = Logged(q)
      BY <1>2, <2>1 DEF NumberAndLog, IInv, StackTypeOK, Logged
    <3>4. Line("b", p, lsn[p] + 1) = [ev |-> "b", src |-> p, sn |-> Logged(p)]
      BY <3>1, <3>2 DEF Line
    <3>5. [q \in Proc |-> Logged(q)]' = [[q \in Proc |-> Logged(q)] EXCEPT ![p] = @ + 1]
      BY <3>2, <3>3
    <3> QED
      BY <2>1, <3>4, <3>5 DEF NumberAndLog, Fifo!Broadcast
  <2>2. ASSUME NEW p \in Proc, SendNumbered(p) \/ BroadcastUnnumbered(p)
        PROVE  UNCHANGED Fifo!vars
    <3>1. \A q \in Proc : Logged(q)' = Logged(q)
      <4>1. CASE SendNumbered(p)
        BY <4>1 DEF SendNumbered, Logged
      <4>2. CASE BroadcastUnnumbered(p)
        <5>1. /\ lsn[p] \in Nat /\ Batch[p] \in Nat /\ lsn[p] >= Batch[p]
              /\ lsn' = [lsn EXCEPT ![p] = @ + 1]
              /\ lsn \in [Proc -> Nat]
          BY <1>2, <4>2, Counts DEF BroadcastUnnumbered, IInv, StackTypeOK
        <5>2. \A q \in Proc : lsn'[q] = IF q = p THEN lsn[q] + 1 ELSE lsn[q]
          BY <5>1
        <5> QED
          BY <5>1, <5>2 DEF Logged
      <4> QED
        BY <2>2, <4>1, <4>2
    <3> QED
      BY <2>2, <3>1 DEF SendNumbered, BroadcastUnnumbered, Fifo!vars
  <2>3. ASSUME NEW p \in Proc, EndWalk(p) \/ \E k \in Key : deliver(p, k)
        PROVE  UNCHANGED Fifo!vars
    BY <2>3 DEF EndWalk, deliver, Fifo!vars, Logged
  <2>4. ASSUME NEW p \in Proc, NEW s \in Proc, DeliverNext(p, s)
        PROVE  Fifo!Deliver(p, s)
    <3>1. /\ next' = [next EXCEPT ![p][s] = @ + 1]
          /\ log' = [log EXCEPT ![p] = Append(@, Line("d", s, next[p][s]))]
          /\ next[p][s] \in Nat /\ 1 <= next[p][s]
          /\ next[p][s] <= Batch[s] /\ next[p][s] <= Issued(s)
      BY <1>2, <2>4, DeliverNextIs
    <3>2. next[p][s] - 1 < Logged(s)
      BY <1>2, <3>1, Counts DEF IInv, StackTypeOK, CountsOK, Issued, Logged
    <3>3. Line("d", s, next[p][s]) = [ev |-> "d", src |-> s, sn |-> next[p][s] - 1]
      BY DEF Line
    <3>4. [q \in Proc |-> [t \in Proc |-> next[q][t] - 1]]'
            = [[q \in Proc |-> [t \in Proc |-> next[q][t] - 1]] EXCEPT ![p][s] = @ + 1]
      <4>1. next \in [Proc -> [Proc -> Nat \ {0}]]
        BY <1>2 DEF IInv, StackTypeOK
      <4>2. \A q, t \in Proc :
              next'[q][t] - 1 = IF q = p /\ t = s THEN (next[q][t] - 1) + 1 ELSE next[q][t] - 1
        BY <3>1, <4>1, SMTT(30)
      <4> DEFINE d == [q \in Proc |-> [t \in Proc |-> next[q][t] - 1]]
      <4>3. [d EXCEPT ![p][s] = @ + 1]
              = [q \in Proc |-> [t \in Proc |->
                   IF q = p /\ t = s THEN (next[q][t] - 1) + 1 ELSE next[q][t] - 1]]
        OBVIOUS
      <4>4. [q \in Proc |-> [t \in Proc |-> next'[q][t] - 1]]
              = [q \in Proc |-> [t \in Proc |->
                   IF q = p /\ t = s THEN (next[q][t] - 1) + 1 ELSE next[q][t] - 1]]
        BY <4>2
      <4> QED
        BY <4>3, <4>4
    <3>5. [q \in Proc |-> Logged(q)]' = [q \in Proc |-> Logged(q)]
      BY <2>4 DEF DeliverNext, Logged
    <3> QED
      BY <3>1, <3>2, <3>3, <3>4, <3>5 DEF Fifo!Deliver
  <2>5. CASE UNCHANGED stack_vars
    BY <2>5 DEF stack_vars, fifo_vars, Fifo!vars, Logged
  <2> QED
    BY <1>2, <2>1, <2>2, <2>3, <2>4, <2>5 DEF StackNext, Fifo!Next
<1> QED
  BY <1>1, <1>2, Invariance, PTL DEF StackSpec, FifoSpec, Fifo!Spec

=============================================================================
