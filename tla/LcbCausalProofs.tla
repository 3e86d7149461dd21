-------------------------- MODULE LcbCausalProofs --------------------------
(***************************************************************************)
(* Lcb delivers in causal order, counted from the call of broadcastMessage, *)
(* for every set of processes, every dependency graph and every number of  *)
(* messages, although the stamp is read from a clock that changes.         *)
(***************************************************************************)
EXTENDS LcbProofs, TLAPS

-----------------------------------------------------------------------------
(* The inductive invariant, on top of IInv.                                *)

Delivery(s, n) == [ev |-> "d", src |-> s, sn |-> n]

(* The clock, less what is being delivered, counts the lines of the file.   *)
CountedLines ==
    \A q \in Proc : \A j \in 1..Len(log[q]) :
        log[q][j].ev = "d" => log[q][j].sn < Logged(q, log[q][j].src)

LinesCounted ==
    \A q, s \in Proc : \A n \in Nat :
        n < Logged(q, s) => \E j \in 1..Len(log[q]) : log[q][j] = Delivery(s, n)

(* Every call of broadcastMessage left a mark inside the file.              *)
MarkOK ==
    \A p \in Proc :
        /\ Len(mark[p]) = IF main[p].stage = "reading" THEN lsn[p] + 1 ELSE lsn[p]
        /\ \A i \in 1..Len(mark[p]) : mark[p][i] <= Len(log[p])

Covers(W, past) == \A x \in past : x.sn < W[x.src]

(* A stamp covers what its sender had delivered at the call ...             *)
SentCovers == \A m \in sent : Covers(m.W, Causes(m.src, mark[m.src][m.sn + 1]))

SendingCovers ==
    \A p \in Proc :
        main[p].stage = "sending" => Covers(main[p].W, Causes(p, mark[p][lsn[p]]))

(* ... and, while it is put together, does so where it has been read.       *)
ReadingCovers ==
    \A p \in Proc :
        main[p].stage = "reading" =>
            \A x \in Causes(p, mark[p][lsn[p] + 1]) :
                x.src \notin main[p].todo => x.src = p \/ x.sn < main[p].W[x.src]

(* The message being delivered is covered by the file.                      *)
CurCovered == \A q \in Proc : \A m \in cur[q] : \A s \in Proc : m.W[s] <= Logged(q, s)

CInv ==
    /\ CountedLines /\ LinesCounted /\ MarkOK
    /\ SentCovers /\ SendingCovers /\ ReadingCovers /\ CurCovered
    /\ CausalFromCall

-----------------------------------------------------------------------------
LEMMA LoggedIs ==
  ASSUME IInv, NEW q \in Proc, NEW s \in Proc
  PROVE  /\ VC[q][s] \in Nat /\ Logged(q, s) \in Int
         /\ Logged(q, s) <= VC[q][s]
         /\ cur[q] = {} => Logged(q, s) = VC[q][s]
  BY ClockType DEF IInv, Logged

LEMMA LineIs ==
  ASSUME TypeOK, NEW q \in Proc, NEW j \in 1..Len(log[q])
  PROVE  log[q][j] \in Event /\ log[q][j].src \in Proc /\ log[q][j].sn \in Nat
<1>1. log[q] \in Seq(Event)
  BY DEF TypeOK
<1>2. log[q][j] \in Event
  BY <1>1
<1> QED
  BY <1>2 DEF Event

LEMMA CausesAre ==
  ASSUME TypeOK, NEW p \in Proc, NEW n \in Nat, n <= Len(log[p]), NEW x \in Causes(p, n)
  PROVE  /\ x \in Event /\ x.ev = "d" /\ x.src \in Deps[p] /\ x.src \in Proc /\ x.sn \in Nat
         /\ \E j \in 1..Len(log[p]) : log[p][j] = x
<1>1. PICK j \in 1..n : x = log[p][j] /\ log[p][j].ev = "d" /\ log[p][j].src \in Deps[p]
  BY DEF Causes
<1>2. Len(log[p]) \in Nat /\ log[p] \in Seq(Event)
  BY DEF TypeOK
<1>3. j \in 1..Len(log[p])
  BY <1>1, <1>2
<1>4. x \in Event
  BY <1>1, <1>2, <1>3
<1> QED
  BY <1>1, <1>3, <1>4 DEF Event

(* A file only grows: its first lines stay ...                              *)
LEMMA FileGrows ==
  ASSUME TypeOK, NEW p \in Proc, NEW e \in Event,
         log' = [log EXCEPT ![p] = Append(@, e)],
         NEW q \in Proc
  PROVE  /\ Len(log[q]) \in Nat
         /\ Len(log'[q]) = IF q = p THEN Len(log[q]) + 1 ELSE Len(log[q])
         /\ \A j \in 1..Len(log[q]) : log'[q][j] = log[q][j]
         /\ log'[p][Len(log[p]) + 1] = e
<1>1. log[q] \in Seq(Event) /\ log[p] \in Seq(Event) /\ Len(log[q]) \in Nat
  BY DEF TypeOK
<1>2. log'[q] = IF q = p THEN Append(log[q], e) ELSE log[q]
  BY DEF TypeOK
<1>3. log'[p] = Append(log[p], e)
  BY DEF TypeOK
<1>4. \A j \in 1..Len(log[q]) : log'[q][j] = log[q][j]
  <2>1. CASE q = p
    BY <1>1, <1>3, <2>1
  <2>2. CASE q # p
    BY <1>2, <2>2
  <2> QED
    BY <2>1, <2>2
<1>5. Len(log'[q]) = IF q = p THEN Len(log[q]) + 1 ELSE Len(log[q])
  <2>1. Len(log'[p]) = Len(log[p]) + 1
    BY <1>1, <1>3
  <2> QED
    BY <1>2, <2>1
<1>6. log'[p][Len(log[p]) + 1] = e
  BY <1>1, <1>3
<1> QED
  BY <1>1, <1>4, <1>5, <1>6

(* ... and so do the causes in them.                                        *)
LEMMA CausesStay ==
  ASSUME TypeOK, NEW p \in Proc, NEW e \in Event,
         log' = [log EXCEPT ![p] = Append(@, e)],
         NEW q \in Proc, NEW n \in Nat, n <= Len(log[q])
  PROVE  Causes(q, n)' = Causes(q, n)
<1>1. \A j \in 1..n : log'[q][j] = log[q][j]
  BY FileGrows
<1> QED
  BY <1>1 DEF Causes

(* A new line breaks nothing unless it delivers too early.                  *)
LEMMA CausalAppend ==
  ASSUME IInv, CInv, NEW p \in Proc, NEW e \in Event,
         log' = [log EXCEPT ![p] = Append(@, e)], mark' = mark,
         e.ev = "d" /\ e.sn + 1 \in 1..Len(mark[e.src])
             => \A x \in Causes(e.src, mark[e.src][e.sn + 1]) : DeliveredIn(p, Len(log[p]), x)
  PROVE  CausalFromCall'
<1>1. TypeOK
  BY DEF IInv
<1> SUFFICES ASSUME NEW s \in Proc, NEW i \in 1..Len(mark[s]),
                    NEW q \in Proc, NEW j \in 1..Len(log'[q]),
                    log'[q][j] = Delivery(s, i - 1),
                    NEW x \in Causes(s, mark[s][i])'
             PROVE  \E k \in 1..(j - 1) : log'[q][k] = Delivery(x.src, x.sn)
  BY DEF CausalFromCall, DeliveredAfter, DeliveredIn, Delivery
<1>2. mark[s][i] \in Nat /\ mark[s][i] <= Len(log[s]) /\ Len(mark[s]) \in Nat
  <2>1. mark[s] \in Seq(Nat)
    BY <1>1 DEF TypeOK
  <2> QED
    BY <2>1 DEF CInv, MarkOK
<1>3. x \in Causes(s, mark[s][i])
  BY <1>1, <1>2, CausesStay
<1>4. Len(log[q]) \in Nat /\ Len(log[p]) \in Nat
  BY <1>1, FileGrows
<1>5. ASSUME NEW n \in Nat, n <= Len(log[q]), DeliveredIn(q, n, x), j = n + 1
      PROVE  \E k \in 1..(j - 1) : log'[q][k] = Delivery(x.src, x.sn)
  <2>1. PICK k \in 1..n : log[q][k] = Delivery(x.src, x.sn)
    BY <1>5 DEF DeliveredIn, Delivery
  <2>2. k \in 1..Len(log[q]) /\ k \in 1..(j - 1)
    BY <1>4, <1>5
  <2> QED
    BY <1>1, <2>1, <2>2, FileGrows
<1>6. CASE j \in 1..Len(log[q])
  <2>1. log[q][j] = Delivery(s, i - 1)
    BY <1>1, <1>6, FileGrows
  <2>2. DeliveredIn(q, j - 1, x)
    BY <1>3, <1>6, <2>1 DEF CInv, CausalFromCall, DeliveredAfter, Delivery
  <2>3. j - 1 \in Nat /\ j - 1 <= Len(log[q]) /\ j = (j - 1) + 1
    BY <1>4, <1>6
  <2> QED
    BY <1>5, <2>2, <2>3
<1>7. CASE j \notin 1..Len(log[q])
  <2>1. q = p /\ j = Len(log[p]) + 1
    BY <1>1, <1>4, <1>7, FileGrows
  <2>2. e = Delivery(s, i - 1)
    BY <1>1, <2>1, FileGrows
  <2>3. e.ev = "d" /\ e.src = s /\ e.sn + 1 = i
    BY <1>2, <2>2 DEF Delivery
  <2>4. DeliveredIn(q, Len(log[q]), x)
    BY <1>3, <2>1, <2>3
  <2> QED
    BY <1>4, <1>5, <2>1, <2>4
<1> QED
  BY <1>6, <1>7

(* No step but LogAndErase delivers a line: the others leave what the file  *)
(* counts alone, or add a b.                                                *)
LEMMA LinesStay ==
  ASSUME IInv, CInv,
         \A q, s \in Proc : Logged(q, s)' = Logged(q, s),
         \/ log' = log
         \/ \E p \in Proc : \E e \in Event : e.ev = "b" /\ log' = [log EXCEPT ![p] = Append(@, e)]
  PROVE  CountedLines' /\ LinesCounted'
<1>1. CASE log' = log
  <2>1. CountedLines'
    <3>1. \A q \in Proc : \A j \in 1..Len(log[q]) : log[q][j].src \in Proc
      BY LineIs DEF IInv
    <3> QED
      BY <1>1, <3>1 DEF CInv, CountedLines
  <2>2. LinesCounted'
    BY <1>1 DEF CInv, LinesCounted
  <2> QED
    BY <2>1, <2>2
<1>2. ASSUME NEW p \in Proc, NEW e \in Event, e.ev = "b",
             log' = [log EXCEPT ![p] = Append(@, e)]
      PROVE  CountedLines' /\ LinesCounted'
  <2>0. TypeOK
    BY DEF IInv
  <2>1. ASSUME NEW q \in Proc
        PROVE  /\ Len(log[q]) \in Nat
               /\ Len(log'[q]) = IF q = p THEN Len(log[q]) + 1 ELSE Len(log[q])
               /\ \A j \in 1..Len(log[q]) : log'[q][j] = log[q][j]
               /\ log'[p][Len(log[p]) + 1] = e
    BY <1>2, <2>0, <2>1, FileGrows
  <2>2. CountedLines'
    <3> SUFFICES ASSUME NEW q \in Proc, NEW j \in 1..Len(log'[q]), log'[q][j].ev = "d"
                 PROVE  \E s \in Proc : s = log'[q][j].src /\ log'[q][j].sn < Logged(q, s)'
      BY DEF CountedLines
    <3>1. j \in 1..Len(log[q])
      BY <1>2, <2>1
    <3>2. log[q][j].src \in Proc
      BY <2>0, <3>1, LineIs
    <3> QED
      BY <2>1, <3>1, <3>2 DEF CInv, CountedLines
  <2>3. LinesCounted'
    <3> SUFFICES ASSUME NEW q \in Proc, NEW s \in Proc, NEW n \in Nat, n < Logged(q, s)
                 PROVE  \E j \in 1..Len(log'[q]) : log'[q][j] = Delivery(s, n)
      BY DEF LinesCounted
    <3>1. PICK j \in 1..Len(log[q]) : log[q][j] = Delivery(s, n)
      BY DEF CInv, LinesCounted
    <3>2. j \in 1..Len(log'[q])
      BY <2>1, <3>1
    <3> QED
      BY <2>1, <3>1, <3>2
  <2> QED
    BY <2>2, <2>3
<1> QED
  BY <1>1, <1>2

LEMMA CInvInit == Init => CInv
<1> SUFFICES ASSUME Init PROVE CInv
  OBVIOUS
<1>1. \A q, s \in Proc : Logged(q, s) = 0
  BY DEF Init, Logged, NoClock
<1>2. \A q \in Proc : log[q] = <<>> /\ mark[q] = <<>> /\ cur[q] = {} /\ lsn[q] = 0
                      /\ main[q].stage = "idle"
  BY DEF Init
<1>3. CountedLines /\ LinesCounted /\ CurCovered
  BY <1>1, <1>2 DEF CountedLines, LinesCounted, CurCovered
<1>4. MarkOK /\ SentCovers /\ SendingCovers /\ ReadingCovers
  BY <1>2 DEF MarkOK, SentCovers, SendingCovers, ReadingCovers, Init
<1>5. CausalFromCall
  BY <1>2 DEF CausalFromCall
<1> QED
  BY <1>3, <1>4, <1>5 DEF CInv

(* The mark of a call is in the file, and its message is not yet anywhere.  *)
LEMMA EnterCausal ==
  ASSUME IInv, CInv, NEW p \in Proc, Enter(p)
  PROVE  CInv'
<1>1. /\ UNCHANGED <<lsn, VC, sent, handed, pairs, cur, log>>
      /\ main[p].stage = "idle"
      /\ main' = [main EXCEPT ![p] = [stage |-> "reading", todo |-> Deps[p], W |-> NoClock]]
      /\ mark' = [mark EXCEPT ![p] = Append(@, Len(log[p]))]
  BY DEF Enter
<1>2. \A q, s \in Proc : Logged(q, s)' = Logged(q, s)
  BY <1>1 DEF Logged
<1>3. CountedLines' /\ LinesCounted'
  BY <1>1, <1>2, LinesStay
<1>4. /\ mark \in [Proc -> Seq(Nat)] /\ mark[p] \in Seq(Nat) /\ Len(log[p]) \in Nat
      /\ lsn[p] \in Nat /\ Len(mark[p]) = lsn[p]
  BY <1>1 DEF IInv, TypeOK, CInv, MarkOK
<1>5. /\ mark'[p] = Append(mark[p], Len(log[p]))
      /\ Len(mark'[p]) = lsn[p] + 1
      /\ mark'[p][lsn[p] + 1] = Len(log[p])
      /\ \A i \in 1..lsn[p] : mark'[p][i] = mark[p][i]
      /\ \A q \in Proc \ {p} : mark'[q] = mark[q] /\ main'[q] = main[q]
      /\ main'[p].stage = "reading" /\ main'[p].todo = Deps[p]
  <2>1. mark'[p] = Append(mark[p], Len(log[p]))
    BY <1>1, <1>4
  <2>2. \A q \in Proc \ {p} : mark'[q] = mark[q] /\ main'[q] = main[q]
    BY <1>1 DEF IInv, TypeOK
  <2>3. main'[p].stage = "reading" /\ main'[p].todo = Deps[p]
    BY <1>1 DEF IInv, TypeOK
  <2>4. /\ Len(mark'[p]) = lsn[p] + 1
        /\ mark'[p][lsn[p] + 1] = Len(log[p])
        /\ \A i \in 1..lsn[p] : mark'[p][i] = mark[p][i]
    BY <1>4, <2>1
  <2> QED
    BY <2>1, <2>2, <2>3, <2>4
<1>6. MarkOK'
  <2>1. ASSUME NEW q \in Proc \ {p}
        PROVE  /\ Len(mark'[q]) = IF main'[q].stage = "reading" THEN lsn[q] + 1 ELSE lsn[q]
               /\ \A i \in 1..Len(mark'[q]) : mark'[q][i] <= Len(log[q])
    BY <1>5 DEF CInv, MarkOK
  <2>2. \A i \in 1..(lsn[p] + 1) : mark'[p][i] <= Len(log[p])
    <3>1. \A i \in 1..(lsn[p] + 1) : i \in 1..lsn[p] \/ i = lsn[p] + 1
      BY <1>4
    <3>2. \A i \in 1..lsn[p] : mark[p][i] <= Len(log[p])
      BY <1>4 DEF CInv, MarkOK
    <3> QED
      BY <1>4, <1>5, <3>1, <3>2
  <2> QED
    BY <1>1, <1>5, <2>1, <2>2 DEF MarkOK
<1>7. \A q \in Proc : \A n : Causes(q, n)' = Causes(q, n)
  BY <1>1 DEF Causes
<1>8. SentCovers'
  <2> SUFFICES ASSUME NEW m \in sent
               PROVE  Covers(m.W, Causes(m.src, mark'[m.src][m.sn + 1]))
    <3>1. \A m \in sent : m.src \in Proc
      BY DEF IInv, TypeOK, Message
    <3> QED
      BY <1>1, <1>7, <3>1 DEF SentCovers, Covers
  <2>1. m.src \in Proc /\ m.sn \in Nat /\ m.sn < Issued(m.src)
    BY DEF IInv, TypeOK, Message, SentOK
  <2>2. mark'[m.src][m.sn + 1] = mark[m.src][m.sn + 1]
    <3>1. m.src = p => m.sn + 1 \in 1..lsn[p]
      BY <1>1, <1>4, <2>1 DEF Issued
    <3> QED
      BY <1>5, <2>1, <3>1
  <2> QED
    BY <2>2 DEF CInv, SentCovers
<1>9. SendingCovers' /\ ReadingCovers'
  <2>1. \A q \in Proc : q # p => mark'[q] = mark[q] /\ main'[q] = main[q]
    BY <1>5
  <2>2. SendingCovers'
    BY <1>1, <1>5, <1>7, <2>1 DEF CInv, SendingCovers, Covers
  <2>3. ReadingCovers'
    <3> SUFFICES ASSUME NEW q \in Proc, main'[q].stage = "reading",
                        NEW x \in Causes(q, mark'[q][lsn[q] + 1]), x.src \notin main'[q].todo
                 PROVE  x.src = q \/ x.sn < main'[q].W[x.src]
      BY <1>1, <1>7 DEF ReadingCovers
    <3>1. CASE q = p
      BY <1>5, <3>1 DEF Causes
    <3>2. CASE q # p
      BY <2>1, <3>2 DEF CInv, ReadingCovers
    <3> QED
      BY <3>1, <3>2
  <2> QED
    BY <2>2, <2>3
<1>10. CurCovered'
  BY <1>1, <1>2 DEF CInv, CurCovered
<1>11. CausalFromCall'
  <2>0. ASSUME NEW s \in Proc, NEW i,
               DeliveredAfter(s, i, Causes(s, mark'[s][i]))
        PROVE  DeliveredAfter(s, i, Causes(s, mark[s][i]))'
    <3>1. Causes(s, mark[s][i])' = Causes(s, mark'[s][i])
      BY <1>1 DEF Causes
    <3>2. ASSUME NEW q \in Proc, NEW j \in 1..Len(log'[q]),
                 log'[q][j] = Delivery(s, i - 1), NEW x \in Causes(s, mark[s][i])'
          PROVE  DeliveredIn(q, j - 1, x)'
      <4>1. x \in Causes(s, mark'[s][i]) /\ j \in 1..Len(log[q]) /\ log[q][j] = Delivery(s, i - 1)
        BY <1>1, <3>1, <3>2
      <4>2. DeliveredIn(q, j - 1, x)
        BY <2>0, <4>1 DEF DeliveredAfter, Delivery
      <4> QED
        BY <1>1, <4>2 DEF DeliveredIn
    <3> QED
      BY <3>2 DEF DeliveredAfter, Delivery
  <2> SUFFICES ASSUME NEW s \in Proc, NEW i \in 1..Len(mark'[s])
               PROVE  DeliveredAfter(s, i, Causes(s, mark'[s][i]))
    BY <2>0 DEF CausalFromCall
  <2>1. CASE s # p \/ i \in 1..lsn[p]
    <3>1. i \in 1..Len(mark[s]) /\ mark'[s][i] = mark[s][i]
      BY <1>4, <1>5, <2>1
    <3> QED
      BY <3>1 DEF CInv, CausalFromCall
  <2>2. CASE s = p /\ i = lsn[p] + 1
    <3>1. ASSUME NEW q \in Proc, NEW j \in 1..Len(log[q]), log[q][j] = Delivery(p, i - 1)
          PROVE  FALSE
      <4>0. log[q][j].ev = "d" /\ log[q][j].src = p /\ log[q][j].sn = lsn[p]
        BY <1>4, <2>2, <3>1 DEF Delivery
      <4>1. lsn[p] < Logged(q, p)
        BY <4>0 DEF CInv, CountedLines
      <4>2. VC[q][p] <= lsn[p] /\ VC[q][p] \in Nat /\ Logged(q, p) <= VC[q][p] /\ Logged(q, p) \in Int
        BY <1>1, LoggedIs DEF IInv, ClockBound, Issued
      <4> QED
        BY <1>4, <4>1, <4>2
    <3> QED
      BY <2>2, <3>1 DEF DeliveredAfter, Delivery
  <2> QED
    BY <1>4, <1>5, <2>1, <2>2
<1> QED
  BY <1>3, <1>6, <1>8, <1>9, <1>10, <1>11 DEF CInv

LEMMA CausalStays ==
  ASSUME CausalFromCall, UNCHANGED <<log, mark>>
  PROVE  CausalFromCall'
<1> SUFFICES ASSUME NEW s \in Proc, NEW i \in 1..Len(mark[s]),
                    NEW q \in Proc, NEW j \in 1..Len(log[q]), log[q][j] = Delivery(s, i - 1),
                    NEW x \in Causes(s, mark[s][i])'
             PROVE  DeliveredIn(q, j - 1, x)'
  BY DEF CausalFromCall, DeliveredAfter, Delivery
<1>1. x \in Causes(s, mark[s][i])
  BY DEF Causes
<1>2. DeliveredIn(q, j - 1, x)
  BY <1>1 DEF CausalFromCall, DeliveredAfter, Delivery
<1> QED
  BY <1>2 DEF DeliveredIn

(* What CInv says of the stamps stays when nothing is written or stamped.   *)
LEMMA StampsStay ==
  ASSUME IInv, CInv, UNCHANGED <<lsn, sent, log, mark, main>>
  PROVE  MarkOK' /\ SentCovers' /\ SendingCovers' /\ ReadingCovers' /\ CausalFromCall'
<1>1. \A q \in Proc : \A n : Causes(q, n)' = Causes(q, n)
  BY DEF Causes
<1>2. \A m \in sent : m.src \in Proc
  BY DEF IInv, TypeOK, Message
<1>3. MarkOK'
  BY DEF CInv, MarkOK
<1>4. SentCovers'
  BY <1>1, <1>2 DEF CInv, SentCovers, Covers
<1>5. SendingCovers' /\ ReadingCovers'
  BY <1>1 DEF CInv, SendingCovers, ReadingCovers, Covers
<1>6. CausalFromCall'
  BY CausalStays DEF CInv
<1> QED
  BY <1>3, <1>4, <1>5, <1>6

(* Nor by what the main thread does between the call and the file.          *)
LEMMA FileStays ==
  ASSUME IInv, CInv, UNCHANGED <<VC, cur, log, mark>>
  PROVE  /\ CountedLines' /\ LinesCounted' /\ CurCovered' /\ CausalFromCall'
         /\ \A q \in Proc : \A n : Causes(q, n)' = Causes(q, n)
<1>1. \A q, s \in Proc : Logged(q, s)' = Logged(q, s)
  BY DEF Logged
<1>2. CountedLines' /\ LinesCounted'
  BY <1>1, LinesStay
<1>3. CurCovered'
  BY <1>1 DEF CInv, CurCovered
<1>4. CausalFromCall'
  BY CausalStays DEF CInv
<1>5. \A q \in Proc : \A n : Causes(q, n)' = Causes(q, n)
  BY DEF Causes
<1> QED
  BY <1>2, <1>3, <1>4, <1>5

(* A clock entry that is read is at least what it was at the call.          *)
LEMMA ReadCausal ==
  ASSUME IInv, CInv, NEW p \in Proc, NEW d \in Deps[p], ReadClock(p, d)
  PROVE  CInv'
<1>1. UNCHANGED <<lsn, VC, sent, handed, pairs, cur, log, mark>> /\ main[p].stage = "reading"
  BY DEF ReadClock
<1>2. /\ main'[p].stage = main[p].stage
      /\ main'[p].todo = main[p].todo \ {d}
      /\ \A q \in Proc : main'[p].W[q] = IF q = d THEN VC[p][d] ELSE main[p].W[q]
      /\ \A q \in Proc \ {p} : main'[q] = main[q]
  <2>1. main \in [Proc -> Main] /\ main[p].W \in Clock /\ d \in Proc
    BY DepsAssumption, TypeOf DEF IInv, TypeOK, Main
  <2>2. main' = [main EXCEPT ![p] = [main[p] EXCEPT !.todo = @ \ {d},
                                                    !.W = [@ EXCEPT ![d] = VC[p][d]]]]
    BY ReadClockMain
  <2>3. main'[p] = [main[p] EXCEPT !.todo = @ \ {d}, !.W = [@ EXCEPT ![d] = VC[p][d]]]
    BY <2>1, <2>2
  <2>4. main'[p].W = [main[p].W EXCEPT ![d] = VC[p][d]]
    BY <2>1, <2>3 DEF Main
  <2>5. main'[p].stage = main[p].stage /\ main'[p].todo = main[p].todo \ {d}
    BY <2>1, <2>3 DEF Main
  <2>6. \A q \in Proc : main'[p].W[q] = IF q = d THEN VC[p][d] ELSE main[p].W[q]
    BY <2>1, <2>4 DEF Clock
  <2>7. \A q \in Proc \ {p} : main'[q] = main[q]
    BY <2>1, <2>2
  <2> QED
    BY <2>5, <2>6, <2>7
<1>3. CountedLines' /\ LinesCounted' /\ CurCovered' /\ CausalFromCall'
      /\ \A q \in Proc : \A n : Causes(q, n)' = Causes(q, n)
  BY <1>1, FileStays
<1>4. MarkOK'
  BY <1>1, <1>2 DEF CInv, MarkOK
<1>5. SentCovers'
  <2>1. \A m \in sent : m.src \in Proc
    BY DEF IInv, TypeOK, Message
  <2> QED
    BY <1>1, <1>3, <2>1 DEF CInv, SentCovers, Covers
<1>6. SendingCovers'
  BY <1>1, <1>2, <1>3 DEF CInv, SendingCovers, Covers
<1>7. ReadingCovers'
  <2> SUFFICES ASSUME NEW q \in Proc, main'[q].stage = "reading",
                      NEW x \in Causes(q, mark[q][lsn[q] + 1]), x.src \notin main'[q].todo
               PROVE  x.src = q \/ x.sn < main'[q].W[x.src]
    BY <1>1, <1>3 DEF ReadingCovers
  <2>1. CASE q # p
    BY <1>2, <2>1 DEF CInv, ReadingCovers
  <2>2. CASE q = p
    <3>1. /\ mark[p][lsn[p] + 1] \in Nat /\ mark[p][lsn[p] + 1] <= Len(log[p])
      <4>1. mark[p] \in Seq(Nat) /\ lsn[p] \in Nat /\ Len(mark[p]) = lsn[p] + 1
        BY <1>1 DEF IInv, TypeOK, CInv, MarkOK
      <4>2. lsn[p] + 1 \in 1..Len(mark[p])
        BY <4>1
      <4> QED
        BY <4>1, <4>2 DEF CInv, MarkOK
    <3>2. x.ev = "d" /\ x.src \in Proc /\ x.sn \in Nat /\ \E j \in 1..Len(log[p]) : log[p][j] = x
      BY <2>2, <3>1, CausesAre DEF IInv
    <3>3. CASE x.src = d
      <4>1. x.sn < Logged(p, d)
        BY <3>2, <3>3 DEF CInv, CountedLines
      <4>2. VC[p][d] \in Nat /\ Logged(p, d) \in Int /\ Logged(p, d) <= VC[p][d]
        BY <3>2, <3>3, LoggedIs
      <4>3. x.sn < VC[p][d]
        BY <3>2, <4>1, <4>2
      <4> QED
        BY <1>2, <2>2, <3>2, <3>3, <4>3
    <3>4. CASE x.src # d
      <4>1. x.src \notin main[p].todo
        BY <1>2, <2>2, <3>4
      <4>2. x.src = p \/ x.sn < main[p].W[x.src]
        BY <1>1, <2>2, <4>1 DEF CInv, ReadingCovers
      <4> QED
        BY <1>2, <2>2, <3>2, <3>4, <4>2
    <3> QED
      BY <3>3, <3>4
  <2> QED
    BY <2>1, <2>2
<1> QED
  BY <1>3, <1>4, <1>5, <1>6, <1>7 DEF CInv

(* The stamp is complete: what p delivered of its own messages is older     *)
(* than the message.                                                        *)
LEMMA StampCausal ==
  ASSUME IInv, CInv, NEW p \in Proc, StampAndLog(p)
  PROVE  CInv'
<1> DEFINE e == [ev |-> "b", src |-> p, sn |-> lsn[p]]
<1>1. /\ UNCHANGED <<VC, sent, handed, pairs, cur, mark>>
      /\ main[p].stage = "reading" /\ main[p].todo = {}
      /\ lsn' = [lsn EXCEPT ![p] = @ + 1]
      /\ log' = [log EXCEPT ![p] = Append(@, e)]
  BY DEF StampAndLog
<1>2. /\ lsn'[p] = lsn[p] + 1 /\ lsn[p] \in Nat
      /\ main'[p].stage = "sending"
      /\ \A q \in Proc : main'[p].W[q] = IF q = p THEN lsn[p] ELSE main[p].W[q]
      /\ \A q \in Proc \ {p} : main'[q] = main[q] /\ lsn'[q] = lsn[q]
  <2>1. main \in [Proc -> Main] /\ main[p].W \in Clock /\ lsn \in [Proc -> Nat]
    BY TypeOf DEF IInv, TypeOK, Main
  <2>2. main' = [main EXCEPT ![p] = [main[p] EXCEPT !.stage = "sending",
                                                    !.W = [@ EXCEPT ![p] = lsn[p]]]]
    BY DEF StampAndLog
  <2>3. main'[p] = [main[p] EXCEPT !.stage = "sending", !.W = [@ EXCEPT ![p] = lsn[p]]]
    BY <2>1, <2>2
  <2>4. main'[p].W = [main[p].W EXCEPT ![p] = lsn[p]] /\ main'[p].stage = "sending"
    BY <2>1, <2>3 DEF Main
  <2>5. \A q \in Proc : main'[p].W[q] = IF q = p THEN lsn[p] ELSE main[p].W[q]
    BY <2>1, <2>4 DEF Clock
  <2>6. \A q \in Proc \ {p} : main'[q] = main[q] /\ lsn'[q] = lsn[q]
    BY <1>1, <2>1, <2>2
  <2> QED
    BY <1>1, <2>1, <2>4, <2>5, <2>6
<1>3. e \in Event /\ e.ev = "b"
  BY <1>2 DEF Event
<1> HIDE DEF e
<1>4. \A q, s \in Proc : Logged(q, s)' = Logged(q, s)
  BY <1>1 DEF Logged
<1>5. CountedLines' /\ LinesCounted'
  BY <1>1, <1>3, <1>4, LinesStay
<1>6. CausalFromCall'
  BY <1>1, <1>3, CausalAppend
<1>7. CurCovered'
  BY <1>1, <1>4 DEF CInv, CurCovered
<1>8. ASSUME NEW q \in Proc
      PROVE  /\ Len(log[q]) \in Nat /\ Len(log'[q]) \in Nat
             /\ Len(log'[q]) >= Len(log[q])
  <2>1. TypeOK
    BY DEF IInv
  <2>2. log' = [log EXCEPT ![p] = Append(@, e)]
    BY <1>1
  <2>3. Len(log[q]) \in Nat /\ Len(log'[q]) = IF q = p THEN Len(log[q]) + 1 ELSE Len(log[q])
    BY <1>3, <2>1, <2>2, FileGrows
  <2> QED
    BY <2>3
<1>9. ASSUME NEW q \in Proc, NEW i \in 1..Len(mark[q])
      PROVE  /\ mark[q][i] \in Nat /\ mark[q][i] <= Len(log[q])
             /\ Causes(q, mark[q][i])' = Causes(q, mark[q][i])
  <2>1. mark[q] \in Seq(Nat) /\ TypeOK
    BY DEF IInv, TypeOK
  <2>2. mark[q][i] \in Nat /\ mark[q][i] <= Len(log[q])
    BY <2>1 DEF CInv, MarkOK
  <2>3. Causes(q, mark[q][i])' = Causes(q, mark[q][i])
    <3>2. \A n1 \in Nat : n1 <= Len(log[q]) => Causes(q, n1)' = Causes(q, n1)
      BY <1>1, <1>3, <2>1, CausesStay
    <3>3. \A n1 \in Nat : n1 = mark[q][i] => Causes(q, n1)' = Causes(q, mark[q][i])'
      BY <1>1 DEF Causes
    <3> QED
      BY <2>2, <3>2, <3>3
  <2> QED
    BY <2>2, <2>3
<1>10. MarkOK'
  <2> SUFFICES ASSUME NEW q \in Proc
               PROVE  /\ Len(mark[q]) = IF main'[q].stage = "reading" THEN lsn'[q] + 1 ELSE lsn'[q]
                      /\ \A i \in 1..Len(mark[q]) : mark[q][i] <= Len(log'[q])
    BY <1>1 DEF MarkOK
  <2>1. Len(mark[q]) = IF main'[q].stage = "reading" THEN lsn'[q] + 1 ELSE lsn'[q]
    BY <1>1, <1>2 DEF CInv, MarkOK
  <2>2. \A i \in 1..Len(mark[q]) : mark[q][i] <= Len(log'[q])
    BY <1>8, <1>9
  <2> QED
    BY <2>1, <2>2
<1>11. ASSUME NEW q \in Proc, NEW n \in Nat, n < lsn[q]
       PROVE  n + 1 \in 1..Len(mark[q])
  BY <1>11 DEF CInv, MarkOK, IInv, TypeOK
<1>12. SentCovers'
  <2> SUFFICES ASSUME NEW m \in sent, NEW x \in Causes(m.src, mark[m.src][m.sn + 1])'
               PROVE  x.sn < m.W[x.src]
    BY <1>1 DEF SentCovers, Covers
  <2>1. m.src \in Proc /\ m.sn \in Nat /\ m.sn < lsn[m.src]
    <3>1. m.src \in Proc /\ m.sn \in Nat /\ m.sn < Issued(m.src)
      BY DEF IInv, TypeOK, Message, SentOK
    <3>2. main[m.src].W[m.src] \in Nat /\ lsn[m.src] \in Nat
      BY <3>1, TypeOf DEF IInv, Clock
    <3> QED
      BY <3>1, <3>2 DEF IInv, SendingOK, Issued
  <2>2. m.sn + 1 \in 1..Len(mark[m.src])
    BY <1>11, <2>1
  <2>3. x \in Causes(m.src, mark[m.src][m.sn + 1])
    BY <1>9, <2>1, <2>2
  <2> QED
    BY <2>3 DEF CInv, SentCovers, Covers
<1>13. ReadingCovers'
  <2> SUFFICES ASSUME NEW q \in Proc, main'[q].stage = "reading",
                      NEW x \in Causes(q, mark[q][lsn[q] + 1])', x.src \notin main'[q].todo
               PROVE  x.src = q \/ x.sn < main'[q].W[x.src]
    BY DEF ReadingCovers
  <2>1. q # p /\ main'[q] = main[q] /\ lsn'[q] = lsn[q]
    BY <1>2
  <2>2. lsn[q] + 1 \in 1..Len(mark[q])
    BY <2>1 DEF CInv, MarkOK, IInv, TypeOK
  <2>3. Causes(q, mark[q][lsn[q] + 1])' = Causes(q, mark[q][lsn[q] + 1])
    <3>1. \A i \in 1..Len(mark[q]) : i = lsn[q] + 1 =>
             Causes(q, mark[q][i])' = Causes(q, mark[q][lsn[q] + 1])'
      BY <2>1 DEF Causes
    <3> QED
      BY <1>9, <2>2, <3>1
  <2> QED
    BY <2>1, <2>3 DEF CInv, ReadingCovers
<1>14. SendingCovers'
  <2> SUFFICES ASSUME NEW q \in Proc, main'[q].stage = "sending",
                      NEW x \in Causes(q, mark[q][lsn[q]])'
               PROVE  x.sn < main'[q].W[x.src]
    BY DEF SendingCovers, Covers
  <2>1. CASE q # p
    <3>1. main'[q] = main[q] /\ lsn'[q] = lsn[q] /\ main[q].stage = "sending"
      BY <1>2, <2>1
    <3>2. lsn[q] \in 1..Len(mark[q])
      <4>1. lsn[q] = main[q].W[q] + 1 /\ main[q].W[q] \in Nat /\ Len(mark[q]) = lsn[q]
        BY <3>1, TypeOf DEF IInv, SendingOK, CInv, MarkOK, Clock
      <4> QED
        BY <4>1
    <3>3. Causes(q, mark[q][lsn[q]])' = Causes(q, mark[q][lsn[q]])
      <4>1. \A i \in 1..Len(mark[q]) : i = lsn[q] =>
               Causes(q, mark[q][i])' = Causes(q, mark[q][lsn[q]])'
        BY <3>1 DEF Causes
      <4> QED
        BY <1>9, <3>2, <4>1
    <3> QED
      BY <3>1, <3>3 DEF CInv, SendingCovers, Covers
  <2>2. CASE q = p
    <3>1. lsn[p] + 1 \in 1..Len(mark[p])
      BY <1>1 DEF CInv, MarkOK, IInv, TypeOK
    <3>2. x \in Causes(p, mark[p][lsn[p] + 1])
      <4>1. \A i \in 1..Len(mark[p]) : i = lsn'[p] =>
               Causes(p, mark[p][i])' = Causes(p, mark[p][lsn[p]])'
        BY DEF Causes
      <4> QED
        BY <1>2, <1>9, <2>2, <3>1, <4>1
    <3>3. /\ x.ev = "d" /\ x.src \in Proc /\ x.sn \in Nat
          /\ \E j \in 1..Len(log[p]) : log[p][j] = x
      BY <1>9, <3>1, <3>2, CausesAre DEF IInv
    <3>4. CASE x.src = p
      <4>1. x.sn < Logged(p, p)
        BY <3>3, <3>4 DEF CInv, CountedLines
      <4>2. VC[p][p] \in Nat /\ Logged(p, p) \in Int /\ Logged(p, p) <= VC[p][p] /\ VC[p][p] <= lsn[p]
        BY <1>1, LoggedIs DEF IInv, ClockBound, Issued
      <4>3. x.sn < lsn[p]
        BY <1>2, <3>3, <4>1, <4>2
      <4> QED
        BY <1>2, <2>2, <3>3, <3>4, <4>3
    <3>5. CASE x.src # p
      <4>1. x.sn < main[p].W[x.src]
        BY <1>1, <3>2, <3>5 DEF CInv, ReadingCovers
      <4> QED
        BY <1>2, <2>2, <3>3, <3>5, <4>1
    <3> QED
      BY <3>4, <3>5
  <2> QED
    BY <2>1, <2>2
<1> QED
  BY <1>5, <1>6, <1>7, <1>10, <1>12, <1>13, <1>14 DEF CInv

(* The message sent has the stamp that was put together.                    *)
LEMMA SendCausal ==
  ASSUME IInv, CInv, NEW p \in Proc, Send(p)
  PROVE  CInv'
<1>1. /\ UNCHANGED <<lsn, VC, handed, pairs, cur, log, mark>>
      /\ main[p].stage = "sending" /\ sent' = sent \cup {Stamped(p)}
      /\ main'[p].stage = "idle"
      /\ \A q \in Proc \ {p} : main'[q] = main[q]
  BY DEF IInv, TypeOK, Send
<1>2. CountedLines' /\ LinesCounted' /\ CurCovered' /\ CausalFromCall'
      /\ \A q \in Proc : \A n : Causes(q, n)' = Causes(q, n)
  BY <1>1, FileStays
<1>3. MarkOK'
  BY <1>1 DEF CInv, MarkOK
<1>4. SendingCovers' /\ ReadingCovers'
  BY <1>1, <1>2 DEF CInv, SendingCovers, ReadingCovers, Covers
<1>5. SentCovers'
  <2> SUFFICES ASSUME NEW m \in sent'
               PROVE  Covers(m.W, Causes(m.src, mark[m.src][m.sn + 1])) /\ m.src \in Proc
    BY <1>1, <1>2 DEF SentCovers, Covers
  <2>1. CASE m \in sent
    BY <2>1 DEF CInv, SentCovers, IInv, TypeOK, Message
  <2>2. CASE m = Stamped(p)
    <3>1. m.src = p /\ m.W = main[p].W /\ m.sn + 1 = lsn[p]
      BY <1>1, <2>2 DEF Stamped, IInv, SendingOK
    <3> QED
      BY <1>1, <3>1 DEF CInv, SendingCovers
  <2> QED
    BY <1>1, <2>1, <2>2
<1> QED
  BY <1>2, <1>3, <1>4, <1>5 DEF CInv

LEMMA deliverCausal ==
  ASSUME IInv, CInv, NEW p \in Proc, NEW m \in sent, deliver(p, m)
  PROVE  CInv'
<1>1. UNCHANGED <<lsn, VC, main, sent, cur, log, mark>>
  BY DEF deliver
<1> QED
  BY <1>1, FileStays, StampsStay DEF CInv

(* A clock that covers a stamp, between deliveries, counts what is logged.  *)
LEMMA AdvanceCausal ==
  ASSUME IInv, CInv, NEW p \in Proc, NEW m \in pairs[p], Advance(p, m)
  PROVE  CInv'
<1>1. /\ UNCHANGED <<lsn, main, sent, handed, pairs, log, mark>>
      /\ cur[p] = {} /\ isInferior(p, m.W)
      /\ cur'[p] = {m} /\ \A q \in Proc \ {p} : cur'[q] = cur[q]
  BY DEF IInv, TypeOK, Advance
<1>2. \A q, s \in Proc : Logged(q, s)' = Logged(q, s)
  <2>1. LoggedClock' = LoggedClock
    BY AdvanceLogsNothing
  <2>2. \A q, s \in Proc : LoggedClock[q][s] = Logged(q, s) /\ LoggedClock'[q][s] = Logged(q, s)'
    BY DEF LoggedClock
  <2> QED
    BY <2>1, <2>2
<1>3. CountedLines' /\ LinesCounted'
  BY <1>1, <1>2, LinesStay
<1>4. MarkOK' /\ SentCovers' /\ SendingCovers' /\ ReadingCovers' /\ CausalFromCall'
  BY <1>1, StampsStay
<1>5. CurCovered'
  <2> SUFFICES ASSUME NEW q \in Proc, NEW n \in cur'[q], NEW s \in Proc
               PROVE  n.W[s] <= Logged(q, s)
    BY <1>2 DEF CurCovered
  <2>1. CASE q = p
    BY <1>1, <2>1, LoggedIs DEF isInferior
  <2>2. CASE q # p
    BY <1>1, <2>2 DEF CInv, CurCovered
  <2> QED
    BY <2>1, <2>2
<1> QED
  BY <1>3, <1>4, <1>5 DEF CInv

(* Only a line more: what the main threads keep of the files stays.         *)
LEMMA StampsAppend ==
  ASSUME IInv, CInv, NEW p \in Proc, NEW e \in Event,
         log' = [log EXCEPT ![p] = Append(@, e)],
         UNCHANGED <<lsn, sent, mark, main>>
  PROVE  MarkOK' /\ SentCovers' /\ SendingCovers' /\ ReadingCovers'
<1>1. TypeOK
  BY DEF IInv
<1>2. ASSUME NEW q \in Proc, NEW i \in 1..Len(mark[q])
      PROVE  /\ mark[q][i] <= Len(log'[q])
             /\ Causes(q, mark[q][i])' = Causes(q, mark[q][i])
  <2>1. mark[q] \in Seq(Nat)
    BY <1>1 DEF TypeOK
  <2>2. mark[q][i] \in Nat /\ mark[q][i] <= Len(log[q])
    BY <2>1 DEF CInv, MarkOK
  <2>3. Len(log[q]) \in Nat /\ Len(log'[q]) = IF q = p THEN Len(log[q]) + 1 ELSE Len(log[q])
    BY <1>1, FileGrows
  <2>4. \A n \in Nat : n <= Len(log[q]) => Causes(q, n)' = Causes(q, n)
    BY <1>1, CausesStay
  <2>5. \A n \in Nat : n = mark[q][i] => Causes(q, n)' = Causes(q, mark[q][i])'
    BY DEF Causes
  <2> QED
    BY <2>2, <2>3, <2>4, <2>5
<1>3. ASSUME NEW q \in Proc
      PROVE  /\ lsn[q] \in Nat
             /\ Len(mark[q]) = IF main[q].stage = "reading" THEN lsn[q] + 1 ELSE lsn[q]
  BY <1>1 DEF TypeOK, CInv, MarkOK
<1>4. MarkOK'
  BY <1>2, <1>3 DEF MarkOK
<1>5. SentCovers'
  <2> SUFFICES ASSUME NEW m \in sent, NEW x \in Causes(m.src, mark[m.src][m.sn + 1])'
               PROVE  x.sn < m.W[x.src]
    BY DEF SentCovers, Covers
  <2>1. m.src \in Proc /\ m.sn \in Nat /\ m.sn < lsn[m.src]
    <3>1. m.src \in Proc /\ m.sn \in Nat /\ m.sn < Issued(m.src)
      BY DEF IInv, TypeOK, Message, SentOK
    <3>2. main[m.src].W[m.src] \in Nat /\ lsn[m.src] \in Nat
      BY <3>1, TypeOf DEF IInv, Clock
    <3> QED
      BY <3>1, <3>2 DEF IInv, SendingOK, Issued
  <2>2. m.sn + 1 \in 1..Len(mark[m.src])
    BY <1>3, <2>1
  <2>3. x \in Causes(m.src, mark[m.src][m.sn + 1])
    BY <1>2, <2>1, <2>2
  <2> QED
    BY <2>3 DEF CInv, SentCovers, Covers
<1>6. SendingCovers'
  <2> SUFFICES ASSUME NEW q \in Proc, main[q].stage = "sending",
                      NEW x \in Causes(q, mark[q][lsn[q]])'
               PROVE  x.sn < main[q].W[x.src]
    BY DEF SendingCovers, Covers
  <2>1. lsn[q] \in 1..Len(mark[q])
    <3>1. lsn[q] = main[q].W[q] + 1 /\ main[q].W[q] \in Nat /\ Len(mark[q]) = lsn[q]
      BY <1>3, TypeOf DEF IInv, SendingOK, Clock
    <3> QED
      BY <3>1
  <2>2. x \in Causes(q, mark[q][lsn[q]])
    <3>1. \A i \in 1..Len(mark[q]) : i = lsn[q] =>
             Causes(q, mark[q][i])' = Causes(q, mark[q][lsn[q]])'
      BY DEF Causes
    <3> QED
      BY <1>2, <2>1, <3>1
  <2> QED
    BY <2>2 DEF CInv, SendingCovers, Covers
<1>7. ReadingCovers'
  <2> SUFFICES ASSUME NEW q \in Proc, main[q].stage = "reading",
                      NEW x \in Causes(q, mark[q][lsn[q] + 1])', x.src \notin main[q].todo
               PROVE  x.src = q \/ x.sn < main[q].W[x.src]
    BY DEF ReadingCovers
  <2>1. lsn[q] + 1 \in 1..Len(mark[q])
    BY <1>3
  <2>2. x \in Causes(q, mark[q][lsn[q] + 1])
    <3>1. \A i \in 1..Len(mark[q]) : i = lsn[q] + 1 =>
             Causes(q, mark[q][i])' = Causes(q, mark[q][lsn[q] + 1])'
      BY DEF Causes
    <3> QED
      BY <1>2, <2>1, <3>1
  <2> QED
    BY <2>2 DEF CInv, ReadingCovers
<1> QED
  BY <1>4, <1>5, <1>6, <1>7

(* The line of a delivery comes after all that its stamp covers.            *)
LEMMA EraseCausal ==
  ASSUME IInv, CInv, NEW p \in Proc, NEW m \in cur[p], LogAndErase(p, m)
  PROVE  CInv'
<1> DEFINE e == Delivery(m.src, m.sn)
<1>1. /\ UNCHANGED <<lsn, VC, main, sent, handed, mark>>
      /\ log' = [log EXCEPT ![p] = Append(@, e)]
      /\ cur'[p] = {} /\ \A q \in Proc \ {p} : cur'[q] = cur[q]
  BY DEF IInv, TypeOK, LogAndErase, Delivery
<1>2. /\ m \in sent /\ m.src \in Proc /\ m.sn \in Nat
      /\ e \in Event /\ e.ev = "d" /\ e.src = m.src /\ e.sn = m.sn
  BY DEF IInv, WaitingOK, TypeOK, Message, Event, Delivery
<1>3. /\ \A q, s \in Proc : Logged(q, s) \in Int
      /\ \A q, s \in Proc : Logged(q, s)' =
            IF q = p /\ s = m.src THEN Logged(q, s) + 1 ELSE Logged(q, s)
      /\ Logged(p, m.src) = m.sn
  <2>1. Fifo!Deliver(p, m.src)
    BY EraseDelivers
  <2>2. LoggedClock' = [LoggedClock EXCEPT ![p][m.src] = @ + 1]
    BY <2>1 DEF Fifo!Deliver, LoggedClock
  <2>3. \A q, s \in Proc : LoggedClock[q][s] = Logged(q, s) /\ LoggedClock'[q][s] = Logged(q, s)'
    BY DEF LoggedClock
  <2>4. \A q, s \in Proc : Logged(q, s) \in Int
    BY LoggedIs
  <2>5. \A q, s \in Proc : LoggedClock'[q][s] =
            IF q = p /\ s = m.src THEN LoggedClock[q][s] + 1 ELSE LoggedClock[q][s]
    <3>1. LoggedClock \in [Proc -> [Proc -> Int]]
      BY <2>4 DEF LoggedClock
    <3> QED
      BY <1>2, <2>2, <3>1
  <2>6. Logged(p, m.src) = m.sn
    BY <1>2 DEF Logged, IInv, CurOK, WaitingOK
  <2> QED
    BY <2>3, <2>4, <2>5, <2>6
<1> HIDE DEF e
<1>4. TypeOK
  BY DEF IInv
<1>5. ASSUME NEW q \in Proc
      PROVE  /\ Len(log[q]) \in Nat
             /\ Len(log'[q]) = IF q = p THEN Len(log[q]) + 1 ELSE Len(log[q])
             /\ \A j \in 1..Len(log[q]) : log'[q][j] = log[q][j]
             /\ log'[p][Len(log[p]) + 1] = e
  BY <1>1, <1>2, <1>4, FileGrows
<1>6. CountedLines'
  <2> SUFFICES ASSUME NEW q \in Proc, NEW j \in 1..Len(log'[q]), log'[q][j].ev = "d"
               PROVE  \E s \in Proc : s = log'[q][j].src /\ log'[q][j].sn < Logged(q, s)'
    BY DEF CountedLines
  <2>1. CASE j \in 1..Len(log[q])
    <3>1. log[q][j].src \in Proc /\ log[q][j].sn \in Nat
      BY <1>4, <2>1, LineIs
    <3>2. log[q][j] = log'[q][j] /\ log[q][j].sn < Logged(q, log[q][j].src)
      BY <1>5, <2>1 DEF CInv, CountedLines
    <3> QED
      BY <1>3, <3>1, <3>2
  <2>2. CASE j \notin 1..Len(log[q])
    <3>1. q = p /\ j = Len(log[p]) + 1
      BY <1>5, <2>2
    <3>2. log'[q][j] = e
      BY <1>5, <3>1
    <3> QED
      BY <1>2, <1>3, <3>1, <3>2
  <2> QED
    BY <2>1, <2>2
<1>7. LinesCounted'
  <2> SUFFICES ASSUME NEW q \in Proc, NEW s \in Proc, NEW n \in Nat, n < Logged(q, s)'
               PROVE  \E j \in 1..Len(log'[q]) : log'[q][j] = Delivery(s, n)
    BY DEF LinesCounted
  <2>1. CASE n < Logged(q, s)
    <3>1. PICK j \in 1..Len(log[q]) : log[q][j] = Delivery(s, n)
      BY <2>1 DEF CInv, LinesCounted
    <3>2. j \in 1..Len(log'[q])
      BY <1>5, <3>1
    <3> QED
      BY <1>5, <3>1, <3>2
  <2>2. CASE ~(n < Logged(q, s))
    <3>1. q = p /\ s = m.src /\ n = m.sn
      BY <1>3, <2>2
    <3>2. Len(log[p]) + 1 \in 1..Len(log'[p])
      BY <1>5
    <3> QED
      BY <1>5, <3>1, <3>2 DEF e
  <2> QED
    BY <2>1, <2>2
<1>8. MarkOK' /\ SentCovers' /\ SendingCovers' /\ ReadingCovers'
  BY <1>1, <1>2, StampsAppend
<1>9. CurCovered'
  <2> SUFFICES ASSUME NEW q \in Proc, NEW n \in cur'[q], NEW s \in Proc
               PROVE  n.W[s] <= Logged(q, s)'
    BY DEF CurCovered
  <2>1. q # p /\ n \in cur[q]
    BY <1>1
  <2> QED
    BY <1>3, <2>1 DEF CInv, CurCovered
<1>10. CausalFromCall'
  <2>1. ASSUME m.sn + 1 \in 1..Len(mark[m.src]),
               NEW x \in Causes(m.src, mark[m.src][m.sn + 1])
        PROVE  DeliveredIn(p, Len(log[p]), x)
    <3>1. mark[m.src][m.sn + 1] \in Nat /\ mark[m.src][m.sn + 1] <= Len(log[m.src])
      <4>1. mark[m.src] \in Seq(Nat)
        BY <1>2, <1>4 DEF TypeOK
      <4> QED
        BY <1>2, <2>1, <4>1, SMTT(30) DEF CInv, MarkOK
    <3>2. x.src \in Proc /\ x.sn \in Nat
      BY <1>2, <1>4, <2>1, <3>1, CausesAre
    <3>3. x.sn < m.W[x.src] /\ m.W[x.src] <= Logged(p, x.src)
      BY <1>2, <2>1, <3>2 DEF CInv, SentCovers, Covers, CurCovered
    <3>4. m.W[x.src] \in Nat
      BY <1>2, <3>2 DEF IInv, TypeOK, Message, Clock
    <3>5. x.sn < Logged(p, x.src)
      BY <1>3, <3>2, <3>3, <3>4
    <3> QED
      BY <3>2, <3>5 DEF CInv, LinesCounted, DeliveredIn, Delivery
  <2> QED
    BY <1>1, <1>2, <2>1, CausalAppend
<1> QED
  BY <1>6, <1>7, <1>8, <1>9, <1>10 DEF CInv

-----------------------------------------------------------------------------
(* Localized causality counted from the call of broadcastMessage: what a    *)
(* process had delivered from its dependencies then is delivered everywhere *)
(* before the message, whatever the polling threads do while the stamp is   *)
(* read, and whoever crashes.                                               *)
THEOREM CausalFromCallCorrect == Spec => []CausalFromCall
<1>1. IInv /\ CInv /\ [Next]_vars => CInv'
  <2> SUFFICES ASSUME IInv, CInv, [Next]_vars PROVE CInv'
    OBVIOUS
  <2>1. CASE UNCHANGED vars
    BY <2>1, FileStays, StampsStay DEF vars, CInv
  <2>2. CASE Next
    BY <2>2, EnterCausal, ReadCausal, StampCausal, SendCausal, deliverCausal,
       AdvanceCausal, EraseCausal DEF Next, MainThread, Poller, Upcall
  <2> QED
    BY <2>1, <2>2
<1>2. CInv => CausalFromCall
  BY DEF CInv
<1> QED
  BY <1>1, <1>2, CInvInit, Invariance, PTL DEF Spec

=============================================================================
