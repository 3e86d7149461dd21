--------------------------- MODULE ProgramProofs ---------------------------
(***************************************************************************)
(* Theorems about the program around the layers: the output file (Output), *)
(* for every number of messages, group size, signal and interleaving, and  *)
(* the links main makes of the hosts file (Hosts), for every file.         *)
(***************************************************************************)
EXTENDS Output, Hosts, WellFoundedInduction, FiniteSetTheorems, SequenceTheorems,
        TLAPS

-----------------------------------------------------------------------------
(* Induction without an operator parameter: the numbers for which something *)
(* fails are a set, and a set of numbers has a least element.               *)

Before == {p \in Nat \X Nat : p[1] < p[2]}

LEMMA NoInfiniteDescent == IsWellFoundedOn(Before, Nat)
  BY NatLessThanWellFounded DEF OpToRel, Before

(* Every set of numbers that is not empty has a least one.                  *)
LEMMA Least ==
  ASSUME NEW T \in SUBSET Nat, T # {}
  PROVE  \E n \in T : \A k \in T : n <= k
<1>1. PICK n \in T : \A k \in T : ~(<<k, n>> \in Before)
  BY NoInfiniteDescent, WFMin
<1>2. ASSUME NEW k \in T PROVE n <= k
  <2>1. n \in Nat /\ k \in Nat
    OBVIOUS
  <2>2. ~(<<k, n>> \in Before)
    BY <1>1
  <2>3. ~(k < n)
    BY <2>1, <2>2 DEF Before
  <2> QED
    BY <2>1, <2>3
<1> QED
  BY <1>2

(* The first n parts of ss, strung together, for every n.                   *)
Strung(f, ss) == f = [i \in 1..Len(ss) |-> IF i = 1 THEN ss[i] ELSE f[i - 1] \o ss[i]]

LEMMA FlattenIsStrung ==
  ASSUME NEW ss, Len(ss) # 0
  PROVE  FlattenSeq(ss) = (CHOOSE f : Strung(f, ss))[Len(ss)]
  BY DEF FlattenSeq, Strung

LEMMA FlattenEmpty == FlattenSeq(<<>>) = <<>>
  BY DEF FlattenSeq

LEMMA StrungAt ==
  ASSUME NEW ss, NEW f, Strung(f, ss), NEW i \in 1..Len(ss)
  PROVE  f[i] = IF i = 1 THEN ss[i] ELSE f[i - 1] \o ss[i]
<1> DEFINE rhs(k) == IF k = 1 THEN ss[k] ELSE f[k - 1] \o ss[k]
<1>1. f = [k \in 1..Len(ss) |-> rhs(k)]
  BY DEF Strung
<1> HIDE DEF rhs
<1>2. f[i] = rhs(i)
  BY <1>1
<1> QED
  BY <1>2 DEF rhs

LEMMA StrungExists ==
  ASSUME NEW S, NEW ss \in Seq(Seq(S))
  PROVE  \E f \in [1..Len(ss) -> Seq(S)] : Strung(f, ss)
<1> DEFINE Upto(n) == \E f \in [1..n -> Seq(S)] :
                        \A i \in 1..n : f[i] = IF i = 1 THEN ss[i] ELSE f[i - 1] \o ss[i]
           Failing == {n \in 0..Len(ss) : ~Upto(n)}
<1>1. Len(ss) \in Nat /\ \A i \in 1..Len(ss) : ss[i] \in Seq(S)
  OBVIOUS
<1>2. Failing = {}
  <2> SUFFICES ASSUME Failing # {} PROVE FALSE
    OBVIOUS
  <2>1. Failing \in SUBSET Nat
    BY <1>1
  <2>2. PICK n \in Failing : \A k \in Failing : n <= k
    BY <2>1, Least
  <2>3. n \in 0..Len(ss) /\ ~Upto(n)
    BY <2>2
  <2>4. n # 0
    <3>1. [i \in 1..0 |-> <<>>] \in [1..0 -> Seq(S)]
      OBVIOUS
    <3>2. Upto(0)
      <4> WITNESS [i \in 1..0 |-> <<>>] \in [1..0 -> Seq(S)]
      <4> QED
        OBVIOUS
    <3> QED
      BY <2>3, <3>2
  <2>5. n - 1 \in 0..Len(ss) /\ n - 1 \notin Failing
    <3>1. n - 1 \in 0..Len(ss) /\ ~(n <= n - 1)
      BY <1>1, <2>3, <2>4
    <3> QED
      BY <2>2, <3>1
  <2>6. PICK f \in [1..(n - 1) -> Seq(S)] :
          \A i \in 1..(n - 1) : f[i] = IF i = 1 THEN ss[i] ELSE f[i - 1] \o ss[i]
    BY <2>5
  <2> DEFINE last == IF n = 1 THEN ss[n] ELSE f[n - 1] \o ss[n]
             g == [i \in 1..n |-> IF i = n THEN last ELSE f[i]]
  <2>7. last \in Seq(S)
    <3>1. ss[n] \in Seq(S)
      BY <1>1, <2>3, <2>4
    <3>2. n # 1 => f[n - 1] \in Seq(S)
      BY <2>3, <2>4
    <3> QED
      BY <3>1, <3>2
  <2>8. g \in [1..n -> Seq(S)]
    <3>1. ASSUME NEW i \in 1..n PROVE (IF i = n THEN last ELSE f[i]) \in Seq(S)
      BY <2>3, <2>4, <2>7
    <3> QED
      BY <3>1
  <2>9. \A i \in 1..n : g[i] = IF i = 1 THEN ss[i] ELSE g[i - 1] \o ss[i]
    <3> TAKE i \in 1..n
    <3>1. CASE i = n
      <4>1. n # 1 => g[n - 1] = f[n - 1]
        BY <2>3, <2>4
      <4>2. g[i] = last
        BY <3>1
      <4> QED
        BY <3>1, <4>1, <4>2
    <3>2. CASE i # n
      <4>1. i \in 1..(n - 1) /\ g[i] = f[i]
        BY <2>3, <3>2
      <4>2. i # 1 => g[i - 1] = f[i - 1]
        BY <2>3, <3>2
      <4> QED
        BY <2>6, <4>1, <4>2
    <3> QED
      BY <3>1, <3>2
  <2> QED
    BY <2>3, <2>8, <2>9
<1>3. Upto(Len(ss))
  <2>1. Len(ss) \in 0..Len(ss)
    BY <1>1
  <2> HIDE DEF Upto
  <2> QED
    BY <1>2, <2>1
<1>4. PICK f \in [1..Len(ss) -> Seq(S)] :
        \A i \in 1..Len(ss) : f[i] = IF i = 1 THEN ss[i] ELSE f[i - 1] \o ss[i]
  BY <1>3
<1>5. Strung(f, ss)
  BY <1>4 DEF Strung
<1> QED
  BY <1>5

Beginnings(ss) == CHOOSE f : Strung(f, ss)

LEMMA BeginningsAt ==
  ASSUME NEW S, NEW ss \in Seq(Seq(S)), NEW i \in 1..Len(ss)
  PROVE  Beginnings(ss)[i] = IF i = 1 THEN ss[i] ELSE Beginnings(ss)[i - 1] \o ss[i]
<1>1. \E f : Strung(f, ss)
  BY StrungExists
<1>2. Strung(Beginnings(ss), ss)
  BY <1>1 DEF Beginnings
<1> QED
  BY <1>2, StrungAt

LEMMA BeginningsType ==
  ASSUME NEW S, NEW ss \in Seq(Seq(S)), NEW n \in 1..Len(ss)
  PROVE  Beginnings(ss)[n] \in Seq(S)
<1> DEFINE Failing == {i \in 1..Len(ss) : Beginnings(ss)[i] \notin Seq(S)}
<1>1. SUFFICES ASSUME Failing # {} PROVE FALSE
  OBVIOUS
<1>2. PICK i \in Failing : \A k \in Failing : i <= k
  <2>1. Failing \in SUBSET Nat
    OBVIOUS
  <2> QED
    BY <1>1, <2>1, Least
<1>3. i \in 1..Len(ss) /\ ss[i] \in Seq(S) /\ Beginnings(ss)[i] \notin Seq(S)
  BY <1>2
<1>4. i # 1 => Beginnings(ss)[i - 1] \in Seq(S)
  <2> SUFFICES ASSUME i # 1, Beginnings(ss)[i - 1] \notin Seq(S) PROVE FALSE
    OBVIOUS
  <2>1. i - 1 \in 1..Len(ss) /\ ~(i <= i - 1)
    BY <1>3
  <2> QED
    BY <1>2, <2>1
<1>5. Beginnings(ss)[i] = IF i = 1 THEN ss[i] ELSE Beginnings(ss)[i - 1] \o ss[i]
  BY <1>3, BeginningsAt
<1> QED
  BY <1>3, <1>4, <1>5

(* Appending a part leaves the shorter prefixes as they are.                *)
LEMMA BeginningsAppend ==
  ASSUME NEW S, NEW ss \in Seq(Seq(S)), NEW s \in Seq(S), NEW n \in 1..Len(ss)
  PROVE  Beginnings(Append(ss, s))[n] = Beginnings(ss)[n]
<1> DEFINE tt == Append(ss, s)
           Failing == {i \in 1..Len(ss) : Beginnings(tt)[i] # Beginnings(ss)[i]}
<1>1. SUFFICES ASSUME Failing # {} PROVE FALSE
  OBVIOUS
<1>2. PICK i \in Failing : \A k \in Failing : i <= k
  <2>1. Failing \in SUBSET Nat
    OBVIOUS
  <2> QED
    BY <1>1, <2>1, Least
<1>3. i \in 1..Len(ss) /\ Beginnings(tt)[i] # Beginnings(ss)[i]
  BY <1>2
<1>4. i \in 1..Len(tt) /\ tt[i] = ss[i] /\ tt \in Seq(Seq(S))
  BY <1>3
<1>5. i # 1 => Beginnings(tt)[i - 1] = Beginnings(ss)[i - 1]
  <2> SUFFICES ASSUME i # 1, Beginnings(tt)[i - 1] # Beginnings(ss)[i - 1] PROVE FALSE
    OBVIOUS
  <2>1. i - 1 \in 1..Len(ss) /\ ~(i <= i - 1)
    BY <1>3
  <2> QED
    BY <1>2, <2>1
<1> HIDE DEF tt
<1>6. Beginnings(tt)[i] = IF i = 1 THEN tt[i] ELSE Beginnings(tt)[i - 1] \o tt[i]
  BY <1>4, BeginningsAt
<1>7. Beginnings(ss)[i] = IF i = 1 THEN ss[i] ELSE Beginnings(ss)[i - 1] \o ss[i]
  BY <1>3, BeginningsAt
<1> QED
  BY <1>3, <1>4, <1>5, <1>6, <1>7

(* FlattenSeq, one part at a time.                                          *)
LEMMA FlattenAppend ==
  ASSUME NEW S, NEW ss \in Seq(Seq(S)), NEW s \in Seq(S)
  PROVE  /\ FlattenSeq(ss) \in Seq(S)
         /\ FlattenSeq(Append(ss, s)) = FlattenSeq(ss) \o s
<1> DEFINE tt == Append(ss, s)
<1>1. tt \in Seq(Seq(S)) /\ Len(tt) = Len(ss) + 1 /\ Len(ss) \in Nat /\ tt[Len(tt)] = s
  OBVIOUS
<1>2. \A n \in 1..Len(ss) : Beginnings(tt)[n] = Beginnings(ss)[n]
  BY BeginningsAppend
<1> HIDE DEF tt
<1>3. FlattenSeq(tt) = Beginnings(tt)[Len(tt)]
  BY <1>1, FlattenIsStrung DEF Beginnings
<1>4. Beginnings(tt)[Len(tt)] = IF Len(tt) = 1 THEN s ELSE Beginnings(tt)[Len(ss)] \o s
  <2>1. Len(tt) \in 1..Len(tt) /\ Len(tt) - 1 = Len(ss)
    BY <1>1
  <2> QED
    BY <1>1, <2>1, BeginningsAt
<1>5. CASE Len(ss) = 0
  <2>1. ss = <<>> /\ FlattenSeq(ss) = <<>>
    BY <1>5, FlattenEmpty
  <2>2. FlattenSeq(tt) = s
    BY <1>1, <1>3, <1>4, <1>5
  <2>3. <<>> \o s = s /\ <<>> \in Seq(S)
    OBVIOUS
  <2> QED
    BY <2>1, <2>2, <2>3 DEF tt
<1>6. CASE Len(ss) # 0
  <2>1. FlattenSeq(ss) = Beginnings(ss)[Len(ss)]
    BY <1>6, FlattenIsStrung DEF Beginnings
  <2>2. Len(ss) \in 1..Len(ss)
    BY <1>1, <1>6
  <2>3. Beginnings(ss)[Len(ss)] \in Seq(S)
    BY <2>2, BeginningsType
  <2> QED
    <3>1. Beginnings(tt)[Len(ss)] = FlattenSeq(ss)
      BY <1>2, <2>1, <2>2
    <3>2. FlattenSeq(tt) = FlattenSeq(ss) \o s
      BY <1>1, <1>3, <1>4, <1>6, <3>1
    <3> QED
      BY <2>1, <2>3, <3>2 DEF tt
<1> QED
  BY <1>5, <1>6

-----------------------------------------------------------------------------
(* Counting the lines of one kind.                                         *)

LEMMA CountFinite ==
  ASSUME NEW s, NEW n \in Nat, NEW ev
  PROVE  /\ IsFiniteSet({i \in 1..n : s[i].ev = ev})
         /\ CountTo(s, n, ev) \in Nat
<1>1. IsFiniteSet(1..n)
  BY FS_Interval
<1>2. {i \in 1..n : s[i].ev = ev} \in SUBSET (1..n)
  OBVIOUS
<1>3. IsFiniteSet({i \in 1..n : s[i].ev = ev})
  BY <1>1, <1>2, FS_Subset
<1> QED
  BY <1>3, FS_CardinalityType DEF CountTo

LEMMA CountNone ==
  ASSUME NEW s, NEW ev
  PROVE  CountTo(s, 0, ev) = 0
<1>1. {i \in 1..0 : s[i].ev = ev} = {}
  OBVIOUS
<1> QED
  BY <1>1, FS_EmptySet DEF CountTo

(* What follows does not change what was counted ...                        *)
LEMMA CountBefore ==
  ASSUME NEW S, NEW s \in Seq(S), NEW t \in Seq(S), NEW n \in 0..Len(s), NEW ev
  PROVE  CountTo(s \o t, n, ev) = CountTo(s, n, ev)
<1>1. \A i \in 1..n : (s \o t)[i] = s[i]
  OBVIOUS
<1>2. {i \in 1..n : (s \o t)[i].ev = ev} = {i \in 1..n : s[i].ev = ev}
  BY <1>1
<1> QED
  BY <1>2 DEF CountTo

(* ... and adds to it, when all of it is of the kind counted, ...            *)
LEMMA CountMore ==
  ASSUME NEW S, NEW s \in Seq(S), NEW t \in Seq(S), NEW ev,
         \A j \in 1..Len(t) : t[j].ev = ev, NEW n \in 0..Len(t)
  PROVE  CountTo(s \o t, Len(s) + n, ev) = CountOf(s, ev) + n
<1> DEFINE st == s \o t
           A == {i \in 1..Len(s) : s[i].ev = ev}
           B == {i \in 1..(Len(s) + n) : st[i].ev = ev}
           C == (Len(s) + 1)..(Len(s) + n)
<1>1. /\ Len(s) \in Nat /\ Len(t) \in Nat /\ n \in Nat
      /\ \A i \in 1..Len(s) : st[i] = s[i]
      /\ \A i \in C : st[i] = t[i - Len(s)] /\ i - Len(s) \in 1..Len(t)
  OBVIOUS
<1>2. IsFiniteSet(A) /\ Cardinality(A) \in Nat
  <2>1. IsFiniteSet(1..Len(s)) /\ A \in SUBSET (1..Len(s))
    BY <1>1, FS_Interval
  <2>2. IsFiniteSet(A)
    BY <2>1, FS_Subset
  <2> QED
    BY <2>2, FS_CardinalityType
<1>3. IsFiniteSet(C) /\ Cardinality(C) = n
  <2>1. Len(s) + 1 \in Int /\ Len(s) + n \in Int
        /\ (Len(s) + 1 > Len(s) + n <=> n = 0) /\ (Len(s) + n) - (Len(s) + 1) + 1 = n
    BY <1>1
  <2> QED
    BY <2>1, FS_Interval
<1> HIDE DEF st, C
<1>4. B = A \cup C
  <2>1. \A i \in C : st[i].ev = ev
    BY <1>1
  <2> QED
    BY <1>1, <2>1 DEF C
<1>5. A \cap C = {}
  BY <1>1 DEF C
<1>6. Cardinality(A \cap C) = 0
  BY <1>5, FS_EmptySet
<1>7. Cardinality(A \cup C) = Cardinality(A) + Cardinality(C) - Cardinality(A \cap C)
  BY <1>2, <1>3, FS_Union
<1>8. Cardinality(A \cup C) = Cardinality(A) + n
  BY <1>1, <1>2, <1>3, <1>6, <1>7
<1>9. CountTo(st, Len(s) + n, ev) = Cardinality(B) /\ CountOf(s, ev) = Cardinality(A)
  BY DEF CountTo, CountOf
<1> QED
  BY <1>4, <1>8, <1>9 DEF st

(* ... but not when none of it is.                                          *)
LEMMA CountSame ==
  ASSUME NEW S, NEW s \in Seq(S), NEW t \in Seq(S), NEW ev,
         \A j \in 1..Len(t) : t[j].ev # ev
  PROVE  CountOf(s \o t, ev) = CountOf(s, ev)
<1> DEFINE st == s \o t
           A == {i \in 1..Len(s) : s[i].ev = ev}
           B == {i \in 1..Len(st) : st[i].ev = ev}
<1>1. /\ Len(s) \in Nat /\ Len(t) \in Nat /\ Len(st) = Len(s) + Len(t)
      /\ \A i \in 1..Len(s) : st[i] = s[i]
      /\ \A i \in (Len(s) + 1)..Len(st) : st[i] = t[i - Len(s)] /\ i - Len(s) \in 1..Len(t)
  OBVIOUS
<1> HIDE DEF st
<1>2. \A i \in (Len(s) + 1)..Len(st) : st[i].ev # ev
  BY <1>1
<1>3. B = A
  BY <1>1, <1>2
<1> QED
  BY <1>3 DEF CountTo, CountOf, st

LEMMA CountAppended ==
  ASSUME NEW S, NEW s \in Seq(S), NEW x \in S, NEW ev
  PROVE  CountOf(Append(s, x), ev) = CountOf(s, ev) + (IF x.ev = ev THEN 1 ELSE 0)
<1> DEFINE t == <<x>>
           n == Len(t)
<1>1. t \in Seq(S) /\ n = 1 /\ n \in 0..Len(t) /\ \A j \in 1..Len(t) : t[j].ev = x.ev
  OBVIOUS
<1>2. Append(s, x) = s \o t /\ Len(s \o t) = Len(s) + n
  OBVIOUS
<1>3. CountOf(s, ev) \in Nat
  <2>1. Len(s) \in Nat
    OBVIOUS
  <2> QED
    BY <2>1, CountFinite DEF CountOf
<1> HIDE DEF t, n
<1>4. CASE x.ev = ev
  <2>1. CountTo(s \o t, Len(s) + n, ev) = CountOf(s, ev) + n
    BY <1>1, <1>4, CountMore
  <2> QED
    BY <1>1, <1>2, <1>4, <2>1 DEF CountOf
<1>5. CASE x.ev # ev
  <2>1. CountOf(s \o t, ev) = CountOf(s, ev)
    BY <1>1, <1>5, CountSame
  <2> QED
    BY <1>2, <1>3, <1>5, <2>1
<1> QED
  BY <1>4, <1>5

-----------------------------------------------------------------------------
(* Expanding the log, one entry at a time.                                 *)

(* An entry has as many messages as it says.                                *)
WholeEntry == {e \in LogEntry : e.count = Len(e.msgs)}

LEMMA LinesType ==
  ASSUME NEW e \in WholeEntry
  PROVE  /\ Lines(e) \in Seq(Line)
         /\ Len(Lines(e)) = e.count /\ e.count \in Nat
         /\ \A i \in 1..e.count : Lines(e)[i] = [ev |-> e.ev, src |-> e.src, msg |-> e.msgs[i]]
<1>1. e.count \in Nat /\ \A i \in 1..e.count : e.msgs[i] \in Nat
  BY GroupByAssumption DEF WholeEntry, LogEntry
<1>2. e.ev \in {"b", "d"} /\ e.src \in {"self", "peer"}
  BY DEF WholeEntry, LogEntry
<1>3. \A i \in 1..e.count : [ev |-> e.ev, src |-> e.src, msg |-> e.msgs[i]] \in Line
  BY <1>1, <1>2 DEF Line
<1>4. Lines(e) \in [1..e.count -> Line]
  BY <1>3 DEF Lines
<1>5. Lines(e) \in Seq(Line) /\ Len(Lines(e)) = e.count
  BY <1>1, <1>4
<1> QED
  BY <1>1, <1>5 DEF Lines

LEMMA DeconcatEmpty == deconcatMessages(<<>>) = <<>>
<1>1. [i \in 1..Len(<<>>) |-> Lines(<<>>[i])] = <<>>
  OBVIOUS
<1> QED
  BY <1>1, FlattenEmpty DEF deconcatMessages

LEMMA DeconcatType ==
  ASSUME NEW l \in Seq(WholeEntry)
  PROVE  deconcatMessages(l) \in Seq(Line)
<1> DEFINE parts == [i \in 1..Len(l) |-> Lines(l[i])]
<1>1. parts \in Seq(Seq(Line))
  <2>1. \A i \in 1..Len(l) : Lines(l[i]) \in Seq(Line)
    BY LinesType
  <2> QED
    BY <2>1
<1>2. <<>> \in Seq(Line)
  OBVIOUS
<1> HIDE DEF parts
<1>3. FlattenSeq(parts) \in Seq(Line)
  BY <1>1, <1>2, FlattenAppend
<1> QED
  BY <1>3 DEF deconcatMessages, parts

LEMMA DeconcatAppend ==
  ASSUME NEW l \in Seq(WholeEntry), NEW e \in WholeEntry
  PROVE  /\ deconcatMessages(l) \in Seq(Line)
         /\ deconcatMessages(Append(l, e)) = deconcatMessages(l) \o Lines(e)
         /\ deconcatMessages(Append(l, e)) \in Seq(Line)
<1> DEFINE parts(k) == [i \in 1..Len(k) |-> Lines(k[i])]
<1>1. parts(l) \in Seq(Seq(Line))
  <2>1. \A i \in 1..Len(l) : Lines(l[i]) \in Seq(Line)
    BY LinesType
  <2> QED
    BY <2>1
<1>2. parts(Append(l, e)) = Append(parts(l), Lines(e))
  <2>1. Len(Append(l, e)) = Len(l) + 1 /\ Len(l) \in Nat /\ Append(l, e)[Len(l) + 1] = e
        /\ \A i \in 1..Len(l) : Append(l, e)[i] = l[i]
    OBVIOUS
  <2>2. Len(Append(parts(l), Lines(e))) = Len(l) + 1
    BY <1>1
  <2>3. \A i \in 1..(Len(l) + 1) : parts(Append(l, e))[i] = Append(parts(l), Lines(e))[i]
    <3> TAKE i \in 1..(Len(l) + 1)
    <3>1. CASE i \in 1..Len(l)
      BY <1>1, <2>1, <3>1
    <3>2. CASE i = Len(l) + 1
      BY <1>1, <2>1, <3>2
    <3> QED
      BY <2>1, <3>1, <3>2
  <2>4. Append(parts(l), Lines(e)) \in Seq(Seq(Line))
    BY <1>1, LinesType
  <2> HIDE DEF parts
  <2>5. parts(Append(l, e)) = [i \in 1..(Len(l) + 1) |-> parts(Append(l, e))[i]]
    BY <2>1 DEF parts
  <2>6. Append(parts(l), Lines(e)) = [i \in 1..(Len(l) + 1) |-> Append(parts(l), Lines(e))[i]]
    <3> DEFINE whole == Append(parts(l), Lines(e))
    <3>1. whole \in Seq(Seq(Line)) /\ Len(whole) = Len(l) + 1
      BY <2>2, <2>4
    <3> HIDE DEF whole
    <3>2. whole = [i \in 1..(Len(l) + 1) |-> whole[i]]
      BY <3>1
    <3> QED
      BY <3>2 DEF whole
  <2> QED
    BY <2>3, <2>5, <2>6
<1>3. FlattenSeq(parts(l)) \in Seq(Line)
      /\ FlattenSeq(Append(parts(l), Lines(e))) = FlattenSeq(parts(l)) \o Lines(e)
  BY <1>1, LinesType, FlattenAppend
<1>4. FlattenSeq(parts(l)) \o Lines(e) \in Seq(Line)
  BY <1>3, LinesType
<1> QED
  BY <1>2, <1>3, <1>4 DEF deconcatMessages

-----------------------------------------------------------------------------
(* The inductive invariant of the output file.                             *)

InGroups ==
    /\ group.count = Len(group.msgs)
    /\ \A g \in to_send : g.count = Len(g.msgs)
    /\ \A i \in 1..Len(log) : log[i].count = Len(log[i].msgs)

(* The lines that would be written now, and how many there are of a kind.   *)
Written == deconcatMessages(log)

WrittenOf(ev) == CountOf(Written, ev)

(* The thread has a group in hand that is not logged yet.                   *)
Pending(t) == pc[t] \in {"log", "scan", "push", "append"}

(* The main loop numbers its messages on: those logged, those of the group  *)
(* in hand, those put together for the next, and seq_num.                   *)
OwnOrder ==
    LET taken == WrittenOf("b") + (IF Pending("main") THEN group.count ELSE 0) IN
    /\ seq_num = taken + Len(concat) + 1
    /\ \A i \in 1..Len(concat) : concat[i] = taken + i
    /\ Pending("main") =>
        group.count > 0 /\ \A i \in 1..group.count : group.msgs[i] = WrittenOf("b") + i

(* The groups of the peer that are logged are the first ones it made.       *)
PeerOrder ==
    LET taken == CountOf(log, "d") * GroupBy IN
    /\ WrittenOf("d") = IF taken < PeerCount THEN taken ELSE PeerCount
    /\ Pending("poller") => taken < PeerCount

(* No entry begins with a number that is not written.                       *)
FirstsWritten == \A i \in 1..Len(log) : log[i].msgs[1] <= WrittenOf(log[i].ev)

WrittenInOrder == InOrder(Written, "b") /\ InOrder(Written, "d")

HasGroup(lines, g) ==
    \A i \in 1..g.count : Contains(lines, [ev |-> "b", src |-> "self", msg |-> g.msgs[i]])

(* A group is logged before it is sent.                                     *)
SentLogged ==
    /\ \A g \in to_send : HasGroup(Written, g)
    /\ pc["main"] = "send" => HasGroup(Written, group)

(* What was logged at the signal is a beginning of what is logged later ... *)
AtStop == deconcatMessages(SubSeq(log, 1, atStop))

StopOK == handler.stage # "none" => atStop <= Len(log) /\ IsPrefix(AtStop, Written)

(* ... and of what the handler copied, which is in order, and complete if   *)
(* the handler runs in the main thread.                                     *)
Copied == deconcatMessages(copy)

CopyOK ==
    handler.stage \in {"copied", "exited"} =>
        /\ Copied \in Seq(Line)
        /\ InOrder(Copied, "b") /\ InOrder(Copied, "d")
        /\ IsPrefix(AtStop, Copied)
        /\ handler.by = "main" => \A g \in to_send : HasGroup(Copied, g)

FileOK == Exited => file = Copied

IInv ==
    /\ TypeOK /\ InGroups /\ OwnOrder /\ PeerOrder /\ FirstsWritten /\ WrittenInOrder
    /\ SentLogged /\ StopOK /\ CopyOK /\ FileOK

-----------------------------------------------------------------------------
(* What the invariant says of the types.                                   *)

LEMMA WrittenType ==
  ASSUME TypeOK, InGroups
  PROVE  /\ log \in Seq(WholeEntry) /\ Written \in Seq(Line)
         /\ \A ev : WrittenOf(ev) \in Nat /\ CountOf(log, ev) \in Nat
<1>1. log \in Seq(WholeEntry)
  <2>1. \A i \in 1..Len(log) : log[i] \in WholeEntry
    BY DEF TypeOK, InGroups, WholeEntry
  <2>2. log \in Seq(LogEntry)
    BY DEF TypeOK
  <2> QED
    BY <2>1, <2>2
<1>2. Written \in Seq(Line)
  BY <1>1, DeconcatType DEF Written
<1>3. Len(log) \in Nat /\ Len(Written) \in Nat
  BY <1>1, <1>2
<1> QED
  BY <1>1, <1>2, <1>3, CountFinite DEF CountOf, WrittenOf

LEMMA NumType ==
  ASSUME TypeOK
  PROVE  /\ num \in Nat /\ seq_num \in Nat /\ PeerCount \in Nat /\ GroupBy \in Nat /\ GroupBy > 0
         /\ concat \in Seq(Nat) /\ Len(concat) \in Nat /\ group.count \in Nat
         /\ group.msgs \in Seq(Nat)
<1>1. num \in Nat /\ PeerCount \in Nat /\ GroupBy \in Nat /\ GroupBy > 0
  BY CountsAssumption, GroupByAssumption DEF TypeOK
<1>2. concat \in Seq(1..num)
  BY DEF TypeOK
<1> QED
  BY <1>1, <1>2 DEF TypeOK, Group

(* The two digits of a count are read back as the count.                    *)
LEMMA HeadRead ==
  ASSUME NEW n \in 0..GroupBy
  PROVE  stoul(LastHead(n)) = n /\ stoul(RemainderHead(n)) = n
<1>1. n \in 0..99
  BY GroupByAssumption
<1>2. 10 * (n \div 10) + (n % 10) = n
  BY <1>1
<1> QED
  BY <1>2 DEF stoul, LastHead, RemainderHead

(* A group is read as its messages and how many there are.                  *)
LEMMA GroupRead ==
  ASSUME NEW msgs, Len(msgs) \in 0..GroupBy
  PROVE  GroupOf(msgs) = [count |-> Len(msgs), msgs |-> msgs]
  BY HeadRead DEF GroupOf

(* The entry the thread is to log.                                          *)
LEMMA NewEntryType ==
  ASSUME IInv, NEW t \in Logging, Pending(t)
  PROVE  /\ NewEntry(t) \in WholeEntry
         /\ NewEntry(t).ev = IF t = "main" THEN "b" ELSE "d"
         /\ NewEntry(t).src = IF t = "main" THEN "self" ELSE "peer"
         /\ NewEntry(t).count > 0
         /\ \A i \in 1..NewEntry(t).count :
                NewEntry(t).msgs[i] = WrittenOf(NewEntry(t).ev) + i
<1>1. CASE t = "main"
  <2>1. NewEntry(t) = [ev |-> "b", src |-> "self", count |-> group.count, msgs |-> group.msgs]
    BY <1>1 DEF NewEntry, Entry
  <2>2. group.count \in 1..GroupBy /\ group.msgs \in Seq(Nat) /\ group.count = Len(group.msgs)
        /\ \A i \in 1..group.count : group.msgs[i] = WrittenOf("b") + i
    <3>1. group.count \in 0..GroupBy /\ GroupBy \in Nat
      BY NumType DEF IInv, TypeOK, Group
    <3> QED
      BY <1>1, <3>1, NumType DEF IInv, OwnOrder, InGroups
  <2> QED
    BY <1>1, <2>1, <2>2 DEF WholeEntry, LogEntry
<1>2. CASE t = "poller"
  <2> DEFINE k == CountOf(log, "d")
             taken == k * GroupBy
             left == PeerCount - taken
             size == IF left < GroupBy THEN left ELSE GroupBy
  <2>1. k \in Nat /\ taken \in Nat /\ PeerCount \in Nat /\ GroupBy \in Nat /\ GroupBy > 0
    <3>1. k \in Nat
      BY WrittenType DEF IInv
    <3> HIDE DEF k
    <3> QED
      BY <3>1, NumType DEF IInv
  <2>2. taken < PeerCount /\ WrittenOf("d") = taken
    BY <1>2 DEF IInv, PeerOrder
  <2> HIDE DEF taken
  <2>3. size \in 1..GroupBy
    BY <2>1, <2>2
  <2> HIDE DEF size
  <2> DEFINE msgs == [i \in 1..size |-> taken + i]
  <2>4. msgs \in Seq(Nat) /\ Len(msgs) = size /\ \A i \in 1..size : msgs[i] = taken + i
    BY <2>1, <2>3
  <2>5. NewEntry(t) = [ev |-> "d", src |-> "peer", count |-> Len(msgs), msgs |-> msgs]
    <3>1. GroupOf(msgs) = [count |-> Len(msgs), msgs |-> msgs]
      <4>1. Len(msgs) \in 0..GroupBy
        BY <2>1, <2>3, <2>4
      <4> HIDE DEF msgs
      <4> QED
        BY <4>1, GroupRead
    <3>2. NewEntry(t) = Entry("d", "peer", GroupOf(msgs))
      BY <1>2 DEF NewEntry, MainGroup, taken, size
    <3> HIDE DEF msgs
    <3> QED
      BY <3>1, <3>2 DEF Entry
  <2> HIDE DEF msgs
  <2> QED
    BY <1>2, <2>2, <2>3, <2>4, <2>5 DEF WholeEntry, LogEntry
<1> QED
  BY <1>1, <1>2 DEF Logging

(* It is not in the log yet: it begins with a number that is not written.   *)
LEMMA NewEntryIsNew ==
  ASSUME IInv, NEW t \in Logging, Pending(t)
  PROVE  ~Contains(log, NewEntry(t))
<1> DEFINE e == NewEntry(t)
<1>1. e.count > 0 /\ e.count \in Nat /\ \A i \in 1..e.count : e.msgs[i] = WrittenOf(e.ev) + i
  <2>1. e \in WholeEntry /\ e.count > 0 /\ \A i \in 1..e.count : e.msgs[i] = WrittenOf(e.ev) + i
    BY NewEntryType
  <2> QED
    BY <2>1, LinesType
<1>2. WrittenOf(e.ev) \in Nat
  BY WrittenType DEF IInv
<1> HIDE DEF e
<1>3. ~(e.msgs[1] <= WrittenOf(e.ev))
  BY <1>1, <1>2
<1>4. \A i \in 1..Len(log) : log[i] # e
  BY <1>3 DEF IInv, FirstsWritten
<1> QED
  BY <1>4 DEF Contains, e

-----------------------------------------------------------------------------
(* What logging an entry does to the lines.                                *)

LEMMA LinesGrow ==
  ASSUME IInv, NEW t \in Logging, Pending(t), log' = Append(log, NewEntry(t))
  PROVE  /\ log' \in Seq(WholeEntry)
         /\ Written' = Written \o Lines(NewEntry(t))
         /\ Written' \in Seq(Line)
         /\ Lines(NewEntry(t)) \in Seq(Line)
         /\ Len(Lines(NewEntry(t))) = NewEntry(t).count
         /\ \A i \in 1..NewEntry(t).count :
                /\ Lines(NewEntry(t))[i].ev = NewEntry(t).ev
                /\ Lines(NewEntry(t))[i].src = NewEntry(t).src
                /\ Lines(NewEntry(t))[i].msg = WrittenOf(NewEntry(t).ev) + i
<1> DEFINE e == NewEntry(t)
<1>1. e \in WholeEntry /\ \A i \in 1..e.count : e.msgs[i] = WrittenOf(e.ev) + i
  BY NewEntryType
<1>2. log \in Seq(WholeEntry)
  BY WrittenType DEF IInv
<1> HIDE DEF e
<1>3. log' = Append(log, e)
  BY DEF e
<1>4. log' \in Seq(WholeEntry)
  BY <1>1, <1>2, <1>3
<1>5. Written' = Written \o Lines(e) /\ Written' \in Seq(Line)
  BY <1>1, <1>2, <1>3, DeconcatAppend DEF Written
<1>6. /\ Lines(e) \in Seq(Line) /\ Len(Lines(e)) = e.count
      /\ \A i \in 1..e.count : Lines(e)[i] = [ev |-> e.ev, src |-> e.src, msg |-> e.msgs[i]]
  BY <1>1, LinesType
<1>7. \A i \in 1..e.count :
        /\ Lines(e)[i].ev = e.ev
        /\ Lines(e)[i].src = e.src
        /\ Lines(e)[i].msg = WrittenOf(e.ev) + i
  <2> TAKE i \in 1..e.count
  <2>1. e.msgs[i] = WrittenOf(e.ev) + i
    BY <1>1
  <2>2. Lines(e)[i] = [ev |-> e.ev, src |-> e.src, msg |-> e.msgs[i]]
    BY <1>6
  <2> QED
    BY <2>1, <2>2
<1>8. Lines(e) \in Seq(Line) /\ Len(Lines(e)) = e.count
  BY <1>6
<1> QED
  BY <1>4, <1>5, <1>7, <1>8 DEF e

LEMMA CountsGrow ==
  ASSUME IInv, NEW t \in Logging, Pending(t), log' = Append(log, NewEntry(t)),
         NEW ev
  PROVE  /\ WrittenOf(ev)' = WrittenOf(ev)
                + (IF ev = NewEntry(t).ev THEN NewEntry(t).count ELSE 0)
         /\ CountOf(log, ev)' = CountOf(log, ev) + (IF ev = NewEntry(t).ev THEN 1 ELSE 0)
<1> DEFINE e == NewEntry(t)
           s == Lines(e)
<1>1. e \in WholeEntry /\ log \in Seq(WholeEntry) /\ Written \in Seq(Line)
      /\ WrittenOf(ev) \in Nat /\ CountOf(log, ev) \in Nat
  BY NewEntryType, WrittenType DEF IInv
<1>2. /\ Written' = Written \o s /\ s \in Seq(Line) /\ Len(s) = e.count /\ e.count \in Nat
      /\ \A i \in 1..Len(s) : s[i].ev = e.ev
  BY <1>1, LinesGrow, LinesType
<1>3. log' = Append(log, e)
  OBVIOUS
<1> HIDE DEF e, s
<1>4. CountOf(log', ev) = CountOf(log, ev) + (IF e.ev = ev THEN 1 ELSE 0)
  BY <1>1, <1>3, CountAppended
<1>5. WrittenOf(ev)' = WrittenOf(ev) + (IF ev = e.ev THEN e.count ELSE 0)
  <2>1. CASE ev = e.ev
    <3> DEFINE n == Len(s)
    <3>1. n \in 0..Len(s) /\ \A i \in 1..Len(s) : s[i].ev = ev
      BY <1>2, <2>1
    <3> HIDE DEF n
    <3>2. CountTo(Written \o s, Len(Written) + n, ev) = CountOf(Written, ev) + n
      <4>1. Written \in Seq(Line) /\ s \in Seq(Line)
        BY <1>1, <1>2
      <4> QED
        BY <3>1, <4>1, CountMore
    <3>3. Len(Written \o s) = Len(Written) + n
      <4>1. Written \in Seq(Line) /\ s \in Seq(Line)
        BY <1>1, <1>2
      <4> QED
        BY <4>1 DEF n
    <3> QED
      BY <1>2, <2>1, <3>2, <3>3 DEF WrittenOf, CountOf, n
  <2>2. CASE ev # e.ev
    <3>1. \A i \in 1..Len(s) : s[i].ev # ev
      BY <1>2, <2>2
    <3>2. CountOf(Written \o s, ev) = CountOf(Written, ev)
      BY <1>1, <1>2, <3>1, CountSame
    <3> QED
      BY <1>1, <1>2, <2>2, <3>2 DEF WrittenOf
  <2> QED
    BY <2>1, <2>2
<1> QED
  BY <1>4, <1>5 DEF e

(* The lines of either kind stay numbered.                                  *)
LEMMA OrderGrows ==
  ASSUME IInv, NEW t \in Logging, Pending(t), log' = Append(log, NewEntry(t)),
         NEW ev, InOrder(Written, ev)
  PROVE  InOrder(Written, ev)'
<1> DEFINE e == NewEntry(t)
           s == Lines(e)
<1>1. Written \in Seq(Line) /\ WrittenOf(e.ev) \in Nat /\ e.count \in Nat
  BY NewEntryType, LinesType, WrittenType DEF IInv
<1>2. /\ Written' = Written \o s /\ s \in Seq(Line) /\ Len(s) = e.count
      /\ \A i \in 1..Len(s) : s[i].ev = e.ev /\ s[i].msg = WrittenOf(e.ev) + i
  BY LinesGrow
<1> HIDE DEF e, s
<1>3. /\ Len(Written \o s) = Len(Written) + Len(s) /\ Len(Written) \in Nat /\ Len(s) \in Nat
      /\ \A i \in 1..Len(Written) : (Written \o s)[i] = Written[i]
      /\ \A i \in 1..Len(s) : (Written \o s)[Len(Written) + i] = s[i]
  <2>1. Written \in Seq(Line) /\ s \in Seq(Line)
    BY <1>1, <1>2
  <2> QED
    BY <2>1
<1>4. ASSUME NEW n \in 1..Len(Written), Written[n].ev = ev
      PROVE  (Written \o s)[n].msg = CountTo(Written \o s, n, ev)
  <2>1. Written[n].msg = CountTo(Written, n, ev)
    BY <1>4 DEF InOrder
  <2>2. CountTo(Written \o s, n, ev) = CountTo(Written, n, ev)
    <3>1. n \in 0..Len(Written)
      BY <1>3
    <3> QED
      BY <1>1, <1>2, <3>1, CountBefore
  <2> QED
    BY <1>3, <2>1, <2>2
<1>5. ASSUME NEW n \in 1..Len(s), s[n].ev = ev
      PROVE  s[n].msg = CountTo(Written \o s, Len(Written) + n, ev)
  <2>1. \A i \in 1..Len(s) : s[i].ev = ev
    BY <1>2, <1>5
  <2>2. n \in 0..Len(s)
    BY <1>3
  <2>3. CountTo(Written \o s, Len(Written) + n, ev) = CountOf(Written, ev) + n
    <3>1. Written \in Seq(Line) /\ s \in Seq(Line)
      BY <1>1, <1>2
    <3> QED
      BY <2>1, <2>2, <3>1, CountMore
  <2> QED
    BY <1>2, <1>5, <2>3 DEF WrittenOf
<1>6. ASSUME NEW n \in 1..(Len(Written) + Len(s)), (Written \o s)[n].ev = ev
      PROVE  (Written \o s)[n].msg = CountTo(Written \o s, n, ev)
  <2>1. CASE n \in 1..Len(Written)
    BY <1>3, <1>4, <1>6, <2>1
  <2>2. CASE n \notin 1..Len(Written)
    <3> DEFINE m == n - Len(Written)
    <3>1. m \in 1..Len(s) /\ n = Len(Written) + m
      BY <1>3, <2>2
    <3> HIDE DEF m
    <3> QED
      BY <1>3, <1>5, <1>6, <3>1
  <2> QED
    BY <2>1, <2>2
<1> QED
  BY <1>2, <1>3, <1>6 DEF InOrder

(* What is written stays, in its place ...                                  *)
LEMMA PrefixGrows ==
  ASSUME IInv, NEW t \in Logging, Pending(t), log' = Append(log, NewEntry(t)),
         NEW p, IsPrefix(p, Written), Len(p) \in Nat
  PROVE  IsPrefix(p, Written')
<1>1. Written \in Seq(Line) /\ Lines(NewEntry(t)) \in Seq(Line)
      /\ Written' = Written \o Lines(NewEntry(t))
  BY WrittenType, LinesGrow DEF IInv
<1>2. SubSeq(Written', 1, Len(p)) = SubSeq(Written, 1, Len(p)) /\ Len(p) <= Len(Written')
  BY <1>1 DEF IsPrefix
<1> QED
  BY <1>2 DEF IsPrefix

(* ... and the new group joins it.                                          *)
LEMMA GroupsGrow ==
  ASSUME IInv, NEW t \in Logging, Pending(t), log' = Append(log, NewEntry(t))
  PROVE  /\ \A g : HasGroup(Written, g) => HasGroup(Written', g)
         /\ t = "main" => HasGroup(Written', group)
<1> DEFINE s == Lines(NewEntry(t))
<1>1. Written \in Seq(Line) /\ s \in Seq(Line) /\ Written' = Written \o s
  BY WrittenType, LinesGrow DEF IInv
<1>2. \A x : Contains(Written, x) \/ Contains(s, x) => Contains(Written', x)
  <2> SUFFICES ASSUME NEW x, Contains(Written, x) \/ Contains(s, x)
               PROVE  \E i \in 1..Len(Written') : Written'[i] = x
    BY DEF Contains
  <2>1. /\ Len(Written') = Len(Written) + Len(s) /\ Len(Written) \in Nat /\ Len(s) \in Nat
        /\ \A i \in 1..Len(Written) : Written'[i] = Written[i]
        /\ \A i \in 1..Len(s) : Written'[Len(Written) + i] = s[i]
    BY <1>1
  <2> HIDE DEF s
  <2>2. CASE Contains(Written, x)
    BY <2>1, <2>2 DEF Contains
  <2>3. CASE Contains(s, x)
    <3>1. PICK i \in 1..Len(s) : s[i] = x
      BY <2>3 DEF Contains
    <3>2. Len(Written) + i \in 1..Len(Written')
      BY <2>1
    <3> QED
      BY <2>1, <3>1, <3>2
  <2> QED
    BY <2>2, <2>3
<1>3. ASSUME t = "main" PROVE HasGroup(Written', group)
  <2>1. NewEntry(t) = [ev |-> "b", src |-> "self", count |-> group.count, msgs |-> group.msgs]
    BY <1>3 DEF NewEntry, Entry
  <2>2. Len(s) = group.count
        /\ \A i \in 1..group.count : s[i] = [ev |-> "b", src |-> "self", msg |-> group.msgs[i]]
    BY <2>1, NewEntryType, LinesType
  <2>3. \A i \in 1..group.count :
          Contains(s, [ev |-> "b", src |-> "self", msg |-> group.msgs[i]])
    BY <2>2 DEF Contains
  <2> QED
    BY <1>2, <2>3 DEF HasGroup
<1> QED
  BY <1>2, <1>3 DEF HasGroup

-----------------------------------------------------------------------------
(* The steps.  Most leave most of the invariant alone.                     *)

LogInv ==
    /\ InGroups /\ OwnOrder /\ PeerOrder /\ FirstsWritten /\ WrittenInOrder /\ SentLogged

StopInv == StopOK /\ CopyOK /\ FileOK

LEMMA LogKept ==
  ASSUME IInv, UNCHANGED <<seq_num, concat, group, log, to_send>>,
         Pending("main")' = Pending("main"),
         Pending("poller")' => Pending("poller") \/ CountOf(log, "d") * GroupBy < PeerCount,
         pc'["main"] = "send" => pc["main"] = "send"
  PROVE  LogInv'
<1>1. /\ Written' = Written /\ \A ev : WrittenOf(ev)' = WrittenOf(ev)
      /\ \A ev : CountOf(log, ev)' = CountOf(log, ev)
  BY DEF Written, WrittenOf
<1>2. InGroups' /\ FirstsWritten' /\ WrittenInOrder' /\ SentLogged'
  BY <1>1 DEF IInv, InGroups, FirstsWritten, WrittenInOrder, SentLogged
<1>3. OwnOrder'
  BY <1>1 DEF IInv, OwnOrder
<1>4. PeerOrder'
  BY <1>1 DEF IInv, PeerOrder
<1> QED
  BY <1>2, <1>3, <1>4 DEF LogInv

LEMMA StopKept ==
  ASSUME IInv, UNCHANGED <<log, handler, copy, file, atStop>>,
         handler.by = "main" => UNCHANGED to_send
  PROVE  StopInv'
<1>1. Written' = Written /\ AtStop' = AtStop /\ Copied' = Copied
  BY DEF Written, AtStop, Copied
<1>2. StopOK' /\ FileOK'
  BY <1>1 DEF IInv, StopOK, FileOK, Exited
<1>3. CopyOK'
  BY <1>1 DEF IInv, CopyOK
<1> QED
  BY <1>2, <1>3 DEF StopInv

(* The main loop.                                                          *)

LEMMA AddMessageStep ==
  ASSUME IInv, AddMessage
  PROVE  IInv'
<1> DEFINE msgs == Append(concat, seq_num)
           b == WrittenOf("b")
<1>1. /\ pc["main"] = "idle" /\ seq_num <= num /\ seq_num' = seq_num + 1
      /\ UNCHANGED <<num, log, to_send, armed, wire, handler, copy, file, atStop>>
  BY DEF AddMessage
<1>2. /\ num \in Nat /\ seq_num \in Nat /\ GroupBy \in Nat /\ GroupBy > 0
      /\ concat \in Seq(1..num) /\ concat \in Seq(Nat) /\ Len(concat) \in Nat /\ b \in Nat
      /\ seq_num \in 1..num /\ Len(concat) < GroupBy
  BY <1>1, NumType, WrittenType DEF IInv, TypeOK
<1>3. ~Pending("main") /\ seq_num = b + Len(concat) + 1
      /\ \A i \in 1..Len(concat) : concat[i] = b + i
  <2>1. ~Pending("main")
    BY <1>1 DEF Pending
  <2>2. WrittenOf("b") + 0 = b
    BY <1>2
  <2> QED
    BY <2>1, <2>2 DEF IInv, OwnOrder
<1>4. /\ msgs \in Seq(1..num) /\ msgs \in Seq(Nat) /\ Len(msgs) = Len(concat) + 1
      /\ \A i \in 1..Len(msgs) : msgs[i] = b + i
  <2>1. msgs \in Seq(1..num) /\ msgs \in Seq(Nat) /\ Len(msgs) = Len(concat) + 1
    BY <1>2
  <2>2. ASSUME NEW i \in 1..Len(msgs) PROVE msgs[i] = b + i
    <3>1. CASE i \in 1..Len(concat)
      BY <1>2, <1>3, <3>1
    <3>2. CASE i = Len(concat) + 1
      BY <1>2, <1>3, <3>2
    <3> QED
      BY <1>2, <2>1, <3>1, <3>2
  <2> QED
    BY <2>1, <2>2
<1> HIDE DEF msgs, b
<1>5. \/ /\ Len(msgs) = GroupBy /\ group' = [count |-> Len(msgs), msgs |-> msgs]
         /\ concat' = <<>> /\ pc' = [pc EXCEPT !["main"] = "log"]
      \/ Len(msgs) # GroupBy /\ concat' = msgs /\ UNCHANGED <<group, pc>>
  <2>1. Len(msgs) = GroupBy => GroupOf(msgs) = [count |-> Len(msgs), msgs |-> msgs]
    BY <1>2, <1>4, GroupRead
  <2> QED
    BY <2>1 DEF AddMessage, IsFull, Emptied, Broadcast, msgs
<1>6. TypeOK'
  <2>1. [count |-> Len(msgs), msgs |-> msgs] \in Group \/ Len(msgs) # GroupBy
    BY <1>2, <1>4 DEF Group
  <2>2. seq_num' \in 1..(num + 1)
    BY <1>1, <1>2
  <2>3. concat' \in Seq(1..num) /\ Len(concat') < GroupBy
    <3>1. CASE concat' = <<>>
      BY <1>2, <3>1
    <3>2. CASE concat' = msgs /\ Len(msgs) # GroupBy
      BY <1>2, <1>4, <3>2
    <3> QED
      BY <1>5, <3>1, <3>2
  <2>4. group' \in Group
    BY <1>5, <2>1 DEF IInv, TypeOK
  <2> QED
    BY <1>1, <1>5, <2>2, <2>3, <2>4 DEF IInv, TypeOK
<1>7. /\ Written' = Written /\ \A ev : WrittenOf(ev)' = WrittenOf(ev)
      /\ \A ev : CountOf(log, ev)' = CountOf(log, ev)
  BY <1>1 DEF Written, WrittenOf
<1>8. Pending("poller")' = Pending("poller") /\ pc'["main"] # "send"
  BY <1>1, <1>5 DEF Pending, IInv, TypeOK, Logging
<1>9. FirstsWritten' /\ WrittenInOrder' /\ SentLogged' /\ PeerOrder'
  BY <1>1, <1>7, <1>8 DEF IInv, FirstsWritten, WrittenInOrder, SentLogged, PeerOrder
<1>10. InGroups'
  BY <1>1, <1>5 DEF IInv, InGroups
<1>11. OwnOrder'
  <2>1. WrittenOf("b")' = b
    BY <1>7 DEF b
  <2>2. CASE /\ Len(msgs) = GroupBy /\ group' = [count |-> Len(msgs), msgs |-> msgs]
             /\ concat' = <<>> /\ pc' = [pc EXCEPT !["main"] = "log"]
    <3>1. Pending("main")' /\ group'.count = Len(msgs) /\ group'.msgs = msgs
      BY <2>2 DEF Pending, IInv, TypeOK, Logging
    <3>2. seq_num' = (b + Len(msgs)) + Len(concat') + 1
      BY <1>1, <1>2, <1>3, <1>4, <2>2
    <3>3. Len(msgs) > 0
      BY <1>2, <1>4
    <3> QED
      BY <1>4, <2>1, <2>2, <3>1, <3>2, <3>3 DEF OwnOrder
  <2>3. CASE concat' = msgs /\ UNCHANGED <<group, pc>>
    <3>1. ~Pending("main")'
      BY <1>3, <2>3 DEF Pending
    <3>2. seq_num' = b + 0 + Len(concat') + 1 /\ b + 0 = b
      <4>1. Len(concat') = Len(concat) + 1
        BY <1>4, <2>3
      <4> QED
        BY <1>1, <1>2, <1>3, <4>1
    <3> QED
      BY <1>4, <2>1, <2>3, <3>1, <3>2 DEF OwnOrder
  <2> QED
    BY <1>5, <2>2, <2>3
<1>12. StopInv'
  BY <1>1, StopKept
<1> QED
  BY <1>6, <1>9, <1>10, <1>11, <1>12 DEF IInv, LogInv, StopInv

LEMMA LastGroupStep ==
  ASSUME IInv, LastGroup
  PROVE  IInv'
<1> DEFINE b == WrittenOf("b")
<1>1. /\ pc["main"] = "idle" /\ concat # <<>>
      /\ group' = [count |-> Len(concat), msgs |-> concat]
      /\ concat' = <<>> /\ pc' = [pc EXCEPT !["main"] = "log"]
      /\ UNCHANGED <<num, seq_num, log, to_send, armed, wire, handler, copy, file, atStop>>
  <2>1. Len(concat) \in 0..GroupBy
    BY NumType DEF IInv, TypeOK
  <2>2. GroupOf(concat) = [count |-> Len(concat), msgs |-> concat]
    BY <2>1, GroupRead
  <2> QED
    BY <2>2 DEF LastGroup, Broadcast
<1>2. /\ num \in Nat /\ seq_num \in Nat /\ GroupBy \in Nat
      /\ concat \in Seq(1..num) /\ concat \in Seq(Nat) /\ Len(concat) \in Nat /\ b \in Nat
      /\ Len(concat) < GroupBy /\ Len(concat) > 0
  BY <1>1, NumType, WrittenType DEF IInv, TypeOK
<1>3. /\ seq_num = b + Len(concat) + 1
      /\ \A i \in 1..Len(concat) : concat[i] = b + i
  <2>1. ~Pending("main")
    BY <1>1 DEF Pending
  <2>2. WrittenOf("b") + 0 = b
    BY <1>2
  <2> QED
    BY <2>1, <2>2 DEF IInv, OwnOrder
<1> HIDE DEF b
<1>4. TypeOK'
  <2>1. [count |-> Len(concat), msgs |-> concat] \in Group
    BY <1>2 DEF Group
  <2>2. concat' \in Seq(1..num) /\ Len(concat') < GroupBy
    BY <1>1, <1>2
  <2> QED
    BY <1>1, <2>1, <2>2 DEF IInv, TypeOK
<1>5. /\ Written' = Written /\ \A ev : WrittenOf(ev)' = WrittenOf(ev)
      /\ \A ev : CountOf(log, ev)' = CountOf(log, ev)
  BY <1>1 DEF Written, WrittenOf
<1>6. /\ Pending("poller")' = Pending("poller") /\ pc'["main"] # "send" /\ Pending("main")'
      /\ group'.count = Len(concat) /\ group'.msgs = concat
  BY <1>1 DEF Pending, IInv, TypeOK, Logging
<1>7. FirstsWritten' /\ WrittenInOrder' /\ SentLogged' /\ PeerOrder'
  BY <1>1, <1>5, <1>6 DEF IInv, FirstsWritten, WrittenInOrder, SentLogged, PeerOrder
<1>8. InGroups'
  BY <1>1, <1>6 DEF IInv, InGroups
<1>9. OwnOrder'
  <2>1. WrittenOf("b")' = b
    BY <1>5 DEF b
  <2>2. seq_num' = (b + Len(concat)) + Len(concat') + 1 /\ Len(concat') = 0
    BY <1>1, <1>2, <1>3
  <2> QED
    BY <1>1, <1>2, <1>3, <1>6, <2>1, <2>2 DEF OwnOrder
<1>10. StopInv'
  BY <1>1, StopKept
<1> QED
  BY <1>4, <1>7, <1>8, <1>9, <1>10 DEF IInv, LogInv, StopInv

LEMMA SendGroupStep ==
  ASSUME IInv, SendGroup
  PROVE  IInv'
<1>1. /\ Runs("main") /\ pc["main"] = "send"
      /\ to_send' = to_send \cup {group} /\ wire' \subseteq wire \cup {group}
      /\ pc' = [pc EXCEPT !["main"] = "idle"]
      /\ UNCHANGED <<num, seq_num, concat, group, log, armed, handler, copy, file, atStop>>
  BY DEF SendGroup
<1>2. TypeOK'
  BY <1>1 DEF IInv, TypeOK
<1>3. /\ Written' = Written /\ \A ev : WrittenOf(ev)' = WrittenOf(ev)
      /\ \A ev : CountOf(log, ev)' = CountOf(log, ev)
  BY <1>1 DEF Written, WrittenOf
<1>4. /\ Pending("poller")' = Pending("poller") /\ pc'["main"] # "send"
      /\ ~Pending("main") /\ ~Pending("main")'
  BY <1>1 DEF Pending, IInv, TypeOK, Logging
<1>5. FirstsWritten' /\ WrittenInOrder' /\ PeerOrder' /\ OwnOrder'
  BY <1>1, <1>3, <1>4 DEF IInv, FirstsWritten, WrittenInOrder, PeerOrder, OwnOrder
<1>6. InGroups' /\ SentLogged'
  BY <1>1, <1>3, <1>4 DEF IInv, InGroups, SentLogged
<1>7. StopInv'
  BY <1>1, StopKept DEF Runs
<1> QED
  BY <1>2, <1>5, <1>6, <1>7 DEF IInv, LogInv, StopInv

(* The threads that log.                                                   *)

(* A step that neither logs nor has a group less or more in hand.           *)
LEMMA QuietStep ==
  ASSUME IInv, NEW t \in Logging, NEW from,
         NEW to \in {"idle", "walk", "log", "scan", "push", "append"},
         Step(t, from, to), UNCHANGED log,
         \/ from \in {"idle", "walk"} /\ to \in {"idle", "walk"}
         \/ from \in {"log", "scan", "push"} /\ to \in {"scan", "push", "append"}
         \/ t = "poller" /\ to = "log" /\ CountOf(log, "d") * GroupBy < PeerCount
  PROVE  IInv'
<1>1. /\ pc[t] = from /\ pc' = [pc EXCEPT ![t] = to]
      /\ UNCHANGED <<num, seq_num, concat, group, to_send, armed, wire, handler, copy, file, atStop>>
  BY DEF Step
<1>2. TypeOK'
  BY <1>1 DEF IInv, TypeOK
<1>3. pc \in [Logging -> {"idle", "walk", "log", "scan", "push", "append", "send"}]
  BY DEF IInv, TypeOK
<1>4. /\ Pending("main")' = Pending("main")
      /\ Pending("poller")' => Pending("poller") \/ CountOf(log, "d") * GroupBy < PeerCount
      /\ pc'["main"] = "send" => pc["main"] = "send"
  BY <1>1, <1>3 DEF Pending, Logging
<1>5. LogInv'
  BY <1>1, <1>4, LogKept
<1>6. StopInv'
  BY <1>1, StopKept
<1> QED
  BY <1>2, <1>5, <1>6 DEF IInv, LogInv, StopInv

LEMMA PollerStep ==
  ASSUME IInv, StartWalk \/ Deliver \/ EndWalk
  PROVE  IInv'
<1>1. CASE StartWalk
  BY <1>1, QuietStep DEF StartWalk, Logging
<1>2. CASE Deliver
  BY <1>2, QuietStep DEF Deliver, Logging
<1>3. CASE EndWalk
  BY <1>3, QuietStep DEF EndWalk, Logging
<1> QED
  BY <1>1, <1>2, <1>3

(* The search never finds the entry, so it never keeps it from the log.     *)
LEMMA SearchStep ==
  ASSUME IInv, NEW t \in Logging, LockToSearch(t) \/ Searched(t) \/ LockToGrow(t)
  PROVE  IInv'
<1>1. CASE LockToSearch(t)
  BY <1>1, QuietStep DEF LockToSearch
<1>2. CASE Searched(t)
  <2>1. pc[t] = "scan"
    BY <1>2 DEF Searched, Step
  <2>2. ~Contains(log, NewEntry(t))
    BY <2>1, NewEntryIsNew DEF Pending
  <2>3. Step(t, "scan", "push") /\ UNCHANGED log
    BY <1>2, <2>2 DEF Searched
  <2> QED
    BY <2>3, QuietStep
<1>3. CASE LockToGrow(t)
  BY <1>3, QuietStep DEF LockToGrow
<1> QED
  BY <1>1, <1>2, <1>3

LEMMA GrownStep ==
  ASSUME IInv, NEW t \in Logging, Grown(t)
  PROVE  IInv'
<1> DEFINE e == NewEntry(t)
<1>1. /\ pc[t] = "append" /\ pc' = [pc EXCEPT ![t] = Return(t)] /\ log' = Append(log, e)
      /\ UNCHANGED <<num, seq_num, concat, group, to_send, armed, wire, handler, copy, file, atStop>>
  BY DEF Grown, Step
<1>2. Pending(t)
  BY <1>1 DEF Pending
<1>3. /\ e \in WholeEntry /\ e.ev = (IF t = "main" THEN "b" ELSE "d") /\ e.count \in Nat
      /\ e.count > 0 /\ \A i \in 1..e.count : e.msgs[i] = WrittenOf(e.ev) + i
  BY <1>2, NewEntryType, LinesType
<1>4. /\ log \in Seq(WholeEntry) /\ Written \in Seq(Line)
      /\ \A ev : WrittenOf(ev) \in Nat /\ CountOf(log, ev) \in Nat
  BY WrittenType DEF IInv
<1>5. /\ Len(log') = Len(log) + 1 /\ Len(log) \in Nat
      /\ \A i \in 1..Len(log) : log'[i] = log[i]
      /\ log'[Len(log) + 1] = e
  BY <1>1, <1>4
<1>6. log' \in Seq(WholeEntry)
  BY <1>1, <1>2, LinesGrow
<1>7. \A ev : /\ WrittenOf(ev)' = WrittenOf(ev) + (IF ev = e.ev THEN e.count ELSE 0)
              /\ CountOf(log, ev)' = CountOf(log, ev) + (IF ev = e.ev THEN 1 ELSE 0)
  BY <1>1, <1>2, CountsGrow
<1>8. pc \in [Logging -> {"idle", "walk", "log", "scan", "push", "append", "send"}]
  BY DEF IInv, TypeOK
<1>9. InOrder(Written, "b")' /\ InOrder(Written, "d")'
  BY <1>1, <1>2, OrderGrows DEF IInv, WrittenInOrder
<1>10. /\ \A g : HasGroup(Written, g) => HasGroup(Written', g)
       /\ t = "main" => HasGroup(Written', group)
  BY <1>1, <1>2, GroupsGrow
<1>11. handler.stage # "none" =>
         /\ atStop \in Nat /\ atStop <= Len(log) /\ AtStop' = AtStop /\ IsPrefix(AtStop, Written')
  <2> SUFFICES ASSUME handler.stage # "none"
               PROVE  /\ atStop \in Nat /\ atStop <= Len(log) /\ AtStop' = AtStop
                      /\ IsPrefix(AtStop, Written')
    OBVIOUS
  <2>1. atStop \in Nat /\ atStop <= Len(log) /\ IsPrefix(AtStop, Written)
    BY DEF IInv, TypeOK, StopOK
  <2>2. SubSeq(log', 1, atStop) = SubSeq(log, 1, atStop)
        /\ SubSeq(log, 1, atStop) \in Seq(WholeEntry)
    BY <1>1, <1>3, <1>4, <2>1
  <2>3. AtStop' = AtStop
    BY <1>1, <2>2 DEF AtStop
  <2>4. Len(AtStop) \in Nat
    <3>1. AtStop \in Seq(Line)
      BY <2>2, DeconcatType DEF AtStop
    <3> QED
      BY <3>1
  <2>5. IsPrefix(AtStop, Written')
    BY <1>1, <1>2, <2>1, <2>4, PrefixGrows
  <2> QED
    BY <2>1, <2>3, <2>5
<1> HIDE DEF e
<1>12. TypeOK'
  <2>1. Seq(WholeEntry) \subseteq Seq(LogEntry)
    BY DEF WholeEntry
  <2>2. Return(t) \in {"walk", "send"}
    BY DEF Return
  <2> QED
    BY <1>1, <1>6, <2>1, <2>2 DEF IInv, TypeOK
<1>13. InGroups'
  BY <1>1, <1>6 DEF IInv, InGroups, WholeEntry
<1>14. FirstsWritten'
  <2>1. \A ev : CountOf(Written', ev) = WrittenOf(ev)'
    BY DEF WrittenOf
  <2> SUFFICES ASSUME NEW i \in 1..Len(log')
               PROVE  log'[i].msgs[1] <= CountOf(Written', log'[i].ev)
    BY DEF FirstsWritten, WrittenOf
  <2>2. CASE i \in 1..Len(log)
    <3> DEFINE x == log[i]
    <3>1. x \in WholeEntry /\ x.msgs[1] <= WrittenOf(x.ev) /\ log'[i] = x
      BY <1>4, <1>5, <2>2 DEF IInv, FirstsWritten
    <3>2. x.msgs[1] \in Nat
      BY <3>1, LinesType DEF WholeEntry, LogEntry
    <3>3. CountOf(Written', x.ev) = WrittenOf(x.ev) + (IF x.ev = e.ev THEN e.count ELSE 0)
      BY <1>7, <2>1
    <3>4. WrittenOf(x.ev) \in Nat
      BY <1>4
    <3> HIDE DEF x
    <3>5. x.msgs[1] <= CountOf(Written', x.ev)
      BY <1>3, <3>1, <3>2, <3>3, <3>4
    <3> QED
      BY <3>1, <3>5
  <2>3. CASE i = Len(log) + 1
    <3>1. log'[i] = e /\ 1 \in 1..e.count
      BY <1>3, <1>5, <2>3
    <3>2. e.msgs[1] = WrittenOf(e.ev) + 1
      BY <1>3, <3>1
    <3>3. CountOf(Written', e.ev) = WrittenOf(e.ev) + e.count
      BY <1>7, <2>1
    <3>4. WrittenOf(e.ev) \in Nat
      BY <1>4
    <3>5. e.msgs[1] <= CountOf(Written', e.ev)
      BY <1>3, <3>2, <3>3, <3>4
    <3> QED
      BY <3>1, <3>5
  <2> QED
    BY <1>5, <2>2, <2>3
<1>15. OwnOrder'
  <2>1. CASE t = "main"
    <3>1. e.ev = "b" /\ e.count = group.count /\ Pending("main") /\ ~Pending("main")'
      <4>1. e.count = group.count
        BY <2>1 DEF e, NewEntry, Entry
      <4> QED
        BY <1>1, <1>2, <1>3, <1>8, <2>1, <4>1 DEF Pending, Return
    <3>2. WrittenOf("b")' = WrittenOf("b") + group.count
      BY <1>7, <3>1
    <3>3. WrittenOf("b")' + 0 = WrittenOf("b")'
      BY <1>3, <1>4, <3>1, <3>2
    <3> HIDE DEF e
    <3> QED
      BY <1>1, <3>1, <3>2, <3>3 DEF IInv, OwnOrder
  <2>2. CASE t = "poller"
    <3>1. e.ev = "d" /\ Pending("main")' = Pending("main")
      BY <1>1, <1>3, <1>8, <2>2 DEF Pending, Return, Logging
    <3>2. WrittenOf("b")' = WrittenOf("b")
      BY <1>4, <1>7, <3>1
    <3> QED
      BY <1>1, <3>1, <3>2 DEF IInv, OwnOrder
  <2> QED
    BY <2>1, <2>2 DEF Logging
<1>16. PeerOrder'
  <2>1. CASE t = "main"
    <3>1. e.ev = "b" /\ Pending("poller")' = Pending("poller")
      BY <1>1, <1>3, <1>8, <2>1 DEF Pending, Return, Logging
    <3>2. WrittenOf("d")' = WrittenOf("d") /\ CountOf(log, "d")' = CountOf(log, "d")
      BY <1>4, <1>7, <3>1
    <3> QED
      BY <3>1, <3>2 DEF IInv, PeerOrder
  <2>2. CASE t = "poller"
    <3> DEFINE k == CountOf(log, "d")
               d == WrittenOf("d")
    <3>1. e.ev = "d" /\ ~Pending("poller")'
      BY <1>1, <1>3, <1>8, <2>2 DEF Pending, Return, Logging
    <3>2. k \in Nat /\ d \in Nat /\ PeerCount \in Nat /\ GroupBy \in Nat
      BY <1>4, NumType DEF IInv
    <3>3. k * GroupBy < PeerCount /\ d = k * GroupBy
      BY <1>2, <2>2 DEF IInv, PeerOrder
    <3>4. e.count = IF PeerCount - k * GroupBy < GroupBy THEN PeerCount - k * GroupBy ELSE GroupBy
      <4> DEFINE size == IF PeerCount - k * GroupBy < GroupBy
                         THEN PeerCount - k * GroupBy ELSE GroupBy
                 msgs == [i \in 1..size |-> k * GroupBy + i]
      <4>1. e = Entry("d", "peer", GroupOf(msgs))
        BY <2>2 DEF e, NewEntry, MainGroup
      <4>2. k * GroupBy \in Nat
        <5> HIDE DEF k
        <5> QED
          BY <3>2
      <4>3. size \in 0..GroupBy
        BY <3>2, <3>3, <4>2
      <4> HIDE DEF size
      <4>4. Len(msgs) = size
        BY <4>3
      <4> QED
        BY <4>1, <4>3, <4>4, GroupRead DEF Entry, size
    <3>5. d' = d + e.count /\ k' = k + 1
      BY <1>7, <3>1
    <3> HIDE DEF k, d
    <3>6. k' * GroupBy = k * GroupBy + GroupBy /\ k * GroupBy \in Nat
      BY <3>2, <3>5
    <3>7. d' = IF k' * GroupBy < PeerCount THEN k' * GroupBy ELSE PeerCount
      BY <3>2, <3>3, <3>4, <3>5, <3>6
    <3> QED
      BY <3>1, <3>7 DEF PeerOrder, d, k
  <2> QED
    BY <2>1, <2>2 DEF Logging
<1>17. SentLogged'
  <2>1. pc'["main"] = "send" => t = "main" \/ pc["main"] = "send"
    BY <1>1, <1>8 DEF Return, Logging
  <2> QED
    BY <1>1, <1>10, <2>1 DEF IInv, SentLogged
<1>18. StopOK'
  BY <1>1, <1>5, <1>11 DEF StopOK
<1>19. CopyOK' /\ FileOK'
  <2>1. Copied' = Copied
    BY <1>1 DEF Copied
  <2>2. FileOK'
    BY <1>1, <2>1 DEF IInv, FileOK, Exited
  <2> QED
    BY <1>1, <1>11, <2>1, <2>2 DEF IInv, CopyOK
<1> QED
  BY <1>9, <1>12, <1>13, <1>14, <1>15, <1>16, <1>17, <1>18, <1>19 DEF IInv, WrittenInOrder

(* The sending thread and the handler.                                      *)

LEMMA SenderStep ==
  ASSUME IInv, ReadActive \/ SendQueued
  PROVE  IInv'
<1>1. /\ UNCHANGED <<num, seq_num, concat, group, pc, log, to_send, handler, copy, file, atStop>>
      /\ armed' \in BOOLEAN /\ (wire' = wire \/ wire' = wire \cup to_send)
  BY DEF ReadActive, SendQueued
<1>2. TypeOK'
  BY <1>1 DEF IInv, TypeOK
<1>3. LogInv'
  BY <1>1, LogKept DEF Pending
<1>4. StopInv'
  BY <1>1, StopKept
<1> QED
  BY <1>2, <1>3, <1>4 DEF IInv, LogInv, StopInv

(* The handler touches nothing the threads number their messages by.        *)
LEMMA HandlerLeavesLog ==
  ASSUME IInv, UNCHANGED <<num, seq_num, concat, group, pc, log, to_send, armed, wire>>
  PROVE  LogInv'
BY LogKept DEF Pending

LEMMA StageType ==
  ASSUME IInv, NEW from, NEW to \in Stages, GoOn(from, to)
  PROVE  /\ handler.stage = from /\ handler'.stage = to /\ handler'.by = handler.by
         /\ handler' \in [by : {"nobody"} \cup Handlers, stage : Stages]
         /\ UNCHANGED <<num, seq_num, concat, group, pc, log, to_send, armed, wire, atStop>>
<1>1. handler \in [by : {"nobody"} \cup Handlers, stage : Stages]
  BY DEF IInv, TypeOK
<1> QED
  BY <1>1 DEF GoOn

LEMMA StopStep ==
  ASSUME IInv, NEW t \in Handlers, stop(t)
  PROVE  IInv'
<1>1. /\ handler' = [by |-> t, stage |-> "receiver"] /\ atStop' = Len(log)
      /\ UNCHANGED <<num, seq_num, concat, group, pc, log, to_send, armed, wire, copy, file>>
  BY DEF stop
<1>2. log \in Seq(WholeEntry) /\ Written \in Seq(Line)
  BY WrittenType DEF IInv
<1>3. TypeOK'
  BY <1>1, <1>2 DEF IInv, TypeOK, Stages
<1>4. LogInv'
  BY <1>1, HandlerLeavesLog
<1>5. StopOK'
  <2>1. SubSeq(log, 1, Len(log)) = log /\ Len(log) <= Len(log)
    BY <1>2
  <2>2. AtStop' = Written
    BY <1>1, <2>1 DEF AtStop, Written
  <2>3. Written' = Written
    BY <1>1 DEF Written
  <2>4. IsPrefix(Written, Written)
    BY <1>2 DEF IsPrefix
  <2> QED
    BY <1>1, <2>1, <2>2, <2>3, <2>4 DEF StopOK
<1>6. CopyOK' /\ FileOK'
  BY <1>1 DEF CopyOK, FileOK, Exited
<1> QED
  BY <1>3, <1>4, <1>5, <1>6 DEF IInv, LogInv

LEMMA FlagsStep ==
  ASSUME IInv, setLinksInactive \/ setBroadcastsInactive
  PROVE  IInv'
<1>1. /\ handler.stage # "none" /\ handler'.stage \in {"links", "flags"}
      /\ handler' \in [by : {"nobody"} \cup Handlers, stage : Stages]
      /\ UNCHANGED <<num, seq_num, concat, group, pc, log, to_send, armed, wire, atStop, copy, file>>
  BY StageType DEF setLinksInactive, setBroadcastsInactive, Stages
<1>2. TypeOK'
  BY <1>1 DEF IInv, TypeOK
<1>3. LogInv'
  BY <1>1, HandlerLeavesLog
<1>4. StopOK'
  BY <1>1 DEF IInv, StopOK, AtStop, Written
<1>5. CopyOK' /\ FileOK'
  BY <1>1 DEF CopyOK, FileOK, Exited
<1> QED
  BY <1>2, <1>3, <1>4, <1>5 DEF IInv, LogInv

LEMMA CopyLogStep ==
  ASSUME IInv, CopyLog
  PROVE  IInv'
<1>1. /\ handler.stage = "flags" /\ handler'.stage = "copied" /\ handler'.by = handler.by
      /\ handler' \in [by : {"nobody"} \cup Handlers, stage : Stages]
      /\ UNCHANGED <<num, seq_num, concat, group, pc, log, to_send, armed, wire, atStop, file>>
  BY StageType DEF CopyLog, Stages
<1>2. copy' = log
  BY <1>1 DEF CopyLog, getMessageLog, can_receive
<1>3. TypeOK'
  BY <1>1, <1>2 DEF IInv, TypeOK
<1>4. LogInv'
  BY <1>1, HandlerLeavesLog
<1>5. StopOK' /\ FileOK'
  BY <1>1 DEF IInv, StopOK, FileOK, Exited, AtStop, Written
<1>6. CopyOK'
  <2>1. Copied' = Written /\ AtStop' = AtStop
    BY <1>1, <1>2 DEF Copied, Written, AtStop
  <2>2. Written \in Seq(Line) /\ InOrder(Written, "b") /\ InOrder(Written, "d")
        /\ \A g \in to_send : HasGroup(Written, g)
    BY WrittenType DEF IInv, WrittenInOrder, SentLogged
  <2>3. IsPrefix(AtStop, Written)
    BY <1>1 DEF IInv, StopOK
  <2> QED
    BY <1>1, <2>1, <2>2, <2>3 DEF CopyOK
<1> QED
  BY <1>3, <1>4, <1>5, <1>6 DEF IInv, LogInv

LEMMA WriteStep ==
  ASSUME IInv, writeOutput
  PROVE  IInv'
<1>1. /\ handler.stage = "copied" /\ handler'.stage = "exited" /\ handler'.by = handler.by
      /\ handler' \in [by : {"nobody"} \cup Handlers, stage : Stages]
      /\ UNCHANGED <<num, seq_num, concat, group, pc, log, to_send, armed, wire, atStop, copy>>
  BY StageType DEF writeOutput, Stages
<1>2. file' = Copied /\ Copied' = Copied
  BY <1>1 DEF writeOutput, Copied
<1>3. TypeOK'
  BY <1>1, <1>2 DEF IInv, TypeOK, CopyOK
<1>4. LogInv'
  BY <1>1, HandlerLeavesLog
<1>5. StopOK' /\ FileOK'
  BY <1>1, <1>2 DEF IInv, StopOK, FileOK, AtStop, Written
<1>6. CopyOK'
  BY <1>1, <1>2 DEF IInv, CopyOK, AtStop
<1> QED
  BY <1>3, <1>4, <1>5, <1>6 DEF IInv, LogInv

-----------------------------------------------------------------------------
(* The theorems about the output file.                                     *)

(* Nothing is logged, nothing written and nothing in hand.                  *)
LEMMA InitEmpty ==
  ASSUME Init
  PROVE  /\ log = <<>> /\ Written = <<>>
         /\ \A ev : CountOf(log, ev) = 0 /\ WrittenOf(ev) = 0
         /\ ~Pending("main") /\ ~Pending("poller")
<1>1. log = <<>> /\ \A t \in Logging : pc[t] = "idle"
  BY DEF Init
<1>2. Written = <<>>
  BY <1>1, DeconcatEmpty DEF Written
<1>3. \A ev : CountTo(<<>>, 0, ev) = 0
  BY CountNone
<1> QED
  BY <1>1, <1>2, <1>3 DEF CountOf, WrittenOf, Pending, Logging

LEMMA InvInit == Init => IInv
<1> SUFFICES ASSUME Init PROVE IInv
  OBVIOUS
<1>1. /\ log = <<>> /\ copy = <<>> /\ to_send = {} /\ concat = <<>> /\ seq_num = 1
      /\ group.count = 0 /\ group.msgs = <<>> /\ handler.stage = "none"
      /\ \A t \in Logging : pc[t] = "idle"
  <2>1. Len(<<>>) \in 0..GroupBy /\ Len(<<>>) = 0
    BY GroupByAssumption
  <2> QED
    BY <2>1, GroupRead DEF Init
<1>2. Written = <<>>
  BY InitEmpty
<1>3. \A ev : CountOf(log, ev) = 0 /\ WrittenOf(ev) = 0
  BY InitEmpty
<1>4. TypeOK
  <2>1. num \in Counts /\ num \in Nat /\ GroupBy \in Nat /\ GroupBy > 0
    BY CountsAssumption, GroupByAssumption DEF Init
  <2>2. group \in Group
    <3>1. Len(<<>>) \in 0..GroupBy
      BY <2>1
    <3>2. group = [count |-> Len(<<>>), msgs |-> <<>>]
      BY <3>1, GroupRead DEF Init
    <3> QED
      BY <3>1, <3>2 DEF Group
  <2>3. 1 \in 1..(num + 1) /\ <<>> \in Seq(1..num) /\ Len(<<>>) < GroupBy
    BY <2>1
  <2>4. <<>> \in Seq(LogEntry) /\ <<>> \in Seq(Line)
    OBVIOUS
  <2>5. [t \in Logging |-> "idle"] \in
          [Logging -> {"idle", "walk", "log", "scan", "push", "append", "send"}]
    OBVIOUS
  <2>6. handler \in [by : {"nobody"} \cup Handlers, stage : Stages]
    BY DEF Init, Stages
  <2>7. seq_num \in 1..(num + 1) /\ concat \in Seq(1..num) /\ Len(concat) < GroupBy
    BY <2>3 DEF Init
  <2>8. log \in Seq(LogEntry) /\ copy \in Seq(LogEntry) /\ file \in Seq(Line)
    BY <2>4 DEF Init
  <2> QED
    BY <2>1, <2>2, <2>5, <2>6, <2>7, <2>8 DEF Init, TypeOK
<1>5. InGroups /\ FirstsWritten
  BY <1>1 DEF InGroups, FirstsWritten
<1>6. ~Pending("main") /\ ~Pending("poller")
  BY InitEmpty
<1>7. OwnOrder
  BY <1>1, <1>3, <1>6 DEF OwnOrder
<1>8. PeerOrder
  <2>1. PeerCount \in Nat /\ GroupBy \in Nat /\ 0 * GroupBy = 0
    BY CountsAssumption, GroupByAssumption
  <2> QED
    BY <1>3, <1>6, <2>1 DEF PeerOrder
<1>9. WrittenInOrder
  BY <1>2 DEF WrittenInOrder, InOrder
<1>10. SentLogged
  BY <1>1 DEF SentLogged, Logging
<1>11. StopOK /\ CopyOK /\ FileOK
  BY <1>1 DEF StopOK, CopyOK, FileOK, Exited
<1> QED
  BY <1>4, <1>5, <1>7, <1>8, <1>9, <1>10, <1>11 DEF IInv

LEMMA InvNext == IInv /\ [Next]_vars => IInv'
<1> SUFFICES ASSUME IInv, [Next]_vars PROVE IInv'
  OBVIOUS
<1>1. CASE AddMessage
  BY <1>1, AddMessageStep
<1>2. CASE LastGroup
  BY <1>2, LastGroupStep
<1>3. CASE SendGroup
  BY <1>3, SendGroupStep
<1>4. CASE StartWalk \/ Deliver \/ EndWalk
  BY <1>4, PollerStep
<1>5. ASSUME NEW t \in Logging, AddLog(t) PROVE IInv'
  <2>1. CASE Grown(t)
    BY <2>1, GrownStep
  <2>2. CASE LockToSearch(t) \/ Searched(t) \/ LockToGrow(t)
    BY <2>2, SearchStep
  <2> QED
    BY <1>5, <2>1, <2>2 DEF AddLog
<1>6. CASE SendThread
  BY <1>6, SenderStep DEF SendThread
<1>7. CASE setLinksInactive \/ setBroadcastsInactive
  BY <1>7, FlagsStep
<1>8. CASE CopyLog
  BY <1>8, CopyLogStep
<1>9. CASE writeOutput
  BY <1>9, WriteStep
<1>10. ASSUME NEW t \in Handlers, stop(t) PROVE IInv'
  BY <1>10, StopStep
<1>11. CASE UNCHANGED vars
  <2>1. /\ UNCHANGED <<num, seq_num, concat, group, pc, log, to_send, handler, copy, file, atStop>>
        /\ UNCHANGED <<armed, wire>>
    BY <1>11 DEF vars
  <2>2. TypeOK'
    BY <2>1 DEF IInv, TypeOK
  <2>3. LogInv' /\ StopInv'
    BY <2>1, HandlerLeavesLog, StopKept
  <2> QED
    BY <2>2, <2>3 DEF IInv, LogInv, StopInv
<1>12. "main" \in Logging /\ "poller" \in Logging
  BY DEF Logging
<1>13. CASE MainThread
  BY <1>1, <1>2, <1>3, <1>5, <1>12, <1>13 DEF MainThread
<1>14. CASE Poller
  BY <1>4, <1>5, <1>12, <1>14 DEF Poller
<1>15. CASE Handler
  BY <1>7, <1>8, <1>9, <1>15 DEF Handler
<1> QED
  BY <1>6, <1>10, <1>11, <1>13, <1>14, <1>15 DEF Next

(* The inductive invariant: how the main loop, the groups in hand and the   *)
(* log number the messages, and what the signal and the handler saw of it.  *)
THEOREM Invariance == Spec => []IInv
<1>1. Init => IInv
  BY InvInit
<1>2. IInv /\ [Next]_vars => IInv'
  BY InvNext
<1> QED
  BY <1>1, <1>2, PTL DEF Spec

(* Type correctness of the program.                                        *)
THEOREM TypeCorrect == Spec => []TypeOK
<1>1. IInv => TypeOK
  BY DEF IInv
<1> QED
  BY <1>1, Invariance, PTL

(* The output file passes validate_fifo.py whatever the number of messages, *)
(* the size of a group and the moment of the signal, whichever thread it    *)
(* interrupts.                                                              *)
THEOREM FileInOrderCorrect == Spec => []FileInOrder
<1>1. IInv => FileInOrder
  BY DEF IInv, FileInOrder, CopyOK, FileOK, Exited
<1> QED
  BY <1>1, Invariance, PTL

(* Nothing that was logged at the signal is missing in the file.           *)
THEOREM FileCompleteCorrect == Spec => []FileComplete
<1>1. IInv => FileComplete
  BY DEF IInv, FileComplete, CopyOK, FileOK, Exited, AtStop
<1> QED
  BY <1>1, Invariance, PTL

(* A message that left a process whose main thread took the signal is in    *)
(* its file: it was logged before it was queued.                            *)
THEOREM SentIsWrittenCorrect == Spec => []SentIsWritten
<1>1. IInv => SentIsWritten
  <2> SUFFICES ASSUME IInv, Exited, handler.by = "main", NEW g \in wire
               PROVE  HasGroup(file, g)
    BY DEF SentIsWritten, HasGroup
  <2>1. file = Copied /\ \A h \in to_send : HasGroup(Copied, h)
    BY DEF IInv, CopyOK, FileOK, Exited
  <2>2. g \in to_send
    BY DEF IInv, TypeOK
  <2> QED
    BY <2>1, <2>2
<1> QED
  BY <1>1, Invariance, PTL

-----------------------------------------------------------------------------
(* The groups of the main loop.                                            *)

(* The turns of concatMessages over a list, for every number of them.       *)
Turning(f, msgs) ==
    f = [n \in 0..Len(msgs) |->
            IF n = 0 THEN NoTurn ELSE ConcatTurn(Len(msgs), f[n - 1], msgs[n])]

Turns(msgs) == CHOOSE f : Turning(f, msgs)

LEMMA ConcatIsTurns ==
  ASSUME NEW msgs
  PROVE  concatMessages(msgs) = Turns(msgs)[Len(msgs)].out
  BY DEF concatMessages, Turns, Turning

LEMMA TurningExists ==
  ASSUME NEW S, NEW msgs \in Seq(S)
  PROVE  \E f : Turning(f, msgs)
<1> DEFINE N == Len(msgs)
           turn(s, n) == ConcatTurn(N, s, msgs[n])
           Upto(n) == \E f : /\ f = [i \in 0..n |-> f[i]]
                             /\ f[0] = NoTurn
                             /\ \A i \in 1..n : f[i] = turn(f[i - 1], i)
           Failing == {n \in 0..N : ~Upto(n)}
<1>1. N \in Nat
  OBVIOUS
<1> HIDE DEF N, turn
<1>2. Failing = {}
  <2> SUFFICES ASSUME Failing # {} PROVE FALSE
    OBVIOUS
  <2>1. Failing \in SUBSET Nat
    OBVIOUS
  <2>2. PICK n \in Failing : \A k \in Failing : n <= k
    BY <2>1, Least
  <2>3. n \in 0..N /\ ~Upto(n)
    BY <2>2
  <2>4. n # 0
    <3> DEFINE f == [i \in 0..0 |-> NoTurn]
    <3>1. /\ f = [i \in 0..0 |-> f[i]] /\ f[0] = NoTurn
          /\ \A i \in 1..0 : f[i] = turn(f[i - 1], i)
      OBVIOUS
    <3>2. Upto(0)
      BY <3>1
    <3> QED
      BY <2>3, <3>2
  <2>5. n - 1 \in 0..N /\ n - 1 \notin Failing
    <3>1. n - 1 \in 0..N /\ ~(n <= n - 1)
      BY <1>1, <2>3, <2>4
    <3> QED
      BY <2>2, <3>1
  <2>6. PICK f : /\ f = [i \in 0..(n - 1) |-> f[i]]
                 /\ f[0] = NoTurn
                 /\ \A i \in 1..(n - 1) : f[i] = turn(f[i - 1], i)
    BY <2>5
  <2> DEFINE g == [i \in 0..n |-> IF i = n THEN turn(f[n - 1], n) ELSE f[i]]
  <2>7. g[0] = NoTurn /\ g[n] = turn(g[n - 1], n)
    BY <2>3, <2>4, <2>6
  <2>8. \A i \in 1..n : g[i] = turn(g[i - 1], i)
    <3> TAKE i \in 1..n
    <3>1. CASE i = n
      BY <2>7, <3>1
    <3>2. CASE i # n
      <4>1. i \in 1..(n - 1) /\ i - 1 \in 0..n /\ i - 1 # n /\ i \in 0..n
        BY <2>3, <3>2
      <4>2. g[i] = f[i] /\ g[i - 1] = f[i - 1]
        BY <3>2, <4>1
      <4> QED
        BY <2>6, <4>1, <4>2
    <3> QED
      BY <3>1, <3>2
  <2>9. g = [i \in 0..n |-> g[i]]
    OBVIOUS
  <2> HIDE DEF g
  <2>10. Upto(n)
    BY <2>7, <2>8, <2>9
  <2> QED
    BY <2>3, <2>10
<1>3. Upto(N)
  <2>1. N \in 0..N
    BY <1>1
  <2> HIDE DEF Upto
  <2> QED
    BY <1>2, <2>1
<1>4. PICK f : /\ f = [i \in 0..N |-> f[i]]
               /\ f[0] = NoTurn
               /\ \A i \in 1..N : f[i] = turn(f[i - 1], i)
  BY <1>3
<1>5. f = [n \in 0..N |-> IF n = 0 THEN NoTurn ELSE turn(f[n - 1], n)]
  <2>1. \A n \in 0..N : f[n] = IF n = 0 THEN NoTurn ELSE turn(f[n - 1], n)
    <3> TAKE n \in 0..N
    <3>1. n # 0 => n \in 1..N
      BY <1>1
    <3> QED
      BY <1>4, <3>1
  <2> QED
    BY <1>4, <2>1
<1>6. Turning(f, msgs)
  BY <1>5 DEF Turning, N, turn
<1> QED
  BY <1>6

LEMMA TurnsAt ==
  ASSUME NEW S, NEW msgs \in Seq(S), NEW n \in 0..Len(msgs)
  PROVE  Turns(msgs)[n] =
            IF n = 0 THEN NoTurn ELSE ConcatTurn(Len(msgs), Turns(msgs)[n - 1], msgs[n])
<1>1. \E f : Turning(f, msgs)
  BY TurningExists
<1>2. Turning(Turns(msgs), msgs)
  BY <1>1 DEF Turns
<1> DEFINE f == Turns(msgs)
           rhs(k) == IF k = 0 THEN NoTurn ELSE ConcatTurn(Len(msgs), f[k - 1], msgs[k])
<1>3. f = [k \in 0..Len(msgs) |-> rhs(k)]
  BY <1>2 DEF Turning
<1> HIDE DEF rhs, f
<1>4. f[n] = rhs(n)
  BY <1>3
<1> QED
  BY <1>4 DEF rhs, f

(* The group after k others, while something is left.                       *)
LEMMA MainGroupType ==
  ASSUME NEW total \in Nat, NEW k \in Nat, k * GroupBy < total
  PROVE  LET left == total - k * GroupBy
             size == IF left < GroupBy THEN left ELSE GroupBy
         IN  /\ size \in 1..GroupBy
             /\ MainGroup(total, k).count = size
             /\ MainGroup(total, k) =
                  [count |-> size, msgs |-> [i \in 1..size |-> k * GroupBy + i]]
<1> DEFINE left == total - k * GroupBy
           size == IF left < GroupBy THEN left ELSE GroupBy
           msgs == [i \in 1..size |-> k * GroupBy + i]
<1>1. GroupBy \in Nat /\ GroupBy > 0 /\ k * GroupBy \in Nat
  BY GroupByAssumption
<1>2. size \in 1..GroupBy
  BY <1>1
<1>3. MainGroup(total, k) = GroupOf(msgs)
  BY DEF MainGroup
<1> HIDE DEF size
<1>4. Len(msgs) = size
  BY <1>1, <1>2
<1>5. MainGroup(total, k) = [count |-> size, msgs |-> msgs]
  BY <1>2, <1>3, <1>4, GroupRead
<1> QED
  BY <1>2, <1>5 DEF size

(* Multiples of GroupBy grow, and total is so many and a rest.              *)
LEMMA Multiples ==
  ASSUME NEW a \in Nat, NEW b \in Nat
  PROVE  /\ a * GroupBy \in Nat
         /\ (a + 1) * GroupBy = a * GroupBy + GroupBy
         /\ a <= b => a * GroupBy <= b * GroupBy
         /\ a * GroupBy < b * GroupBy => a < b
<1>1. GroupBy \in Nat /\ GroupBy > 0
  BY GroupByAssumption
<1>2. \A x, y \in Nat : x <= y => x * GroupBy <= y * GroupBy
  <2> TAKE x, y \in Nat
  <2> HAVE x <= y
  <2>1. y * GroupBy = x * GroupBy + (y - x) * GroupBy /\ y - x \in Nat
    BY <1>1
  <2>2. (y - x) * GroupBy \in Nat /\ x * GroupBy \in Nat
    BY <1>1, <2>1
  <2> QED
    BY <2>1, <2>2
<1>3. a * GroupBy \in Nat /\ b * GroupBy \in Nat /\ (a + 1) * GroupBy = a * GroupBy + GroupBy
  BY <1>1
<1>4. ~(a < b) => b * GroupBy <= a * GroupBy
  BY <1>2
<1> QED
  BY <1>2, <1>3, <1>4

LEMMA DivMod ==
  ASSUME NEW total \in Nat
  PROVE  /\ total \div GroupBy \in Nat /\ total % GroupBy \in Nat /\ total % GroupBy < GroupBy
         /\ total = (total \div GroupBy) * GroupBy + (total % GroupBy)
<1>1. GroupBy \in Nat /\ GroupBy > 0
  BY GroupByAssumption
<1>2. total \div GroupBy \in Nat
  BY <1>1
<1>3. total % GroupBy \in 0..(GroupBy - 1)
  BY <1>1
<1>4. total = GroupBy * (total \div GroupBy) + (total % GroupBy)
  BY <1>1
<1>5. GroupBy * (total \div GroupBy) = (total \div GroupBy) * GroupBy
  BY <1>1, <1>2
<1> QED
  BY <1>1, <1>2, <1>3, <1>4, <1>5

(* After n turns over 1, 2, ..., total: the groups made are the first ones  *)
(* of the main loop, and until the last is made the others are in cur.      *)
TurnOK(total, n, s) ==
    /\ s = [out |-> s.out, cur |-> s.cur, msg_num |-> s.msg_num, group_num |-> s.group_num]
    /\ s.out = [i \in 1..Len(s.out) |-> MainGroup(total, i - 1)]
    /\ IF n = total /\ total % GroupBy # 0
       THEN Len(s.out) = total \div GroupBy + 1
       ELSE /\ Len(s.out) = s.group_num
            /\ s.group_num \in 0..(total \div GroupBy)
            /\ s.msg_num \in 0..(GroupBy - 1)
            /\ n = s.group_num * GroupBy + s.msg_num
            /\ s.cur = [i \in 1..s.msg_num |-> s.group_num * GroupBy + i]

(* A sequence with one more entry, as a function.                           *)
LEMMA AppendIs ==
  ASSUME NEW S, NEW o \in Seq(S), NEW x
  PROVE  Append(o, x) = [i \in 1..(Len(o) + 1) |-> IF i = Len(o) + 1 THEN x ELSE o[i]]
<1> DEFINE n == Len(o)
<1>1. n \in Nat
  OBVIOUS
<1>2. o \in Seq(S \cup {x}) /\ x \in S \cup {x}
  OBVIOUS
<1>3. Append(o, x) \in Seq(S \cup {x}) /\ Len(Append(o, x)) = n + 1
  BY <1>2
<1>4. Append(o, x) = [i \in 1..(n + 1) |-> Append(o, x)[i]]
  <2>1. Append(o, x) \in [1..Len(Append(o, x)) -> S \cup {x}]
    BY <1>3, LenProperties
  <2> QED
    BY <1>3, <2>1
<1>5. ASSUME NEW i \in 1..(n + 1)
      PROVE  Append(o, x)[i] = IF i = n + 1 THEN x ELSE o[i]
  BY <1>2, <1>5
<1> QED
  BY <1>4, <1>5

(* The messages of a group in hand, with the next one.                      *)
LEMMA RunAppend ==
  ASSUME NEW w \in Nat, NEW h \in Nat
  PROVE  Append([i \in 1..h |-> w + i], w + (h + 1)) = [i \in 1..(h + 1) |-> w + i]
<1> DEFINE c == [i \in 1..h |-> w + i]
<1>1. c \in [1..h -> Nat]
  OBVIOUS
<1>2. \A i \in 1..h : c[i] = w + i
  OBVIOUS
<1> HIDE DEF c
<1>3. c \in Seq(Nat) /\ Len(c) = h
  BY <1>1
<1>4. Append(c, w + (h + 1)) = [i \in 1..(h + 1) |-> IF i = h + 1 THEN w + (h + 1) ELSE c[i]]
  BY <1>3, AppendIs
<1>5. ASSUME NEW i \in 1..(h + 1)
      PROVE  (IF i = h + 1 THEN w + (h + 1) ELSE c[i]) = w + i
  <2>1. i # h + 1 => i \in 1..h
    OBVIOUS
  <2> QED
    BY <1>2, <2>1
<1>6. Append(c, w + (h + 1)) = [i \in 1..(h + 1) |-> w + i]
  BY <1>4, <1>5
<1> QED
  BY <1>6 DEF c

LEMMA TurnStep ==
  ASSUME NEW total \in Nat, NEW n \in 1..total, NEW s, TurnOK(total, n - 1, s)
  PROVE  TurnOK(total, n, ConcatTurn(total, s, n))
<1> DEFINE q == total \div GroupBy
           r == total % GroupBy
           k == s.group_num
           full == k < q
           size == IF full THEN GroupBy ELSE r
           cur == Append(s.cur, n)
           t == ConcatTurn(total, s, n)
<1>1. /\ q \in Nat /\ r \in Nat /\ r < GroupBy /\ total = q * GroupBy + r
      /\ GroupBy \in Nat /\ GroupBy > 0
  BY DivMod, GroupByAssumption
<1> HIDE DEF q, r
<1>2. /\ s.out = [i \in 1..Len(s.out) |-> MainGroup(total, i - 1)]
      /\ Len(s.out) = k /\ k \in 0..q /\ s.msg_num \in 0..(GroupBy - 1)
      /\ n - 1 = k * GroupBy + s.msg_num
      /\ s.cur = [i \in 1..s.msg_num |-> k * GroupBy + i]
  BY <1>1 DEF TurnOK, q, r
<1>a. k \in 0..q /\ s.msg_num \in 0..(GroupBy - 1) /\ n - 1 = k * GroupBy + s.msg_num
  BY <1>2
<1>3. k \in Nat /\ k * GroupBy \in Nat /\ q * GroupBy \in Nat
      /\ (k + 1) * GroupBy = k * GroupBy + GroupBy
      /\ (full => k * GroupBy + GroupBy <= q * GroupBy)
  <2>1. k \in Nat /\ k + 1 \in Nat /\ (full => k + 1 <= q)
    BY <1>1, <1>a
  <2> QED
    BY <1>1, <2>1, Multiples
<1>4. ~full => k = q
  BY <1>1, <1>a
<1> DEFINE m == s.msg_num + 1
<1>5. m \in 1..GroupBy /\ n = k * GroupBy + m /\ m <= size
  <2>1. s.msg_num \in Nat /\ m \in 1..GroupBy
    BY <1>1, <1>a
  <2>2. n = k * GroupBy + m
    BY <1>a, <1>3, <2>1
  <2>3. CASE full
    BY <1>1, <2>1, <2>2, <2>3
  <2>4. CASE ~full
    <3>1. n <= q * GroupBy + r /\ n = q * GroupBy + m
      BY <1>1, <1>4, <2>2, <2>4
    <3>2. m <= r
      BY <1>1, <1>3, <2>1, <3>1
    <3>3. size = r
      BY <2>4
    <3> QED
      BY <2>1, <2>2, <3>2, <3>3
  <2> QED
    BY <2>1, <2>2, <2>3, <2>4
<1>6. cur = [i \in 1..m |-> k * GroupBy + i]
  <2>1. s.msg_num \in Nat /\ k * GroupBy \in Nat /\ n = k * GroupBy + (s.msg_num + 1)
    BY <1>1, <1>a, <1>3, <1>5
  <2>2. s.cur = [i \in 1..s.msg_num |-> k * GroupBy + i]
    BY <1>2
  <2> QED
    BY <2>1, <2>2, RunAppend
<1>7. t = IF m # size
          THEN [s EXCEPT !.cur = cur, !.msg_num = @ + 1]
          ELSE [out       |-> Append(s.out, [count |-> size, msgs |-> cur]),
                cur       |-> <<>>,
                msg_num   |-> IF full THEN 0 ELSE size,
                group_num |-> IF full THEN k + 1 ELSE k]
  <2>1. size \in 0..GroupBy
    BY <1>1
  <2>2. stoul(RemainderHead(size)) = size
    BY <2>1, HeadRead
  <2> QED
    BY <2>2 DEF ConcatTurn, q, r
<1>8. s = [out |-> s.out, cur |-> s.cur, msg_num |-> s.msg_num, group_num |-> k]
  BY DEF TurnOK
<1>9. n = total /\ r # 0 => ~full /\ m = size
  <2> SUFFICES ASSUME n = total, r # 0 PROVE ~full /\ m = size
    OBVIOUS
  <2>1. ~full
    <3> SUFFICES ASSUME full PROVE FALSE
      OBVIOUS
    <3>1. n <= q * GroupBy
      BY <1>1, <1>3, <1>5
    <3> QED
      BY <1>1, <1>3, <3>1
  <2>2. m = r
    BY <1>1, <1>3, <1>4, <1>5, <2>1
  <2> QED
    BY <2>1, <2>2
<1> HIDE DEF t, cur
<1>10. CASE m # size
  <2>1. t = [out |-> s.out, cur |-> cur, msg_num |-> m, group_num |-> k]
    BY <1>7, <1>8, <1>10
  <2>2. m \in 0..(GroupBy - 1)
    <3>1. size <= GroupBy
      BY <1>1
    <3> QED
      BY <1>1, <1>5, <1>10, <3>1
  <2>3. ~(n = total /\ r # 0)
    BY <1>9, <1>10
  <2>4. TurnOK(total, n, t)
    BY <1>2, <1>5, <1>6, <2>1, <2>2, <2>3 DEF TurnOK, q, r
  <2> QED
    BY <2>4 DEF t
<1>11. CASE m = size
  <2> DEFINE out == Append(s.out, [count |-> size, msgs |-> cur])
  <2>1. k * GroupBy < total
    BY <1>1, <1>3, <1>5
  <2>2. MainGroup(total, k) = [count |-> size, msgs |-> cur]
    <3>1. size = IF total - k * GroupBy < GroupBy THEN total - k * GroupBy ELSE GroupBy
      <4>1. CASE full
        <5>1. ~(total - k * GroupBy < GroupBy)
          BY <1>1, <1>3, <4>1
        <5> QED
          BY <4>1, <5>1
      <4>2. CASE ~full
        <5>1. total - k * GroupBy = r
          BY <1>1, <1>3, <1>4, <4>2
        <5> QED
          BY <1>1, <4>2, <5>1
      <4> QED
        BY <4>1, <4>2
    <3>2. cur = [i \in 1..size |-> k * GroupBy + i]
      BY <1>6, <1>11
    <3> HIDE DEF size
    <3> QED
      BY <1>3, <2>1, <3>1, <3>2, MainGroupType
  <2>3. out = [i \in 1..(k + 1) |-> MainGroup(total, i - 1)] /\ Len(out) = k + 1
    <3> DEFINE o == [i \in 1..k |-> MainGroup(total, i - 1)]
    <3>1. s.out = o /\ k \in Nat /\ (k + 1) - 1 = k
      BY <1>2, <1>3
    <3> DEFINE S == {MainGroup(total, i - 1) : i \in 1..k}
    <3>2. o \in Seq(S) /\ Len(o) = k
      <4>1. \A i \in 1..k : MainGroup(total, i - 1) \in S
        OBVIOUS
      <4> HIDE DEF S
      <4>2. o \in [1..k -> S]
        BY <4>1
      <4> HIDE DEF o
      <4> QED
        BY <3>1, <4>2
    <3>3. Append(o, MainGroup(total, k)) = [i \in 1..(k + 1) |-> MainGroup(total, i - 1)]
      <4> DEFINE x == MainGroup(total, k)
      <4>1. \A i \in 1..k : o[i] = MainGroup(total, i - 1)
        OBVIOUS
      <4> HIDE DEF S, o, x
      <4>2. Append(o, x) = [i \in 1..(k + 1) |-> IF i = k + 1 THEN x ELSE o[i]]
        BY <3>1, <3>2, AppendIs
      <4>3. ASSUME NEW i \in 1..(k + 1)
            PROVE  (IF i = k + 1 THEN x ELSE o[i]) = MainGroup(total, i - 1)
        <5>1. CASE i = k + 1
          BY <3>1, <5>1 DEF x
        <5>2. CASE i # k + 1
          <6>1. i \in 1..k
            BY <3>1, <5>2
          <6> QED
            BY <4>1, <5>2, <6>1
        <5> QED
          BY <5>1, <5>2
      <4> QED
        BY <4>2, <4>3 DEF x
    <3>4. Len(Append(o, MainGroup(total, k))) = k + 1
      <4> HIDE DEF S
      <4> QED
        BY <3>1, <3>2
    <3> QED
      BY <2>2, <3>1, <3>3, <3>4
  <2>4. t = [out |-> out, cur |-> <<>>, msg_num |-> IF full THEN 0 ELSE size,
             group_num |-> IF full THEN k + 1 ELSE k]
    BY <1>7, <1>11 DEF cur
  <2> HIDE DEF out
  <2>5. CASE full
    <3>1. t = [out |-> out, cur |-> <<>>, msg_num |-> 0, group_num |-> k + 1]
      BY <2>4, <2>5
    <3>2. n = (k + 1) * GroupBy + 0 /\ k + 1 \in 0..q /\ 0 \in 0..(GroupBy - 1)
      <4>1. k + 1 \in 0..q /\ 0 \in 0..(GroupBy - 1)
        BY <1>1, <1>3, <2>5
      <4>2. size = GroupBy
        BY <2>5
      <4>3. n = k * GroupBy + GroupBy
        BY <1>5, <1>11, <4>2
      <4> QED
        BY <1>1, <1>3, <4>1, <4>3
    <3>3. ~(n = total /\ r # 0)
      BY <1>9, <2>5
    <3>4. <<>> = [i \in 1..0 |-> (k + 1) * GroupBy + i]
      OBVIOUS
    <3>5. TurnOK(total, n, t)
      BY <2>3, <3>1, <3>2, <3>3, <3>4 DEF TurnOK, q, r
    <3> QED
      BY <3>5 DEF t
  <2>6. CASE ~full
    <3>1. n = total /\ r # 0 /\ k = q
      BY <1>1, <1>3, <1>4, <1>5, <1>11, <2>6
    <3>2. TurnOK(total, n, t)
      BY <2>3, <2>4, <3>1 DEF TurnOK, q, r
    <3> QED
      BY <3>2 DEF t
  <2> QED
    BY <2>5, <2>6
<1> QED
  BY <1>10, <1>11

LEMMA TurnsOK ==
  ASSUME NEW total \in Nat, NEW n \in 0..total
  PROVE  TurnOK(total, n, Turns(UpTo(total))[n])
<1> DEFINE turns == Turns(UpTo(total))
           Failing == {k \in 0..total : ~TurnOK(total, k, turns[k])}
<1>1. UpTo(total) \in Seq(Nat) /\ Len(UpTo(total)) = total
      /\ \A k \in 1..total : UpTo(total)[k] = k
  BY DEF UpTo
<1>2. \A k \in 0..total :
        turns[k] = IF k = 0 THEN NoTurn ELSE ConcatTurn(total, turns[k - 1], UpTo(total)[k])
  BY <1>1, TurnsAt
<1> HIDE DEF turns
<1>3. SUFFICES ASSUME Failing # {} PROVE FALSE
  BY DEF turns
<1>4. PICK k \in Failing : \A j \in Failing : k <= j
  <2>1. Failing \in SUBSET Nat
    OBVIOUS
  <2> QED
    BY <1>3, <2>1, Least
<1>5. k \in 0..total /\ ~TurnOK(total, k, turns[k])
  BY <1>4
<1>6. CASE k = 0
  <2>1. turns[k] = [out |-> <<>>, cur |-> <<>>, msg_num |-> 0, group_num |-> 0]
    BY <1>2, <1>5, <1>6 DEF NoTurn
  <2>2. /\ total \div GroupBy \in Nat /\ total % GroupBy \in Nat /\ GroupBy \in Nat /\ GroupBy > 0
        /\ total = (total \div GroupBy) * GroupBy + (total % GroupBy)
        /\ (total \div GroupBy) * GroupBy \in Nat
    BY DivMod, Multiples, GroupByAssumption
  <2>3. total = 0 => total % GroupBy = 0
    BY <2>2
  <2>4. <<>> = [i \in 1..0 |-> MainGroup(total, i - 1)] /\ <<>> = [i \in 1..0 |-> 0 * GroupBy + i]
    OBVIOUS
  <2>5. 0 = 0 * GroupBy + 0 /\ 0 \in 0..(total \div GroupBy) /\ 0 \in 0..(GroupBy - 1)
    BY <2>2
  <2> QED
    BY <1>5, <1>6, <2>1, <2>3, <2>4, <2>5 DEF TurnOK
<1>7. CASE k # 0
  <2>1. k \in 1..total /\ k - 1 \in 0..total /\ ~(k <= k - 1)
    BY <1>5, <1>7
  <2>2. TurnOK(total, k - 1, turns[k - 1])
    BY <1>4, <2>1
  <2>3. turns[k] = ConcatTurn(total, turns[k - 1], k)
    BY <1>1, <1>2, <1>5, <1>7, <2>1
  <2> QED
    BY <1>5, <2>1, <2>2, <2>3, TurnStep
<1> QED
  BY <1>6, <1>7

(* concatMessages of 1, 2, ..., total: the groups of the main loop, all.    *)
LEMMA ConcatGroups ==
  ASSUME NEW total \in Nat
  PROVE  LET all == concatMessages(UpTo(total))
         IN  /\ Len(all) \in Nat
             /\ all = [i \in 1..Len(all) |-> MainGroup(total, i - 1)]
             /\ total <= Len(all) * GroupBy
             /\ Len(all) > 0 => (Len(all) - 1) * GroupBy < total
<1> DEFINE q == total \div GroupBy
           r == total % GroupBy
           last == Turns(UpTo(total))[total]
           all == last.out
<1>1. /\ q \in Nat /\ r \in Nat /\ r < GroupBy /\ total = q * GroupBy + r
      /\ GroupBy \in Nat /\ GroupBy > 0 /\ q * GroupBy \in Nat
  BY DivMod, Multiples, GroupByAssumption
<1>2. concatMessages(UpTo(total)) = all
  <2>1. Len(UpTo(total)) = total
    BY DEF UpTo
  <2> QED
    BY <2>1, ConcatIsTurns
<1>3. TurnOK(total, total, last)
  <2>1. total \in 0..total
    OBVIOUS
  <2> QED
    BY <2>1, TurnsOK
<1> HIDE DEF last
<1>4. all = [i \in 1..Len(all) |-> MainGroup(total, i - 1)]
  BY <1>3 DEF TurnOK
<1>5. Len(all) = IF r # 0 THEN q + 1 ELSE q
  <2>1. CASE r # 0
    BY <1>3, <2>1 DEF TurnOK
  <2>2. CASE r = 0
    <3> DEFINE k == last.group_num
    <3>1. /\ Len(all) = k /\ k \in 0..q /\ last.msg_num \in 0..(GroupBy - 1)
          /\ total = k * GroupBy + last.msg_num
      BY <1>3, <2>2 DEF TurnOK
    <3> HIDE DEF k
    <3>2. k \in Nat /\ (k + 1) * GroupBy = k * GroupBy + GroupBy /\ k * GroupBy \in Nat
      BY <1>1, <3>1, Multiples
    <3>3. ~(k < q)
      <4> SUFFICES ASSUME k < q PROVE FALSE
        OBVIOUS
      <4>1. k + 1 \in Nat /\ k + 1 <= q
        BY <1>1, <3>2
      <4>2. (k + 1) * GroupBy <= q * GroupBy
        BY <1>1, <4>1, Multiples
      <4> DEFINE a == k * GroupBy
                 b == q * GroupBy
      <4>3. a \in Nat /\ b \in Nat /\ a + GroupBy <= b /\ b = a + last.msg_num
        <5>1. q * GroupBy = q * GroupBy + r
          BY <1>1, <2>2
        <5> QED
          BY <1>1, <3>1, <3>2, <4>2, <5>1
      <4> HIDE DEF a, b
      <4>4. GroupBy \in Nat
        BY <1>1
      <4>5. last.msg_num \in Nat /\ last.msg_num < GroupBy
        BY <3>1, <4>4
      <4> QED
        BY <4>3, <4>4, <4>5
    <3> QED
      BY <1>1, <2>2, <3>1, <3>3
  <2> QED
    BY <2>1, <2>2
<1> HIDE DEF all, q, r
<1>6. (q + 1) * GroupBy = q * GroupBy + GroupBy
  BY <1>1, Multiples
<1>7. q > 0 => (q - 1) * GroupBy = q * GroupBy - GroupBy
  BY <1>1
<1>8. CASE r # 0
  <2>1. Len(all) = q + 1 /\ (q + 1) - 1 = q
    BY <1>1, <1>5, <1>8
  <2>2. total <= (q + 1) * GroupBy /\ q * GroupBy < total
    BY <1>1, <1>6, <1>8
  <2>3. /\ Len(all) \in Nat /\ total <= Len(all) * GroupBy
        /\ Len(all) > 0 => (Len(all) - 1) * GroupBy < total
    BY <1>1, <2>1, <2>2
  <2> QED
    BY <1>2, <1>4, <2>3
<1>9. CASE r = 0
  <2>1. Len(all) = q
    BY <1>1, <1>5, <1>9
  <2>2. total <= q * GroupBy /\ (q > 0 => (q - 1) * GroupBy < total)
    BY <1>1, <1>7, <1>9
  <2>3. /\ Len(all) \in Nat /\ total <= Len(all) * GroupBy
        /\ Len(all) > 0 => (Len(all) - 1) * GroupBy < total
    BY <1>1, <2>1, <2>2
  <2> QED
    BY <1>2, <1>4, <2>3
<1> QED
  BY <1>8, <1>9

(* The entries of the broadcasts are the groups of the main loop, the group *)
(* in hand is the next, and only the last one may be smaller than GroupBy.  *)
OwnGroups ==
    LET k == CountOf(log, "b") IN
    /\ WrittenOf("b") = IF k * GroupBy < num THEN k * GroupBy ELSE num
    /\ k > 0 => (k - 1) * GroupBy < num
    /\ Pending("main") =>
        /\ concat = <<>>
        /\ k * GroupBy < num
        /\ group = MainGroup(num, k)
    /\ \A i \in 1..Len(log) :
        log[i].ev = "b" =>
            LET n == CountTo(log, i, "b") IN
            n > 0 /\ (n - 1) * GroupBy < num /\ log[i] = Entry("b", "self", MainGroup(num, n - 1))

LEMMA GroupInHand ==
  ASSUME NEW total \in Nat, NEW k \in Nat, NEW b \in Nat, NEW g \in Group,
         b = IF k * GroupBy < total THEN k * GroupBy ELSE total,
         g.count = Len(g.msgs), g.count > 0, \A i \in 1..g.count : g.msgs[i] = b + i,
         b + g.count <= total, g.count = GroupBy \/ b + g.count = total
  PROVE  k * GroupBy < total /\ g = MainGroup(total, k)
<1> DEFINE w == k * GroupBy
           size == IF total - w < GroupBy THEN total - w ELSE GroupBy
<1>1. /\ GroupBy \in Nat /\ GroupBy > 0 /\ w \in Nat /\ g.count \in 0..GroupBy
      /\ g.msgs \in Seq(Nat) /\ g = [count |-> g.count, msgs |-> g.msgs]
  BY GroupByAssumption DEF Group
<1>2. b = IF w < total THEN w ELSE total
  OBVIOUS
<1> HIDE DEF w
<1>3. w < total /\ b = w
  BY <1>1, <1>2
<1>4. g.count = size
  BY <1>1, <1>3
<1>5. g.msgs = [i \in 1..size |-> w + i]
  <2>1. g.msgs = [i \in 1..g.count |-> g.msgs[i]]
    BY <1>1
  <2> QED
    BY <1>3, <1>4, <2>1
<1> HIDE DEF size
<1>6. g = [count |-> size, msgs |-> [i \in 1..size |-> w + i]]
  BY <1>1, <1>4, <1>5
<1>7. k * GroupBy < total => MainGroup(total, k) =
        [count |-> size, msgs |-> [i \in 1..size |-> w + i]]
  BY MainGroupType DEF size, w
<1> QED
  BY <1>3, <1>6, <1>7 DEF w

(* Nothing is logged: the main thread takes a group in hand, or keeps it.   *)
LEMMA OwnGroupsInHand ==
  ASSUME IInv, IInv', OwnGroups, UNCHANGED <<num, log>>,
         Pending("main")' =>
            \/ Pending("main") /\ UNCHANGED <<concat, group>>
            \/ concat' = <<>> /\ (group'.count = GroupBy \/ seq_num' > num)
  PROVE  OwnGroups'
<1> DEFINE k == CountOf(log, "b")
           b == WrittenOf("b")
<1>1. /\ k' = k /\ b' = b /\ k \in Nat /\ b \in Nat /\ num \in Nat
      /\ b = (IF k * GroupBy < num THEN k * GroupBy ELSE num)
  BY WrittenType, NumType DEF IInv, OwnGroups, WrittenOf, Written
<1>2. Pending("main")' => concat' = <<>> /\ k * GroupBy < num /\ group' = MainGroup(num, k)
  <2> SUFFICES ASSUME Pending("main")'
               PROVE  concat' = <<>> /\ k * GroupBy < num /\ group' = MainGroup(num, k)
    OBVIOUS
  <2>1. CASE Pending("main") /\ UNCHANGED <<concat, group>>
    BY <2>1 DEF OwnGroups
  <2>2. CASE concat' = <<>> /\ (group'.count = GroupBy \/ seq_num' > num)
    <3>1. /\ group' \in Group /\ group'.count = Len(group'.msgs) /\ group'.count > 0
          /\ \A i \in 1..group'.count : group'.msgs[i] = b + i
          /\ seq_num' = (b + group'.count) + Len(concat') + 1
          /\ seq_num' \in 1..(num + 1)
      BY <1>1 DEF IInv, TypeOK, InGroups, OwnOrder
    <3>2. group'.count \in Nat /\ Len(concat') = 0
      BY <2>2, <3>1, GroupByAssumption DEF Group
    <3> HIDE DEF k, b
    <3>3. b + group'.count <= num /\ (group'.count = GroupBy \/ b + group'.count = num)
      <4>1. /\ b \in Nat /\ num \in Nat /\ seq_num' \in 1..(num + 1)
            /\ seq_num' = (b + group'.count) + 0 + 1
        BY <1>1, <3>1, <3>2
      <4>2. group'.count = GroupBy \/ seq_num' > num
        BY <2>2
      <4> QED
        BY <3>2, <4>1, <4>2
    <3>4. k * GroupBy < num /\ group' = MainGroup(num, k)
      BY <1>1, <3>1, <3>3, GroupInHand
    <3>5. concat' = <<>>
      BY <2>2
    <3> QED
      BY <3>4, <3>5
  <2> QED
    BY <2>1, <2>2
<1> HIDE DEF b, k
<1>3. k' > 0 => (k' - 1) * GroupBy < num'
  BY <1>1 DEF OwnGroups, k
<1>4. \A i \in 1..Len(log') :
        log'[i].ev = "b" =>
            LET n == CountTo(log', i, "b") IN
            n > 0 /\ (n - 1) * GroupBy < num' /\ log'[i] = Entry("b", "self", MainGroup(num', n - 1))
  BY DEF OwnGroups
<1> QED
  BY <1>1, <1>2, <1>3, <1>4 DEF OwnGroups, k, b

LEMMA OwnGroupsLogged ==
  ASSUME IInv, OwnGroups, NEW t \in Logging, Grown(t)
  PROVE  OwnGroups'
<1> DEFINE e == NewEntry(t)
           k == CountOf(log, "b")
           b == WrittenOf("b")
<1>1. /\ pc[t] = "append" /\ pc' = [pc EXCEPT ![t] = Return(t)] /\ log' = Append(log, e)
      /\ UNCHANGED <<num, concat, group>>
  BY DEF Grown, Step
<1>2. Pending(t)
  BY <1>1 DEF Pending
<1>3. /\ e \in WholeEntry /\ e.ev = (IF t = "main" THEN "b" ELSE "d")
      /\ log \in Seq(WholeEntry) /\ k \in Nat /\ b \in Nat /\ num \in Nat /\ e.count \in Nat
  BY <1>2, NewEntryType, LinesType, WrittenType, NumType DEF IInv
<1>4. /\ b' = b + (IF "b" = e.ev THEN e.count ELSE 0)
      /\ k' = k + (IF "b" = e.ev THEN 1 ELSE 0)
  BY <1>1, <1>2, CountsGrow
<1>5. pc \in [Logging -> {"idle", "walk", "log", "scan", "push", "append", "send"}]
  BY DEF IInv, TypeOK
<1>6. CountOf(log', "b") = k'
  OBVIOUS
<1> HIDE DEF e
<1>7. /\ Len(log') = Len(log) + 1 /\ Len(log) \in Nat /\ log'[Len(log) + 1] = e
      /\ \A i \in 1..Len(log) : log'[i] = log[i] /\ CountTo(log', i, "b") = CountTo(log, i, "b")
  <2>1. /\ log' = log \o <<e>> /\ <<e>> \in Seq(WholeEntry) /\ Len(log') = Len(log) + 1
        /\ Len(log) \in Nat /\ log'[Len(log) + 1] = e
        /\ \A i \in 1..Len(log) : log'[i] = log[i]
    BY <1>1, <1>3
  <2>2. ASSUME NEW i \in 1..Len(log)
        PROVE  CountTo(log', i, "b") = CountTo(log, i, "b")
    <3>1. i \in 0..Len(log)
      BY <2>1
    <3> QED
      BY <1>3, <2>1, <3>1, CountBefore
  <2> QED
    BY <2>1, <2>2
<1> DEFINE Numbered(l, i) ==
             LET n == CountTo(l, i, "b") IN
             n > 0 /\ (n - 1) * GroupBy < num /\ l[i] = Entry("b", "self", MainGroup(num, n - 1))
<1>8. \A i \in 1..Len(log) : log[i].ev = "b" => Numbered(log, i)
  BY DEF OwnGroups
<1>9. \A i \in 1..Len(log) : log'[i].ev = "b" => Numbered(log', i)
  BY <1>7, <1>8
<1>10. CASE t = "main"
  <2>1. /\ e.ev = "b" /\ k * GroupBy < num /\ group = MainGroup(num, k) /\ concat = <<>>
        /\ b = k * GroupBy /\ e = Entry("b", "self", group) /\ ~Pending("main")'
    <3>1. e = Entry("b", "self", group)
      BY <1>10 DEF e, NewEntry
    <3>2. ~Pending("main")'
      BY <1>1, <1>5, <1>10 DEF Pending, Return
    <3> QED
      BY <1>2, <1>3, <1>10, <3>1, <3>2 DEF OwnGroups
  <2> HIDE DEF k, b
  <2>2. e.count = (IF num - k * GroupBy < GroupBy THEN num - k * GroupBy ELSE GroupBy)
    BY <1>3, <2>1, MainGroupType DEF Entry
  <2>3. k' = k + 1 /\ b' = b + e.count
    BY <1>4, <2>1
  <2>4. (k + 1) * GroupBy = k * GroupBy + GroupBy /\ k * GroupBy \in Nat /\ GroupBy \in Nat
    BY <1>3, Multiples, GroupByAssumption
  <2>5. b' = IF k' * GroupBy < num THEN k' * GroupBy ELSE num
    BY <1>3, <2>1, <2>2, <2>3, <2>4
  <2>6. k' - 1 = k /\ k' > 0 /\ (k' - 1) * GroupBy < num
    BY <1>3, <2>1, <2>3
  <2>7. Numbered(log', Len(log) + 1)
    <3>1. CountTo(log', Len(log) + 1, "b") = k'
      BY <1>6, <1>7 DEF CountOf
    <3> QED
      BY <1>7, <2>1, <2>6, <3>1
  <2>8. \A i \in 1..Len(log') : log'[i].ev = "b" => Numbered(log', i)
    <3> TAKE i \in 1..Len(log')
    <3>1. i \in 1..Len(log) \/ i = Len(log) + 1
      BY <1>7
    <3> HIDE DEF Numbered
    <3> QED
      BY <1>9, <2>7, <3>1
  <2> QED
    BY <1>1, <2>1, <2>5, <2>6, <2>8 DEF OwnGroups, k, b
<1>11. CASE t = "poller"
  <2>1. e.ev = "d" /\ Pending("main")' = Pending("main")
    BY <1>1, <1>3, <1>5, <1>11 DEF Pending, Return, Logging
  <2>2. b' = b /\ k' = k
    <3> HIDE DEF k, b
    <3> QED
      BY <1>3, <1>4, <2>1
  <2>3. \A i \in 1..Len(log') : log'[i].ev = "b" => Numbered(log', i)
    <3> TAKE i \in 1..Len(log')
    <3>1. i \in 1..Len(log) \/ (i = Len(log) + 1 /\ log'[i].ev = "d")
      BY <1>7, <2>1
    <3> HIDE DEF Numbered
    <3> QED
      BY <1>9, <3>1
  <2> QED
    BY <1>1, <2>1, <2>2, <2>3 DEF OwnGroups
<1> QED
  BY <1>10, <1>11 DEF Logging

LEMMA OwnGroupsNext ==
  ASSUME IInv, IInv', OwnGroups, [Next]_vars
  PROVE  OwnGroups'
<1>1. pc \in [Logging -> {"idle", "walk", "log", "scan", "push", "append", "send"}]
  BY DEF IInv, TypeOK
<1>2. CASE AddMessage
  <2>1. /\ UNCHANGED <<num, log>> /\ pc["main"] = "idle"
        /\ \/ /\ Len(Append(concat, seq_num)) = GroupBy /\ concat' = <<>>
              /\ group'.count = Len(Append(concat, seq_num))
           \/ UNCHANGED pc
    <3>1. Len(Append(concat, seq_num)) = GroupBy =>
            GroupOf(Append(concat, seq_num)) =
              [count |-> Len(Append(concat, seq_num)), msgs |-> Append(concat, seq_num)]
      <4> DEFINE msgs == Append(concat, seq_num)
      <4> HIDE DEF msgs
      <4>1. Len(msgs) = GroupBy => Len(msgs) \in 0..GroupBy
        BY GroupByAssumption
      <4>2. Len(msgs) = GroupBy => GroupOf(msgs) = [count |-> Len(msgs), msgs |-> msgs]
        BY <4>1, GroupRead
      <4> QED
        BY <4>2 DEF msgs
    <3> QED
      BY <1>2, <3>1 DEF AddMessage, IsFull, Emptied
  <2>2. UNCHANGED pc => ~Pending("main")'
    BY <2>1 DEF Pending
  <2> QED
    BY <2>1, <2>2, OwnGroupsInHand
<1>3. CASE LastGroup
  <2>1. /\ UNCHANGED <<num, log>> /\ concat' = <<>> /\ seq_num' > num
    BY <1>3 DEF LastGroup
  <2> QED
    BY <2>1, OwnGroupsInHand
<1>4. ASSUME NEW t \in Logging, Grown(t) PROVE OwnGroups'
  BY <1>4, OwnGroupsLogged
<1>5. CASE /\ UNCHANGED <<num, log, concat, group>>
           /\ Pending("main")' => Pending("main")
  BY <1>5, OwnGroupsInHand
<1>6. CASE SendGroup
  BY <1>1, <1>5, <1>6 DEF SendGroup, Pending, Logging
<1>7. CASE StartWalk \/ Deliver \/ EndWalk
  BY <1>1, <1>5, <1>7 DEF StartWalk, Deliver, EndWalk, Step, Pending, Logging
<1>8. ASSUME NEW t \in Logging, LockToSearch(t) \/ Searched(t) \/ LockToGrow(t)
      PROVE  OwnGroups'
  BY <1>1, <1>5, <1>8 DEF LockToSearch, Searched, LockToGrow, Step, Pending, Logging
<1>9. CASE SendThread \/ Handler \/ \E t \in Handlers : stop(t)
  <2>1. UNCHANGED <<num, log, concat, group, pc>>
    BY <1>9 DEF SendThread, ReadActive, SendQueued, Handler, setLinksInactive,
                setBroadcastsInactive, CopyLog, writeOutput, GoOn, stop
  <2> QED
    BY <1>5, <2>1 DEF Pending
<1>10. CASE UNCHANGED vars
  BY <1>5, <1>10 DEF vars, Pending
<1>11. CASE MainThread
  BY <1>2, <1>3, <1>4, <1>6, <1>8, <1>11 DEF MainThread, AddLog, Logging
<1>12. CASE Poller
  BY <1>4, <1>7, <1>8, <1>12 DEF Poller, AddLog, Logging
<1> QED
  BY <1>9, <1>10, <1>11, <1>12 DEF Next

LEMMA OwnGroupsInit == Init => OwnGroups
<1> SUFFICES ASSUME Init PROVE OwnGroups
  OBVIOUS
<1>1. log = <<>> /\ CountOf(log, "b") = 0 /\ WrittenOf("b") = 0 /\ ~Pending("main")
  BY InitEmpty
<1>2. num \in Nat /\ GroupBy \in Nat /\ 0 * GroupBy = 0
  BY CountsAssumption, GroupByAssumption DEF Init
<1> QED
  BY <1>1, <1>2 DEF OwnGroups

(* The main loop's entries in the log are its groups, in their order.       *)
THEOREM OwnGroupsInvariance == Spec => []OwnGroups
<1>1. Init => OwnGroups
  BY OwnGroupsInit
<1>2. IInv /\ IInv' /\ OwnGroups /\ [Next]_vars => OwnGroups'
  BY OwnGroupsNext
<1> QED
  BY <1>1, <1>2, Invariance, PTL DEF Spec

(* main groups its messages one by one as they come, and concatMessages a   *)
(* whole list: they make the same groups of any number of messages.         *)
THEOREM GroupsAgreeCorrect == Spec => []GroupsAgree
<1>1. ASSUME IInv, OwnGroups PROVE GroupsAgree
  <2> DEFINE all == concatMessages(UpTo(num))
             L == Len(all)
             k == CountOf(log, "b")
             b == WrittenOf("b")
  <2>1. /\ num \in Nat /\ k \in Nat /\ b \in Nat /\ GroupBy \in Nat
        /\ log \in Seq(WholeEntry) /\ Len(log) \in Nat
    <3>1. log \in Seq(WholeEntry) /\ k \in Nat /\ b \in Nat
      BY <1>1, WrittenType DEF IInv
    <3> QED
      BY <1>1, <3>1, NumType, GroupByAssumption DEF IInv
  <2>2. /\ L \in Nat
        /\ all = [i \in 1..L |-> MainGroup(num, i - 1)]
        /\ num <= L * GroupBy
        /\ L > 0 => (L - 1) * GroupBy < num
    BY <2>1, ConcatGroups
  <2> HIDE DEF all, L, k, b
  <2>3. ASSUME NEW i \in 1..Len(log), log[i].ev = "b"
        PROVE  LET n == CountTo(log, i, "b") IN n <= L /\ log[i] = Entry("b", "self", all[n])
    <3> DEFINE n == CountTo(log, i, "b")
    <3>1. n > 0 /\ (n - 1) * GroupBy < num /\ log[i] = Entry("b", "self", MainGroup(num, n - 1))
      BY <1>1, <2>3 DEF OwnGroups
    <3>2. n \in Nat
      <4>1. i \in Nat
        BY <2>1
      <4> QED
        BY <4>1, CountFinite
    <3> HIDE DEF n
    <3>3. n - 1 \in Nat /\ (n - 1) * GroupBy \in Nat /\ L * GroupBy \in Nat
      BY <2>1, <2>2, <3>1, <3>2
    <3>4. (n - 1) * GroupBy < L * GroupBy
      BY <2>1, <2>2, <3>1, <3>3
    <3>5. n - 1 < L
      BY <2>2, <3>3, <3>4, Multiples
    <3>6. n \in 1..L
      BY <2>2, <3>1, <3>2, <3>5
    <3> QED
      BY <2>2, <3>1, <3>6 DEF n
  <2>4. ASSUME seq_num > num, concat = <<>>, pc["main"] = "idle" PROVE k = L
    <3>1. ~Pending("main")
      BY <2>4 DEF Pending
    <3>2. seq_num = (b + 0) + 0 + 1 /\ seq_num \in 1..(num + 1)
      BY <1>1, <2>4, <3>1 DEF IInv, OwnOrder, TypeOK, b
    <3>3. b = num
      BY <2>1, <2>4, <3>2
    <3>4. /\ b = IF k * GroupBy < num THEN k * GroupBy ELSE num
          /\ k > 0 => (k - 1) * GroupBy < num
      BY <1>1 DEF OwnGroups, k, b
    <3>5. k * GroupBy \in Nat /\ L * GroupBy \in Nat
      BY <2>1, <2>2, Multiples
    <3>6. num <= k * GroupBy
      BY <2>1, <3>3, <3>4, <3>5
    <3>7. ~(k < L)
      <4> SUFFICES ASSUME k < L PROVE FALSE
        OBVIOUS
      <4>1. L - 1 \in Nat /\ k <= L - 1 /\ (L - 1) * GroupBy < num
        BY <2>1, <2>2
      <4>2. k * GroupBy <= (L - 1) * GroupBy /\ (L - 1) * GroupBy \in Nat
        BY <2>1, <4>1, Multiples
      <4> QED
        BY <2>1, <3>5, <3>6, <4>1, <4>2
    <3>8. ~(L < k)
      <4> SUFFICES ASSUME L < k PROVE FALSE
        OBVIOUS
      <4>1. k - 1 \in Nat /\ L <= k - 1 /\ (k - 1) * GroupBy < num
        BY <2>1, <2>2, <3>4
      <4>2. L * GroupBy <= (k - 1) * GroupBy /\ (k - 1) * GroupBy \in Nat
        BY <2>2, <4>1, Multiples
      <4>3. num <= L * GroupBy
        BY <2>2
      <4> DEFINE x == L * GroupBy
                 y == (k - 1) * GroupBy
      <4>4. x \in Nat /\ y \in Nat /\ num <= x /\ x <= y /\ y < num
        BY <3>5, <4>1, <4>2, <4>3
      <4> HIDE DEF x, y
      <4> QED
        BY <2>1, <4>4
    <3> QED
      BY <2>1, <2>2, <3>7, <3>8
  <2> QED
    BY <2>3, <2>4 DEF GroupsAgree, all, L, k
<1> QED
  BY <1>1, Invariance, OwnGroupsInvariance, PTL

-----------------------------------------------------------------------------
(* The hosts file.                                                         *)

(* A sequence of n different numbers of 1..n that grows is 1..n itself.     *)
LEMMA GrowingIsIdentity ==
  ASSUME NEW n \in Nat, NEW g \in [1..n -> 1..n],
         \A i, j \in 1..n : i < j => g[i] < g[j]
  PROVE  \A i \in 1..n : g[i] = i
<1>1. \A i \in 1..n : g[i] >= i
  <2> DEFINE T == {i \in 1..n : ~(g[i] >= i)}
  <2> SUFFICES ASSUME T # {} PROVE FALSE
    OBVIOUS
  <2>1. T \in SUBSET Nat
    OBVIOUS
  <2> HIDE DEF T
  <2>2. PICK i \in T : \A k \in T : i <= k
    BY <2>1, Least
  <2>3. i \in 1..n /\ g[i] < i /\ g[i] \in 1..n
    BY DEF T
  <2>4. i - 1 \in 1..n /\ i - 1 \notin T
    BY <2>2, <2>3
  <2> QED
    BY <2>3, <2>4 DEF T
<1>2. \A i \in 1..n : g[i] <= i
  <2> DEFINE T == {d \in 0..(n - 1) : ~(g[n - d] <= n - d)}
  <2> SUFFICES ASSUME T # {} PROVE FALSE
    <3> SUFFICES ASSUME NEW i \in 1..n, ~(g[i] <= i) PROVE T # {}
      OBVIOUS
    <3>1. n - i \in 0..(n - 1) /\ n - (n - i) = i
      OBVIOUS
    <3> QED
      BY <3>1
  <2>1. T \in SUBSET Nat
    OBVIOUS
  <2> HIDE DEF T
  <2>2. PICK d \in T : \A k \in T : d <= k
    BY <2>1, Least
  <2>3. d \in 0..(n - 1) /\ n - d \in 1..n /\ g[n - d] > n - d /\ g[n - d] \in 1..n
    BY DEF T
  <2>4. d - 1 \in 0..(n - 1) /\ d - 1 \notin T /\ n - (d - 1) \in 1..n
    BY <2>2, <2>3
  <2>5. g[n - (d - 1)] <= n - (d - 1) /\ g[n - d] < g[n - (d - 1)]
    BY <2>3, <2>4 DEF T
  <2>6. g[n - (d - 1)] \in 1..n
    BY <2>4
  <2> QED
    BY <2>3, <2>5, <2>6
<1> QED
  BY <1>1, <1>2

(* Sorted by different identifiers, the host of i is at place i.            *)
LEMMA SortedInPlace ==
  ASSUME NEW lines \in File, Accepts(lines), Distinct(lines), NEW hosts \in Sorted(lines)
  PROVE  /\ DOMAIN hosts = DOMAIN lines
         /\ \A i \in DOMAIN lines : lines[i] \in DOMAIN lines /\ hosts[lines[i]] = Host(lines, i)
<1> DEFINE n == Len(lines)
<1>1. PICK f \in Bijection(DOMAIN lines, DOMAIN lines) :
        /\ hosts = [i \in DOMAIN lines |-> Host(lines, f[i])]
        /\ \A i, j \in DOMAIN lines : i < j => hosts[i].id <= hosts[j].id
  BY DEF Sorted
<1>2. n \in Nat /\ DOMAIN lines = 1..n /\ \A i \in 1..n : lines[i] \in 1..n
  <2>1. PICK m \in 0..MaxLines : lines \in [1..m -> Ids]
    BY DEF File
  <2>2. m \in Nat
    BY IdsAssumption
  <2>3. lines \in Seq(Ids)
    BY <2>1, <2>2
  <2>4. n \in Nat /\ DOMAIN lines = 1..n
    BY <2>3
  <2> QED
    BY <2>4 DEF Accepts
<1> HIDE DEF n
<1>3. f \in [1..n -> 1..n] /\ \A i, j \in 1..n : f[i] = f[j] => i = j
  BY <1>1, <1>2 DEF Bijection, Injection, Surjection, IsInjective
<1>4. \A i, j \in 1..n : lines[i] = lines[j] => i = j
  BY <1>2 DEF Distinct
<1> DEFINE g == [i \in 1..n |-> lines[f[i]]]
<1>5. g \in [1..n -> 1..n] /\ \A i \in 1..n : hosts[i].id = g[i]
  BY <1>1, <1>2, <1>3 DEF Host
<1>6. \A i, j \in 1..n : i < j => g[i] < g[j]
  <2> SUFFICES ASSUME NEW i \in 1..n, NEW j \in 1..n, i < j PROVE g[i] < g[j]
    OBVIOUS
  <2>1. hosts[i].id <= hosts[j].id /\ hosts[i].id = g[i] /\ hosts[j].id = g[j]
    <3>1. i \in DOMAIN lines /\ j \in DOMAIN lines
      BY <1>2
    <3>2. hosts[i].id <= hosts[j].id
      BY <1>1, <3>1
    <3> QED
      BY <1>5, <3>2
  <2>2. g[i] # g[j]
    <3>1. f[i] \in 1..n /\ f[j] \in 1..n /\ f[i] # f[j]
      BY <1>3
    <3> QED
      BY <1>4, <3>1
  <2>3. g[i] \in 1..n /\ g[j] \in 1..n
    BY <1>5
  <2> HIDE DEF g
  <2> QED
    BY <2>1, <2>2, <2>3
<1>7. \A i \in 1..n : g[i] = i
  <2> HIDE DEF g
  <2> QED
    BY <1>2, <1>5, <1>6, GrowingIsIdentity
<1>8. ASSUME NEW i \in 1..n PROVE f[lines[i]] = i
  <2>1. lines[i] \in 1..n /\ f[lines[i]] \in 1..n
    BY <1>2, <1>3
  <2>2. lines[f[lines[i]]] = lines[i]
    BY <1>7, <2>1
  <2> QED
    BY <1>4, <2>1, <2>2
<1> QED
  BY <1>1, <1>2, <1>8

(* Every process listens where the others send, for every hosts file the    *)
(* parser accepts whose lines name different processes, in any order.       *)
THEOREM LinksByIndexCorrect == LinksByIndex
<1> SUFFICES ASSUME NEW lines \in File, Accepts(lines), Distinct(lines)
             PROVE  InPlace(lines)
  BY DEF LinksByIndex
<1>1. Range(lines) \subseteq DOMAIN lines
  <2>1. PICK n \in 0..MaxLines : lines \in [1..n -> Ids]
    BY DEF File
  <2>2. n \in Nat
    BY IdsAssumption
  <2>3. lines \in Seq(Ids)
    BY <2>1, <2>2
  <2>4. DOMAIN lines = 1..Len(lines)
    BY <2>3
  <2> QED
    BY <2>4 DEF Accepts, Range
<1>2. ASSUME NEW hosts \in Sorted(lines), NEW i \in DOMAIN lines, NEW j \in DOMAIN lines
      PROVE  /\ this_process(hosts, lines[i]) = i
             /\ links(hosts, lines[i])[lines[j]] = IF i = j THEN NoLink ELSE j
  <2>1. /\ DOMAIN hosts = DOMAIN lines /\ lines[i] \in DOMAIN lines /\ lines[j] \in DOMAIN lines
        /\ hosts[lines[i]] = Host(lines, i) /\ hosts[lines[j]] = Host(lines, j)
    BY SortedInPlace
  <2>2. hosts[lines[j]].id = lines[i] <=> i = j
    BY <2>1 DEF Host, Distinct
  <2>3. hosts[lines[i]].addr = i /\ hosts[lines[j]].addr = j
    BY <2>1 DEF Host
  <2> QED
    BY <2>1, <2>2, <2>3 DEF this_process, links
<1> QED
  BY <1>1, <1>2 DEF InPlace

=============================================================================
