---------------------------- MODULE LocksProofs ----------------------------
(***************************************************************************)
(* Theorems about Locks for any set of links.                              *)
(***************************************************************************)
EXTENDS Locks, TLAPS

-----------------------------------------------------------------------------
(* An order of the mutexes that every section follows.  It is the stack of  *)
(* the layers, from the thread of a link up to LCB and from there back down *)
(* to the lists of the links, with the log at the end.                      *)
Rank(k) ==
    CASE k[1] = "receiver_mutex"         -> 1
      [] k[1] = "broadcast_mutex"        -> 2
      [] k[1] = "pending_mutex"          -> 3
      [] k[1] = "upper_layer_mutex"      -> 4
      [] k[1] = "pairs_mutex"            -> 5
      [] k[1] = "lcb_receiver_mutex"     -> 6
      [] k[1] = "link_mutex"             -> 6
      [] k[1] = "acks_to_send_mutex"     -> 7
      [] k[1] = "messages_to_send_mutex" -> 7
      [] k[1] = "mutex_"                 -> 7

LEMMA Ranks ==
    /\ Rank(pending_mutex) = 3 /\ Rank(upper_layer_mutex) = 4 /\ Rank(pairs_mutex) = 5
    /\ Rank(lcb_receiver_mutex) = 6 /\ Rank(log_mutex) = 7
    /\ \A l : /\ Rank(receiver_mutex(l)) = 1
              /\ Rank(broadcast_mutex(l)) = 2
              /\ Rank(link_mutex(l)) = 6
              /\ Rank(acks_to_send_mutex(l)) = 7
              /\ Rank(messages_to_send_mutex(l)) = 7
  BY DEF Rank, pending_mutex, upper_layer_mutex, pairs_mutex, lcb_receiver_mutex, log_mutex,
         receiver_mutex, broadcast_mutex, link_mutex, acks_to_send_mutex, messages_to_send_mutex

LEMMA RankType == \A k \in Mutex : Rank(k) \in 1..7
<1>1. 1 \in 1..7 /\ 2 \in 1..7 /\ 3 \in 1..7 /\ 4 \in 1..7 /\ 5 \in 1..7 /\ 6 \in 1..7 /\ 7 \in 1..7
  OBVIOUS
<1>2. \A l \in Link : \A k \in LinkMutex(l) : Rank(k) \in 1..7
  BY <1>1, Ranks DEF LinkMutex
<1> QED
  BY <1>1, <1>2, Ranks DEF Mutex

(* From a section one can only go on to mutexes of higher rank.             *)
Ascends(sections) ==
    \A s \in sections : \A k : k \notin s /\ s \cup {k} \in sections
        => \A h \in s : Rank(h) < Rank(k)

(* The mutexes of the sections have ranks above r.                          *)
Above(r, sections) == \A s \in sections : \A h \in s : Rank(h) > r

(* A scope ascends when what it encloses does, above its own mutex.         *)
LEMMA WithAscends ==
  ASSUME NEW k \in Mutex, NEW inner, Ascends(inner), Above(Rank(k), inner),
         \A s \in inner : s \subseteq Mutex
  PROVE  Ascends(With(k, inner))
<1> SUFFICES ASSUME NEW s \in With(k, inner), NEW x, x \notin s, s \cup {x} \in With(k, inner),
                    NEW h \in s
             PROVE  Rank(h) < Rank(x)
  BY DEF Ascends
<1>1. PICK s0 \in inner : s = s0 \cup {k}
  BY DEF With
<1>2. PICK s1 \in inner : s \cup {x} = s1 \cup {k}
  BY DEF With
<1>3. k \notin s0 /\ k \notin s1 /\ x # k
  BY <1>1, RankType DEF Above
<1>4. s1 = s0 \cup {x} /\ x \notin s0
  BY <1>1, <1>2, <1>3
<1>5. CASE h = k
  BY <1>4, <1>5 DEF Above
<1>6. CASE h # k
  BY <1>1, <1>4, <1>6 DEF Ascends
<1> QED
  BY <1>5, <1>6

LEMMA WithAbove ==
  ASSUME NEW k \in Mutex, NEW r \in Nat, NEW inner, r < Rank(k), Above(r, inner)
  PROVE  Above(r, With(k, inner))
  BY DEF Above, With

(* Two sets of sections of which none continues one of the other.           *)
LEMMA UnionAscends ==
  ASSUME NEW A, NEW B, Ascends(A), Ascends(B),
         \A a \in A, b \in B : a # {} /\ b # {} => \A x : b # a \cup {x} /\ a # b \cup {x}
  PROVE  Ascends(A \cup B)
<1> SUFFICES ASSUME NEW s \in A \cup B, NEW x, x \notin s, s \cup {x} \in A \cup B, NEW h \in s
             PROVE  Rank(h) < Rank(x)
  BY DEF Ascends
<1>1. s # {}
  OBVIOUS
<1>2. (s \in A /\ s \cup {x} \in A) \/ (s \in B /\ s \cup {x} \in B)
  BY <1>1
<1> QED
  BY <1>2 DEF Ascends

LEMMA TouchAscends == ASSUME NEW k PROVE Ascends(Touch(k))
  BY DEF Ascends, Touch, With

LEMMA TouchAbove ==
  ASSUME NEW k \in Mutex, NEW r \in Nat, r < Rank(k)
  PROVE  Above(r, Touch(k))
  BY RankType DEF Above, Touch, With

LEMMA TouchMutexes ==
  ASSUME NEW k \in Mutex
  PROVE  \A s \in Touch(k) : s \subseteq Mutex
  BY DEF Touch, With

LEMMA WithMutexes ==
  ASSUME NEW k \in Mutex, NEW inner, \A s \in inner : s \subseteq Mutex
  PROVE  \A s \in With(k, inner) : s \subseteq Mutex
  BY DEF With

LEMMA Mutexes ==
    /\ {pending_mutex, upper_layer_mutex, pairs_mutex, lcb_receiver_mutex, log_mutex} \subseteq Mutex
    /\ \A l \in Link : LinkMutex(l) \subseteq Mutex
  BY DEF Mutex

-----------------------------------------------------------------------------
(* The sections of each thread.                                            *)

(* Sections whose code may be enclosed by k.                                *)
Within(k, inner) ==
    Ascends(inner) /\ Above(Rank(k), inner) /\ \A s \in inner : s \subseteq Mutex

LEMMA TouchWithin ==
  ASSUME NEW k \in Mutex, NEW x \in Mutex, Rank(k) < Rank(x)
  PROVE  Within(k, Touch(x))
<1>1. Rank(k) \in Nat
  BY RankType
<1> QED
  BY <1>1, TouchAscends, TouchAbove, TouchMutexes DEF Within

LEMMA WithWithin ==
  ASSUME NEW k \in Mutex, NEW x \in Mutex, NEW inner, Rank(k) < Rank(x), Within(x, inner),
         Within(k, inner)
  PROVE  Within(k, With(x, inner))
<1>1. Rank(k) \in Nat
  BY RankType
<1> QED
  BY <1>1, WithAscends, WithAbove, WithMutexes DEF Within

LEMMA SendOnLinksAscends ==
    /\ Ascends(SendOnLinks)
    /\ \A s \in SendOnLinks : s = {} \/ \E l \in Link : s = {messages_to_send_mutex(l)}
<1>1. \A s \in SendOnLinks : s = {} \/ \E l \in Link : s = {messages_to_send_mutex(l)}
  BY DEF SendOnLinks, Touch, With
<1>2. ASSUME NEW s \in SendOnLinks, NEW x, x \notin s, s \cup {x} \in SendOnLinks
      PROVE  s = {}
  <2>1. PICK l \in Link : s \cup {x} = {messages_to_send_mutex(l)}
    BY <1>1, <1>2
  <2>2. x = messages_to_send_mutex(l)
    BY <2>1
  <2> QED
    BY <1>2, <2>1, <2>2
<1> QED
  BY <1>1, <1>2 DEF Ascends

LEMMA AddLogWithin ==
    /\ Ascends(AddLog)
    /\ \A k \in Mutex : Rank(k) < 6 => Within(k, AddLog)
<1>1. lcb_receiver_mutex \in Mutex /\ log_mutex \in Mutex
  BY Mutexes
<1>2. Within(lcb_receiver_mutex, Touch(log_mutex))
  BY <1>1, TouchWithin, Ranks
<1>3. Ascends(AddLog)
  BY <1>1, <1>2, WithAscends DEF Within, AddLog
<1>4. ASSUME NEW k \in Mutex, Rank(k) < 6
      PROVE  Within(k, AddLog)
  <2>1. Rank(k) < 7
    BY <1>4, RankType
  <2>2. Within(k, Touch(log_mutex))
    BY <1>1, <2>1, TouchWithin, Ranks
  <2> QED
    BY <1>1, <1>2, <1>4, <2>2, WithWithin, Ranks DEF AddLog
<1> QED
  BY <1>3, <1>4

LEMMA MainAscends == Ascends(MainSections)
<1>1. \A s \in AddLog : s \in {{}, {lcb_receiver_mutex}, {lcb_receiver_mutex, log_mutex}}
  BY DEF AddLog, Touch, With
<1>2. \A l : messages_to_send_mutex(l) \notin {lcb_receiver_mutex, log_mutex}
  BY DEF messages_to_send_mutex, lcb_receiver_mutex, log_mutex
<1>3. \A a \in AddLog, b \in SendOnLinks : a # {} /\ b # {} => \A x : b # a \cup {x} /\ a # b \cup {x}
  BY <1>1, <1>2, SendOnLinksAscends
<1> QED
  BY <1>3, AddLogWithin, SendOnLinksAscends, UnionAscends DEF MainSections

LEMMA UrbAscends == Ascends(UrbSections)
<1>1. pending_mutex \in Mutex /\ upper_layer_mutex \in Mutex /\ pairs_mutex \in Mutex
  BY Mutexes
<1>2. Within(pending_mutex, Touch(pairs_mutex)) /\ Within(upper_layer_mutex, Touch(pairs_mutex))
  BY <1>1, TouchWithin, Ranks
<1>3. Within(pending_mutex, With(upper_layer_mutex, Touch(pairs_mutex)))
  BY <1>1, <1>2, WithWithin, Ranks
<1> QED
  BY <1>1, <1>3, WithAscends DEF Within, UrbSections

LEMMA LcbAscends == Ascends(LcbSections)
  BY Mutexes, Ranks, AddLogWithin, WithAscends DEF Within, LcbSections

(* BEB's deliver, inside the two mutexes of the link.                       *)
LEMMA BebDeliverWithin ==
    /\ \A k \in Mutex : Rank(k) < 3 => Within(k, BebDeliver)
    /\ \A s \in BebDeliver : \A k \in s :
            k = pending_mutex \/ \E x \in Link : k = messages_to_send_mutex(x)
<1>1. pending_mutex \in Mutex
  BY Mutexes
<1>2. \A s \in SendOnLinks \cup {{}} :
        s = {} \/ \E l \in Link : s = {messages_to_send_mutex(l)}
  BY SendOnLinksAscends
<1>3. \A l \in Link : messages_to_send_mutex(l) \in Mutex
  BY Mutexes DEF LinkMutex
<1>4. ASSUME NEW k \in Mutex, Rank(k) < 7
      PROVE  Within(k, SendOnLinks \cup {{}})
  <2>1. Above(Rank(k), SendOnLinks \cup {{}})
    BY <1>2, <1>4, Ranks, RankType DEF Above
  <2>2. Ascends(SendOnLinks \cup {{}})
    <3>1. Ascends({{}})
      BY DEF Ascends
    <3> QED
      BY <3>1, SendOnLinksAscends, UnionAscends
  <2> QED
    BY <1>2, <1>3, <2>1, <2>2 DEF Within
<1>5. ASSUME NEW k \in Mutex, Rank(k) < 3
      PROVE  Within(k, BebDeliver)
  <2>1. Rank(k) < 7
    BY <1>5, RankType
  <2>2. Within(k, SendOnLinks \cup {{}})
    BY <1>4, <2>1
  <2>3. Rank(pending_mutex) < 7
    BY Ranks
  <2>4. Within(pending_mutex, SendOnLinks \cup {{}})
    BY <1>1, <1>4, <2>3
  <2> QED
    BY <1>1, <1>5, <2>2, <2>4, WithWithin, Ranks DEF BebDeliver
<1>6. \A s \in BebDeliver : \A k \in s :
        k = pending_mutex \/ \E x \in Link : k = messages_to_send_mutex(x)
  BY <1>2 DEF BebDeliver, With
<1> QED
  BY <1>5, <1>6

LEMMA DeliverAscends == ASSUME NEW l \in Link PROVE Ascends(DeliverSections(l))
<1> DEFINE Message == With(receiver_mutex(l), With(broadcast_mutex(l), BebDeliver))
           OtherAcks == {{}} \cup UNION {Touch(acks_to_send_mutex(x)) : x \in Link \ {l}}
           AckThere == With(link_mutex(l), OtherAcks)
           AckHere == Touch(acks_to_send_mutex(l))
           Acked == Touch(messages_to_send_mutex(l))
<1> USE DEF LinkMutex
<1>1. \A x \in Link : LinkMutex(x) \subseteq Mutex
  BY Mutexes
<1>2. Ascends(Message)
  <2>1. Within(receiver_mutex(l), BebDeliver) /\ Within(broadcast_mutex(l), BebDeliver)
    BY <1>1, BebDeliverWithin, Ranks
  <2>2. Within(receiver_mutex(l), With(broadcast_mutex(l), BebDeliver))
    BY <1>1, <2>1, WithWithin, Ranks
  <2> QED
    BY <1>1, <2>2, WithAscends DEF Within
<1>3. \A s \in OtherAcks : s = {} \/ \E x \in Link \ {l} : s = {acks_to_send_mutex(x)}
  BY DEF Touch, With
<1>4. Ascends(AckThere)
  <2>1. Ascends(OtherAcks)
    <3> SUFFICES ASSUME NEW s \in OtherAcks, NEW x, x \notin s, s \cup {x} \in OtherAcks
                 PROVE  s = {}
      BY DEF Ascends
    <3>1. PICK y \in Link : s \cup {x} = {acks_to_send_mutex(y)}
      BY <1>3
    <3>2. x = acks_to_send_mutex(y)
      BY <3>1
    <3> QED
      BY <3>1, <3>2
  <2>2. \A s \in OtherAcks : s \subseteq Mutex
    BY <1>1, <1>3
  <2>3. Above(Rank(link_mutex(l)), OtherAcks)
    BY <1>3, Ranks DEF Above
  <2> QED
    BY <1>1, <2>1, <2>2, <2>3, WithAscends
<1>5. \A s \in Message :
        /\ s = {} \/ receiver_mutex(l) \in s
        /\ messages_to_send_mutex(l) \in s => broadcast_mutex(l) \in s
        /\ \A k \in s : \/ k \in {receiver_mutex(l), broadcast_mutex(l), pending_mutex}
                        \/ \E x \in Link : k = messages_to_send_mutex(x)
  <2>1. \A x, y : messages_to_send_mutex(x) # receiver_mutex(y)
    BY DEF messages_to_send_mutex, receiver_mutex
  <2> QED
    BY <2>1, BebDeliverWithin DEF With
<1>6. \A s \in AckThere :
        /\ s = {} \/ link_mutex(l) \in s
        /\ \A k \in s : k = link_mutex(l) \/ \E x \in Link \ {l} : k = acks_to_send_mutex(x)
  BY <1>3 DEF With
<1>7. (\A s \in AckHere : s \in {{}, {acks_to_send_mutex(l)}})
        /\ (\A s \in Acked : s \in {{}, {messages_to_send_mutex(l)}})
  BY DEF Touch, With
<1>8. \A x, y : /\ acks_to_send_mutex(x) = acks_to_send_mutex(y) => x = y
               /\ acks_to_send_mutex(x) \notin {receiver_mutex(y), broadcast_mutex(y), pending_mutex,
                                                 link_mutex(y), messages_to_send_mutex(y)}
               /\ link_mutex(x) \notin {receiver_mutex(y), broadcast_mutex(y), pending_mutex,
                                         messages_to_send_mutex(y)}
               /\ receiver_mutex(x) \notin {messages_to_send_mutex(y), broadcast_mutex(y)}
               /\ broadcast_mutex(x) # messages_to_send_mutex(y)
  BY DEF acks_to_send_mutex, receiver_mutex, broadcast_mutex, pending_mutex, link_mutex,
         messages_to_send_mutex
<1> HIDE DEF Message, AckThere, AckHere, Acked, OtherAcks
<1>9. Ascends(Message \cup AckHere)
  <2>1. \A a \in Message, b \in AckHere : a # {} /\ b # {} => \A x : b # a \cup {x} /\ a # b \cup {x}
    BY <1>5, <1>7, <1>8
  <2> QED
    BY <1>2, <2>1, TouchAscends, UnionAscends DEF AckHere
<1>10. Ascends(Message \cup AckHere \cup AckThere)
  <2>1. \A a \in Message \cup AckHere, b \in AckThere :
            a # {} /\ b # {} => \A x : b # a \cup {x} /\ a # b \cup {x}
    BY <1>5, <1>6, <1>7, <1>8
  <2> QED
    BY <1>4, <1>9, <2>1, UnionAscends
<1>11. Ascends(Message \cup AckHere \cup AckThere \cup Acked)
  <2>1. ASSUME NEW a \in Message \cup AckHere \cup AckThere, a # {},
               NEW b \in Acked, b # {}, NEW x
        PROVE  b # a \cup {x} /\ a # b \cup {x}
    <3>1. b = {messages_to_send_mutex(l)}
      BY <1>7, <2>1
    <3>2. CASE a \in Message
      BY <1>5, <1>8, <2>1, <3>1, <3>2
    <3>3. CASE a \in AckHere
      BY <1>7, <1>8, <2>1, <3>1, <3>3
    <3>4. CASE a \in AckThere
      BY <1>6, <1>8, <2>1, <3>1, <3>4
    <3> QED
      BY <3>2, <3>3, <3>4
  <2> QED
    BY <1>10, <2>1, TouchAscends, UnionAscends DEF Acked
<1> QED
  BY <1>11 DEF DeliverSections, Message, AckHere, AckThere, Acked, OtherAcks

(* Every thread, whatever it holds, is about to lock only mutexes of higher *)
(* rank, and comes back to holding none.                                    *)
LEMMA SectionsAscend == \A t \in Everyone : Ascends(Sections[t]) /\ {} \in Sections[t]
<1>1. \A l : /\ Deliverer(l)[1] = "deliver_thread" /\ Deliverer(l)[2] = l
            /\ Sender(l)[1] = "send_thread" /\ Sender(l)[2] = l
            /\ Acker(l)[1] = "ack_thread" /\ Acker(l)[2] = l
  BY DEF Deliverer, Sender, Acker
<1>2. Main[1] = "main" /\ UrbPoller[1] = "urb" /\ LcbPoller[1] = "lcb" /\ Handler[1] = "handler"
  BY DEF Main, UrbPoller, LcbPoller, Handler
<1>3. /\ {} \in MainSections /\ {} \in UrbSections /\ {} \in LcbSections
      /\ \A l : {} \in DeliverSections(l)
      /\ \A k : {} \in Touch(k)
  BY DEF MainSections, UrbSections, LcbSections, DeliverSections, AddLog, Touch, With
<1>4. ASSUME NEW t \in Everyone PROVE Ascends(SectionsOf(t)) /\ {} \in SectionsOf(t)
  <2>1. CASE t \in {Main, UrbPoller, LcbPoller, Handler}
    BY <1>2, <1>3, <2>1, MainAscends, UrbAscends, LcbAscends, TouchAscends DEF SectionsOf
  <2>2. ASSUME NEW l \in Link, t = Deliverer(l)
        PROVE  Ascends(SectionsOf(t)) /\ {} \in SectionsOf(t)
    <3>1. SectionsOf(t) = DeliverSections(l)
      BY <1>1, <1>2, <2>2 DEF SectionsOf
    <3> QED
      BY <1>3, <3>1, DeliverAscends
  <2>3. ASSUME NEW l \in Link, t \in {Sender(l), Acker(l)}
        PROVE  Ascends(SectionsOf(t)) /\ {} \in SectionsOf(t)
    <3>1. SectionsOf(t) \in {Touch(messages_to_send_mutex(l)), Touch(acks_to_send_mutex(l))}
      BY <1>1, <1>2, <2>3 DEF SectionsOf
    <3> QED
      BY <1>3, <3>1, TouchAscends
  <2> QED
    BY <2>1, <2>2, <2>3 DEF Everyone, Thread
<1> QED
  BY <1>4 DEF Sections

-----------------------------------------------------------------------------
(* Each thread holds the mutexes of one of its sections, whatever the       *)
(* number of links.                                                         *)
THEOREM TypeCorrect == Spec => []TypeOK
<1>1. Init => TypeOK
  BY SectionsAscend DEF Init, TypeOK
<1>2. TypeOK /\ [Next]_vars => TypeOK'
  <2> SUFFICES ASSUME TypeOK, [Next]_vars PROVE TypeOK'
    OBVIOUS
  <2>1. \A t \in Everyone : \A s \in Sections[t] : \A k \in Inner[t][s] :
          k \in Mutex /\ s \cup {k} \in Sections[t]
    BY DEF Inner
  <2>2. ASSUME NEW t \in Everyone, NEW k \in Wanted(t), Lock(t, k)
        PROVE  TypeOK'
    <3>1. k \in Mutex /\ held[t] \cup {k} \in Sections[t]
      BY <2>1 DEF TypeOK, Wanted
    <3> QED
      BY <2>2, <3>1 DEF Lock, TypeOK
  <2>3. ASSUME NEW t \in Everyone, NEW k \in held[t], Unlock(t, k)
        PROVE  TypeOK'
    BY <2>3 DEF Unlock, TypeOK
  <2>4. ASSUME NEW t \in Thread, stop(t)
        PROVE  TypeOK'
    BY <2>4 DEF stop, TypeOK
  <2>5. CASE writeOutput \/ UNCHANGED vars
    BY <2>5 DEF writeOutput, TypeOK, vars
  <2> QED
    BY <2>2, <2>3, <2>4, <2>5 DEF Next
<1> QED
  BY <1>1, <1>2, PTL DEF Spec

(* Among the threads of a process that runs, whatever its number of links,  *)
(* no circle of waits can close, but for the handler's wait for the thread  *)
(* it has interrupted inside the log.                                       *)
THEOREM NoCircularWaitCorrect == Spec => []NoCircularWait
<1>1. TypeOK => NoCircularWait
  <2> SUFFICES ASSUME TypeOK, NEW waiting \in SUBSET Everyone, Deadlocked(waiting)
               PROVE  \E t \in interrupted : log_mutex \in held[t]
    BY DEF NoCircularWait, MayWait
  <2> DEFINE Waits(t, u, k) == k \in Wanted(t) /\ k \in held[u]
  <2>1. \A t \in Everyone : \A k \in Wanted(t) : \A h \in held[t] :
          Rank(h) < Rank(k) /\ Rank(h) \in 1..7 /\ Rank(k) \in 1..7
    <3> SUFFICES ASSUME NEW t \in Everyone, NEW k \in Wanted(t), NEW h \in held[t]
                 PROVE  Rank(h) < Rank(k) /\ Rank(h) \in 1..7 /\ Rank(k) \in 1..7
      OBVIOUS
    <3>1. held[t] \in Sections[t] /\ held[t] \subseteq Mutex
      BY DEF TypeOK
    <3>2. k \in Mutex /\ k \notin held[t] /\ held[t] \cup {k} \in Sections[t]
      BY <3>1 DEF Wanted, Inner
    <3> QED
      BY <3>1, <3>2, SectionsAscend, RankType DEF Ascends
  <2>2. CASE Handler \in waiting
    <3>1. Handler \notin Thread
      BY DEF Handler, Thread, Main, UrbPoller, LcbPoller, Deliverer, Sender, Acker
    <3>2. PICK u \in waiting : Wanted(Handler) \cap held[u] # {}
      BY <2>2, <3>1 DEF Deadlocked, WaitsFor, TypeOK
    <3>3. Wanted(Handler) \subseteq {log_mutex}
      <4>1. Handler[1] = "handler" /\ Main[1] = "main" /\ UrbPoller[1] = "urb" /\ LcbPoller[1] = "lcb"
        BY DEF Handler, Main, UrbPoller, LcbPoller
      <4>2. SectionsOf(Handler) = Touch(log_mutex)
        BY <4>1 DEF SectionsOf
      <4>3. Handler \in Everyone
        BY DEF Everyone
      <4>4. Sections[Handler] = Touch(log_mutex)
        BY <4>2, <4>3 DEF Sections
      <4>5. held[Handler] \in Sections[Handler]
        BY <4>3 DEF TypeOK
      <4> QED
        BY <4>3, <4>4, <4>5 DEF Wanted, Inner, Touch, With
    <3>4. log_mutex \in held[u]
      BY <3>2, <3>3
    <3>5. Wanted(u) = {}
      <4>1. \A k \in Wanted(u) : 7 < Rank(k) /\ Rank(k) \in 1..7
        BY <2>1, <3>4, Ranks
      <4> QED
        BY <4>1
    <3>6. u \in interrupted
      BY <3>5 DEF Deadlocked, WaitsFor
    <3> QED
      BY <3>4, <3>6
  <2>3. CASE Handler \notin waiting
    <3> DEFINE Reaches(n) == \E t, u \in waiting : \E k : Waits(t, u, k) /\ Rank(k) >= n
    <3>1. \A t \in waiting : \E u \in waiting : \E k : Waits(t, u, k)
      BY <2>3 DEF Deadlocked, WaitsFor
    <3>2. \A t, u \in waiting : \A k : Waits(t, u, k) => Rank(k) \in 1..7
      <4> SUFFICES ASSUME NEW t \in waiting, NEW u \in waiting, NEW k, Waits(t, u, k)
                   PROVE  Rank(k) \in 1..7
        OBVIOUS
      <4>1. k \in Mutex
        BY DEF TypeOK
      <4> QED
        BY <4>1, RankType
    <3>3. Reaches(1)
      <4>1. PICK t \in waiting : TRUE
        BY DEF Deadlocked
      <4> QED
        BY <3>1, <3>2, <4>1
    <3>4. ASSUME NEW n \in 1..7, Reaches(n) PROVE Reaches(n + 1)
      <4>1. PICK t \in waiting, u \in waiting : \E k : Waits(t, u, k) /\ Rank(k) >= n
        BY <3>4
      <4>2. PICK k : Waits(t, u, k) /\ Rank(k) >= n
        BY <4>1
      <4>3. PICK v \in waiting : \E j : Waits(u, v, j)
        BY <3>1
      <4>4. PICK j : Waits(u, v, j)
        BY <4>3
      <4>5. Rank(k) < Rank(j) /\ Rank(k) \in 1..7 /\ Rank(j) \in 1..7
        BY <2>1, <4>2, <4>4
      <4>6. Rank(j) >= n + 1
        BY <4>2, <4>5
      <4> QED
        BY <4>4, <4>6
    <3>5. ~Reaches(8)
      BY <3>2
    <3> HIDE DEF Reaches
    <3>6. Reaches(2) /\ Reaches(3) /\ Reaches(4)
      <4>1. Reaches(2)
        BY <3>3, <3>4
      <4>2. Reaches(3)
        BY <3>4, <4>1
      <4> QED
        BY <3>4, <4>1, <4>2
    <3>7. Reaches(5)
      BY <3>4, <3>6
    <3>8. Reaches(6)
      BY <3>4, <3>7
    <3>9. Reaches(7)
      BY <3>4, <3>8
    <3> QED
      BY <3>4, <3>5, <3>9
  <2> QED
    BY <2>2, <2>3
<1> QED
  BY <1>1, TypeCorrect, PTL

=============================================================================
