------------------------- MODULE WebTransportProofs -------------------------
(***************************************************************************)
(* The WebTransport registry keeps to max_sessions, and the one queue that *)
(* all sessions share loses, repeats and reorders no datagram of a         *)
(* session, for any number of sessions and datagrams.                      *)
(***************************************************************************)
EXTENDS WebTransport, SequenceTheorems, TLAPS

Ordered(a) ==
  \A i, j \in DOMAIN a : i < j /\ a[i].session = a[j].session => a[i].num < a[j].num

(* The numbers that the datagrams of h have in a. *)
Mine(a, h) == {a[i].num : i \in {k \in DOMAIN a : a[k].session = h}}

Counted(h) == queued[h] - (IF h \in busy THEN 1 ELSE 0)

(* A push under way has counted its datagram. *)
PushIsCounted == \A h \in Handles : h \in busy => queued[h] > 0

QueueInv == TypeOK /\ PushIsCounted /\ DatagramsInOrder

LEMMA InOrderIs ==
  DatagramsInOrder <=>
    /\ Ordered(drained \o datagrams)
    /\ \A h \in Handles : Mine(drained \o datagrams, h) = 1 .. Counted(h)
BY DEF DatagramsInOrder, Ordered, Mine, Counted

(* The next datagram of h at the end of the queue. *)
LEMMA Grows ==
  ASSUME NEW a \in Seq(DatagramRecords), NEW h \in Handles, NEW n \in 1 .. MaxDatagrams,
         Ordered(a), Mine(a, h) = 1 .. n - 1
  PROVE  LET b == Append(a, [session |-> h, num |-> n]) IN
         Ordered(b) /\ Mine(b, h) = 1 .. n /\ \A g \in Handles \ {h} : Mine(b, g) = Mine(a, g)
<1> DEFINE e == [session |-> h, num |-> n]
           b == Append(a, e)
           l == Len(a)
<1>1. e \in DatagramRecords /\ e.session = h /\ e.num = n
  BY DEF DatagramRecords
<1>2. n \in Nat \ {0}
  BY WebTransportAssumption
<1> HIDE DEF e
<1>3. /\ l \in Nat /\ DOMAIN a = 1 .. l /\ DOMAIN b = 1 .. l + 1
      /\ b[l + 1] = e /\ \A i \in 1 .. l : b[i] = a[i]
  BY <1>1
<1> HIDE DEF b, l
<1>4. \A i \in 1 .. l : a[i].session = h => a[i].num < n
  <2> SUFFICES ASSUME NEW i \in 1 .. l, a[i].session = h PROVE a[i].num < n
    OBVIOUS
  <2>1. a[i].num \in Mine(a, h)
    BY <1>3 DEF Mine
  <2> QED BY <1>2, <2>1
<1>5. Ordered(b)
  <2> SUFFICES ASSUME NEW i \in DOMAIN b, NEW j \in DOMAIN b, i < j, b[i].session = b[j].session
               PROVE  b[i].num < b[j].num
    BY DEF Ordered
  <2>1. i \in 1 .. l
    BY <1>3
  <2>2. CASE j = l + 1
    <3>1. b[i] = a[i] /\ b[j] = e
      BY <1>3, <2>1, <2>2
    <3> QED BY <1>1, <1>4, <2>1, <3>1
  <2>3. CASE j \in 1 .. l
    <3>1. b[i] = a[i] /\ b[j] = a[j]
      BY <1>3, <2>1, <2>3
    <3> QED BY <1>3, <2>1, <2>3, <3>1 DEF Ordered
  <2> QED BY <1>3, <2>2, <2>3
<1>6. ASSUME NEW g PROVE Mine(b, g) = Mine(a, g) \cup (IF g = h THEN {n} ELSE {})
  <2>1. ASSUME NEW x \in Mine(b, g) PROVE x \in Mine(a, g) \cup (IF g = h THEN {n} ELSE {})
    <3>1. PICK i \in DOMAIN b : b[i].session = g /\ x = b[i].num
      BY <2>1 DEF Mine
    <3>2. CASE i = l + 1
      <4>1. g = h /\ x = n
        BY <1>1, <1>3, <3>1, <3>2
      <4> QED BY <4>1
    <3>3. CASE i \in 1 .. l
      <4>1. i \in DOMAIN a /\ a[i].session = g /\ x = a[i].num
        BY <1>3, <3>1, <3>3
      <4> QED BY <4>1 DEF Mine
    <3> QED BY <1>3, <3>2, <3>3
  <2>2. ASSUME NEW x \in Mine(a, g) PROVE x \in Mine(b, g)
    <3>1. PICK i \in DOMAIN a : a[i].session = g /\ x = a[i].num
      BY <2>2 DEF Mine
    <3>2. i \in DOMAIN b /\ b[i].session = g /\ x = b[i].num
      BY <1>3, <3>1
    <3> QED BY <3>2 DEF Mine
  <2>3. ASSUME g = h PROVE n \in Mine(b, g)
    <3>1. l + 1 \in DOMAIN b /\ b[l + 1].session = g /\ b[l + 1].num = n
      BY <1>1, <1>3, <2>3
    <3> QED BY <3>1 DEF Mine
  <2> QED BY <2>1, <2>2, <2>3
<1>7. Mine(b, h) = 1 .. n
  <2>1. Mine(b, h) = (1 .. n - 1) \cup {n}
    BY <1>6
  <2>2. (1 .. n - 1) \cup {n} = 1 .. n
    BY <1>2
  <2> QED BY <2>1, <2>2
<1>8. \A g \in Handles \ {h} : Mine(b, g) = Mine(a, g)
  BY <1>6
<1> QED
  BY <1>5, <1>7, <1>8 DEF b, e

(* Moving a beginning of b to the end of a changes nothing of the two      *)
(* together.                                                               *)
LEMMA Moved ==
  ASSUME NEW R, NEW a \in Seq(R), NEW b \in Seq(R), NEW k \in 0 .. Len(b)
  PROVE  LET front == SubSeq(b, 1, k)
             rest  == SubSeq(b, k + 1, Len(b))
         IN  a \o front \in Seq(R) /\ rest \in Seq(R) /\ (a \o front) \o rest = a \o b
<1> DEFINE front == SubSeq(b, 1, k)
           rest  == SubSeq(b, k + 1, Len(b))
<1>1. Len(b) \in Nat /\ \A i \in 1 .. Len(b) : b[i] \in R
  BY ElementOfSeq
<1>2. front \in Seq(R)
  <2>1. 1 \in Int /\ k \in Int /\ \A i \in 1 .. k : b[i] \in R
    BY <1>1
  <2> QED BY <2>1, SubSeqProperties
<1>3. rest \in Seq(R)
  <2>1. k + 1 \in Int /\ Len(b) \in Int /\ \A i \in k + 1 .. Len(b) : b[i] \in R
    BY <1>1
  <2> QED BY <2>1, SubSeqProperties
<1>4. front \o rest = b
  <2>1. 1 \in 1 .. Len(b) + 1 /\ k \in 1 - 1 .. Len(b) /\ Len(b) \in k .. Len(b)
    BY <1>1
  <2>2. front \o rest = SubSeq(b, 1, Len(b))
    BY <2>1, ConcatAdjacentSubSeq
  <2> QED BY <2>2, SubSeqFull
<1> HIDE DEF front, rest
<1>5. (a \o front) \o rest = a \o (front \o rest)
  BY <1>2, <1>3, ConcatAssociative
<1>6. a \o front \in Seq(R)
  BY <1>2, ConcatProperties
<1> QED
  BY <1>3, <1>4, <1>5, <1>6 DEF front, rest

LEMMA QueueInit == Init => QueueInv
<1> SUFFICES ASSUME Init PROVE QueueInv
  OBVIOUS
<1> USE WebTransportAssumption
<1>1. TypeOK
  <2>1. << >> \in Seq(DatagramRecords)
    OBVIOUS
  <2> QED BY <2>1 DEF Init, TypeOK, Handles
<1>2. PushIsCounted
  BY DEF Init, PushIsCounted
<1>3. drained \o datagrams = << >>
  BY DEF Init
<1>4. \A h \in Handles : Counted(h) = 0
  BY DEF Init, Counted
<1>5. Ordered(<< >>) /\ \A h : Mine(<< >>, h) = 1 .. 0
  BY DEF Ordered, Mine
<1> QED
  BY <1>1, <1>2, <1>3, <1>4, <1>5, InOrderIs DEF QueueInv

(* What neither queues nor pushes a datagram leaves the order alone. *)
LEMMA OrderUntouched ==
  ASSUME QueueInv, TypeOK', UNCHANGED <<queued, drained, datagrams>>,
         busy' = busy
  PROVE  QueueInv'
<1>1. PushIsCounted'
  BY DEF QueueInv, PushIsCounted
<1>2. DatagramsInOrder'
  BY ZenonT(60) DEF QueueInv, DatagramsInOrder
<1> QED
  BY <1>1, <1>2 DEF QueueInv

LEMMA QueueStep == QueueInv /\ [Next]_vars => QueueInv'
<1> SUFFICES ASSUME QueueInv, [Next]_vars PROVE QueueInv'
  OBVIOUS
<1> USE WebTransportAssumption
<1>0. TypeOK /\ PushIsCounted /\ DatagramsInOrder
  BY DEF QueueInv
<1>a. /\ Ordered(drained \o datagrams)
      /\ \A h \in Handles : Mine(drained \o datagrams, h) = 1 .. Counted(h)
  BY <1>0, InOrderIs
<1>b. datagrams \in Seq(DatagramRecords) /\ drained \in Seq(DatagramRecords)
  BY <1>0 DEF TypeOK
<1>1. ASSUME NEW e \in BOOLEAN, NEW max \in 0 .. MaxSessions, CreateSession(e, max)
      PROVE  QueueInv'
  <2>1. TypeOK'
    BY <1>0, <1>1 DEF CreateSession, TypeOK, Handles
  <2> QED BY <1>1, <2>1, OrderUntouched DEF CreateSession
<1>2. ASSUME NEW h \in Handles, QueueDatagram(h) PROVE QueueInv'
  <2>1. /\ h \notin busy /\ queued[h] < MaxDatagrams
        /\ queued' = [queued EXCEPT ![h] = queued[h] + 1]
        /\ busy' = busy \cup {h}
        /\ drained' = drained /\ datagrams' = datagrams
    BY <1>2 DEF QueueDatagram, Idle
  <2>2. TypeOK'
    BY <1>0, <1>2 DEF QueueDatagram, sessionVars, TypeOK
  <2>3. queued \in [Handles -> Nat] /\ busy \subseteq Handles
    BY <1>0 DEF TypeOK
  <2>4. PushIsCounted'
    BY <1>0, <2>1, <2>3 DEF PushIsCounted
  <2>5. \A g \in Handles : Counted(g)' = Counted(g)
    BY <2>1, <2>3 DEF Counted
  <2>6. DatagramsInOrder'
    <3>1. \A g \in Handles : Mine(drained' \o datagrams', g) = 1 .. Counted(g)'
      BY <1>a, <2>1, <2>5
    <3>2. Ordered(drained' \o datagrams')
      BY <1>a, <2>1
    <3> QED BY <3>1, <3>2 DEF DatagramsInOrder, Ordered, Mine, Counted
  <2> QED BY <2>2, <2>4, <2>6 DEF QueueInv
<1>3. ASSUME NEW h \in Handles, PushDatagram(h) PROVE QueueInv'
  <2>0. PICK n : n = queued[h]
    OBVIOUS
  <2> DEFINE e == [session |-> h, num |-> n]
  <2>1. /\ h \in busy /\ datagrams' = Append(datagrams, e)
        /\ busy' = busy \ {h}
        /\ drained' = drained /\ queued' = queued
        /\ UNCHANGED <<sessions, live, enabled>>
    BY <1>3, <2>0 DEF PushDatagram, sessionVars
  <2>2. queued \in [Handles -> 0 .. MaxDatagrams]
        /\ busy \subseteq Handles
    BY <1>0 DEF TypeOK
  <2>3. n \in 1 .. MaxDatagrams
    BY <1>0, <2>0, <2>1, <2>2 DEF PushIsCounted
  <2>4. e \in DatagramRecords
    BY <2>3 DEF DatagramRecords
  <2>5. datagrams' \in Seq(DatagramRecords)
    BY <1>b, <2>1, <2>4, AppendProperties
  <2>6. TypeOK'
    BY <1>0, <1>b, <2>1, <2>2, <2>5 DEF TypeOK
  <2>7. PushIsCounted'
    BY <1>0, <2>1, <2>2 DEF PushIsCounted
  <2>8. Counted(h) = n - 1 /\ Counted(h)' = n
        /\ \A g \in Handles \ {h} : Counted(g)' = Counted(g)
    BY <2>0, <2>1, <2>2, <2>3 DEF Counted
  <2>9. drained' \o datagrams' = Append(drained \o datagrams, e)
    <3> HIDE DEF e
    <3>1. datagrams' = datagrams \o <<e>>
      BY <1>b, <2>1, <2>4, AppendIsConcat
    <3>2. <<e>> \in Seq(DatagramRecords) /\ drained \o datagrams \in Seq(DatagramRecords)
      BY <1>b, <2>4, ConcatProperties
    <3>3. (drained \o datagrams) \o <<e>> = drained \o (datagrams \o <<e>>)
      BY SMTT(60), <1>b, <3>2, ConcatAssociative
    <3>4. Append(drained \o datagrams, e) = (drained \o datagrams) \o <<e>>
      BY <2>4, <3>2, AppendIsConcat
    <3> QED BY <2>1, <3>1, <3>3, <3>4
  <2>10. PICK a : a = drained \o datagrams
    OBVIOUS
  <2>11. a \in Seq(DatagramRecords)
    BY <1>b, <2>10, ConcatProperties
  <2>12. Ordered(a) /\ Mine(a, h) = 1 .. n - 1 /\ \A g \in Handles : Mine(a, g) = 1 .. Counted(g)
    BY <1>a, <2>8, <2>10
  <2>13. /\ Ordered(Append(a, e)) /\ Mine(Append(a, e), h) = 1 .. n
         /\ \A g \in Handles \ {h} : Mine(Append(a, e), g) = Mine(a, g)
    BY <2>3, <2>11, <2>12, Grows
  <2>14. DatagramsInOrder'
    <3>1. \A g \in Handles : Mine(drained' \o datagrams', g) = 1 .. Counted(g)'
      BY <2>8, <2>9, <2>10, <2>12, <2>13
    <3>2. Ordered(drained' \o datagrams')
      BY <2>9, <2>10, <2>13
    <3> QED BY <3>1, <3>2 DEF DatagramsInOrder, Ordered, Mine, Counted
  <2> QED BY <2>6, <2>7, <2>14 DEF QueueInv
<1>4. ASSUME NEW h \in Handles, CloseSession(h) PROVE QueueInv'
  <2>1. TypeOK'
    BY <1>0, <1>4 DEF CloseSession, TypeOK
  <2> QED BY <1>4, <2>1, OrderUntouched DEF CloseSession
<1>5. ASSUME NEW n \in 1 .. MaxDatagrams, DrainDatagrams(n) PROVE QueueInv'
  <2> DEFINE k == IF n < Len(datagrams) THEN n ELSE Len(datagrams)
  <2>1. /\ drained' = drained \o SubSeq(datagrams, 1, k)
        /\ datagrams' = SubSeq(datagrams, k + 1, Len(datagrams))
        /\ UNCHANGED <<sessions, live, enabled, queued, busy>>
    BY <1>5 DEF DrainDatagrams, sessionVars
  <2>2. k \in 0 .. Len(datagrams)
    BY <1>b
  <2> HIDE DEF k
  <2>3. /\ drained' \in Seq(DatagramRecords) /\ datagrams' \in Seq(DatagramRecords)
        /\ drained' \o datagrams' = drained \o datagrams
    BY ZenonT(60), <1>b, <2>1, <2>2, Moved
  <2>4. TypeOK'
    BY <1>0, <2>1, <2>3 DEF TypeOK
  <2>5. PushIsCounted'
    BY <1>0, <2>1 DEF PushIsCounted
  <2>6. DatagramsInOrder'
    <3>1. \A g \in Handles : Mine(drained' \o datagrams', g) = 1 .. Counted(g)'
      BY <1>a, <2>1, <2>3 DEF Counted
    <3>2. Ordered(drained' \o datagrams')
      BY <1>a, <2>3
    <3> QED BY <3>1, <3>2 DEF DatagramsInOrder, Ordered, Mine, Counted
  <2> QED BY <2>4, <2>5, <2>6 DEF QueueInv
<1>6. CASE UNCHANGED vars
  <2>1. TypeOK'
    BY <1>0, <1>6 DEF vars, TypeOK
  <2> QED BY <1>6, <2>1, OrderUntouched DEF vars
<1> QED
  BY <1>1, <1>2, <1>3, <1>4, <1>5, <1>6 DEF Next

(* The registry never holds more than max_sessions, and its counters and   *)
(* queues stay what they are.                                              *)
THEOREM RegistryIsTyped == Spec => []TypeOK
<1>1. QueueInv => TypeOK
  BY DEF QueueInv
<1> QED
  BY <1>1, QueueInit, QueueStep, PTL DEF Spec

(* The reader is given each session's datagrams in order, each once, and   *)
(* none that queue_datagram counted is missing but the one whose push is   *)
(* under way.                                                              *)
THEOREM DatagramsStayInOrder == Spec => []DatagramsInOrder
<1>1. QueueInv => DatagramsInOrder
  BY DEF QueueInv
<1> QED
  BY <1>1, QueueInit, QueueStep, PTL DEF Spec
=============================================================================
