--------------------------- MODULE BodyRingProofs ---------------------------
(***************************************************************************)
(* Proofs about BodyRing, for every capacity and every body length.        *)
(***************************************************************************)
EXTENDS BodyRing, TLAPS

-----------------------------------------------------------------------------
(* Lemmas on the index arithmetic of the descriptor. *)

(* An index is a slot, and it is what is left of the cursor after a whole  *)
(* number of laps of the buffer.                                           *)
LEMMA IndexLaps ==
  ASSUME NEW p \in Nat
  PROVE  /\ Index(p) \in 0 .. Capacity - 1
         /\ \E q \in Nat : p = Capacity * q + Index(p)
<1>1. p \div Capacity \in Nat /\ p = Capacity * (p \div Capacity) + (p % Capacity)
  BY CapacityAssumption, SMT
<1>2. p % Capacity \in 0 .. Capacity - 1
  BY CapacityAssumption, SMT
<1> QED
  BY <1>1, <1>2 DEF Index

(* A lap count is determined by the cursor. *)
LEMMA IndexUnique ==
  ASSUME NEW p \in Nat, NEW q \in Nat, NEW r \in 0 .. Capacity - 1,
         p = Capacity * q + r
  PROVE  Index(p) = r
<1>1. Index(p) \in 0 .. Capacity - 1
  BY IndexLaps
<1>2. PICK l \in Nat : p = Capacity * l + Index(p)
  BY IndexLaps
<1>3. Capacity * l + Index(p) = Capacity * q + r
  BY <1>2
<1>4. CASE l = q
  BY <1>1, <1>3, <1>4, CapacityAssumption, SMT
<1>5. CASE l < q
  <2>1. Capacity * q >= Capacity * l + Capacity
    BY <1>5, CapacityAssumption, SMT
  <2> QED
    BY <2>1, <1>1, <1>3, CapacityAssumption, SMT
<1>6. CASE q < l
  <2>1. Capacity * l >= Capacity * q + Capacity
    BY <1>6, CapacityAssumption, SMT
  <2> QED
    BY <2>1, <1>1, <1>3, CapacityAssumption, SMT
<1> QED
  BY <1>4, <1>5, <1>6

(* Two cursors less than a lap apart fall in different slots. *)
LEMMA IndexInjective ==
  ASSUME NEW p \in Nat, NEW q \in Nat, p < q, q - p < Capacity
  PROVE  Index(p) # Index(q)
<1> SUFFICES ASSUME Index(p) = Index(q)
             PROVE  FALSE
  OBVIOUS
<1>1. PICK a \in Nat : p = Capacity * a + Index(p)
  BY IndexLaps
<1>2. PICK b \in Nat : q = Capacity * b + Index(q)
  BY IndexLaps
<1>3. Index(p) \in 0 .. Capacity - 1
  BY IndexLaps
<1>4. Capacity * a < Capacity * b /\ Capacity * b - Capacity * a < Capacity
  BY <1>1, <1>2, <1>3, CapacityAssumption, SMT
<1>5. CASE b >= a + 1
  <2>1. Capacity * b >= Capacity * a + Capacity
    BY <1>5, CapacityAssumption, SMT
  <2> QED
    BY <2>1, <1>4, CapacityAssumption, SMT
<1>6. CASE b <= a
  <2>1. Capacity * b <= Capacity * a
    BY <1>6, CapacityAssumption, SMT
  <2> QED
    BY <2>1, <1>4, CapacityAssumption, SMT
<1> QED
  BY <1>5, <1>6

(* The slices net_read and getWriteBuffers compute are exactly the free    *)
(* part of the ring, in cursor order.                                      *)
LEMMA SlicesAreFreeSpace ==
  ASSUME NEW h \in Nat, NEW t \in Nat, t <= h, h - t < Capacity
  PROVE  /\ WriteLen(h, t) = Capacity - (h - t)
         /\ \A i \in 0 .. WriteLen(h, t) - 1 :
              WriteSlot(h, t, i) = Index(h + i)
<1>1. PICK a \in Nat : h = Capacity * a + Index(h)
  BY IndexLaps
<1>2. PICK b \in Nat : t = Capacity * b + Index(t)
  BY IndexLaps
<1>3. Index(h) \in 0 .. Capacity - 1 /\ Index(t) \in 0 .. Capacity - 1
  BY IndexLaps
<1>4. a = b \/ a = b + 1
  <2>1. CASE a < b
    <3>1. Capacity * b >= Capacity * a + Capacity
      BY <2>1, CapacityAssumption, SMT
    <3> QED
      BY <3>1, <1>1, <1>2, <1>3, CapacityAssumption, SMT
  <2>2. CASE a >= b + 2
    <3>1. Capacity * a >= Capacity * b + Capacity + Capacity
      BY <2>2, CapacityAssumption, SMT
    <3> QED
      BY <3>1, <1>1, <1>2, <1>3, CapacityAssumption, SMT
  <2> QED
    BY <2>1, <2>2
<1>5. Capacity * (b + 1) = Capacity * b + Capacity
  BY CapacityAssumption, SMT
<1>6. WriteLen(h, t) = Capacity - (h - t)
  <2>1. CASE a = b
    <3>1. Capacity * a = Capacity * b
      BY <2>1
    <3>2. h - t = Index(h) - Index(t)
      BY <3>1, <1>1, <1>2, <1>3, CapacityAssumption, SMT
    <3> QED
      BY <3>2, <1>3, CapacityAssumption, SMT DEF WriteLen
  <2>2. CASE a = b + 1
    <3>1. h - t = Capacity + Index(h) - Index(t)
      BY <2>2, <1>5, <1>1, <1>2, <1>3, CapacityAssumption, SMT
    <3> QED
      BY <3>1, <1>3, CapacityAssumption, SMT DEF WriteLen
  <2> QED
    BY <1>4, <2>1, <2>2
<1>7. ASSUME NEW i \in 0 .. WriteLen(h, t) - 1
      PROVE  WriteSlot(h, t, i) = Index(h + i)
  <2>1. i \in Nat /\ i < Capacity /\ h + i \in Nat
    BY <1>6, CapacityAssumption, SMT
  <2>2. CASE i < Capacity - Index(h)
    <3>0. Capacity * a \in Nat
      BY CapacityAssumption, SMT
    <3>1. h + i = Capacity * a + (Index(h) + i)
      BY <3>0, <1>1, <1>3, <2>1, SMT
    <3>2. Index(h) + i \in 0 .. Capacity - 1
      BY <2>2, <2>1, <1>3, CapacityAssumption, SMT
    <3>3. Index(h + i) = Index(h) + i
      BY <3>1, <3>2, <2>1, IndexUnique
    <3> QED
      BY <3>3, <2>2, <1>3, <2>1, CapacityAssumption, SMT DEF WriteSlot
  <2>3. CASE i >= Capacity - Index(h)
    <3>1. Index(h) >= Index(t)
      BY <2>3, <1>3, <1>6, CapacityAssumption, SMT DEF WriteLen
    <3>2. Capacity * (a + 1) = Capacity * a + Capacity
      BY CapacityAssumption, SMT
    <3>3. h + i = Capacity * (a + 1) + (i - (Capacity - Index(h)))
      BY <3>2, <1>1, <1>3, <2>1, CapacityAssumption, SMT
    <3>4. i - (Capacity - Index(h)) \in 0 .. Capacity - 1
      BY <2>3, <2>1, <1>3, CapacityAssumption, SMT
    <3>5. Index(h + i) = i - (Capacity - Index(h))
      BY <3>3, <3>4, <2>1, IndexUnique
    <3> QED
      BY <3>5, <3>1, <2>3 DEF WriteSlot
  <2> QED
    BY <2>1, <2>2, <2>3, <1>3, CapacityAssumption, SMT
<1> QED
  BY <1>6, <1>7

-----------------------------------------------------------------------------
(* The inductive invariant. *)

LEMMA RingInit == Init => RingInv
<1> SUFFICES ASSUME Init PROVE RingInv
  OBVIOUS
<1>1. TypeOK
  BY CapacityAssumption, MaxBytesAssumption, SMT
     DEF Init, TypeOK, Slots, Bytes, NoByte
<1>2. CursorsInOrder /\ ProducerWindow /\ ConsumerWindow
  BY CapacityAssumption, SMT
     DEF Init, CursorsInOrder, ProducerWindow, ConsumerWindow
<1>3. UnreleasedIntact /\ FilledIntact
  BY SMT DEF Init, UnreleasedIntact, FilledIntact
<1>4. ReceivedInOrder
  BY SMT DEF Init, ReceivedInOrder
<1> QED
  BY <1>1, <1>2, <1>3, <1>4 DEF RingInv

(* A slot the producer may write holds no byte the consumer has yet to     *)
(* release, and none of those it filled before.                            *)
LEMMA FillSlotIsFresh ==
  ASSUME RingInv, ppc = "fill", pk < pn
  PROVE  /\ WriteSlot(phead, ptail, pk) = Index(head + pk)
         /\ Index(head + pk) \in Slots
         /\ \A p \in tail .. head + pk - 1 : Index(p) # Index(head + pk)
<1>1. /\ head \in Nat /\ tail \in Nat /\ ptail \in Nat /\ pk \in Nat /\ pn \in Nat
      /\ phead = head /\ ptail <= tail /\ tail <= head
      /\ head - ptail < Capacity /\ pn <= Capacity - (head - ptail)
  BY SMT DEF RingInv, TypeOK, ProducerWindow, CursorsInOrder
<1>2. WriteLen(head, ptail) = Capacity - (head - ptail)
  BY <1>1, SlicesAreFreeSpace
<1>3. pk \in 0 .. WriteLen(head, ptail) - 1
  BY <1>1, <1>2, CapacityAssumption, SMT
<1>4. WriteSlot(head, ptail, pk) = Index(head + pk)
  BY <1>1, <1>3, SlicesAreFreeSpace
<1>5. head + pk \in Nat
  BY <1>1
<1>6. ASSUME NEW p \in tail .. head + pk - 1
      PROVE  Index(p) # Index(head + pk)
  <2>1. p \in Nat /\ p < head + pk /\ (head + pk) - p < Capacity
    BY <1>1, CapacityAssumption, SMT
  <2> QED
    BY <2>1, <1>5, IndexInjective
<1> QED
  BY <1>1, <1>4, <1>5, <1>6, IndexLaps DEF Slots

LEMMA RingStep == RingInv /\ [Next]_vars => RingInv'
<1> SUFFICES ASSUME RingInv, [Next]_vars
             PROVE  RingInv'
  OBVIOUS
<1> USE CapacityAssumption, MaxBytesAssumption
<1>1. ASSUME NEW n \in 1 .. Capacity, Reserve(n)
      PROVE  RingInv'
  <2>1. WriteLen(head, tail) = Capacity - (head - tail)
    <3>1. /\ head \in Nat /\ tail \in Nat /\ tail <= head /\ head - tail < Capacity
      BY <1>1, SMT DEF Reserve, RingInv, TypeOK, CursorsInOrder, AvailableRead
    <3> QED
      BY <3>1, SlicesAreFreeSpace
  <2>2. TypeOK'
    BY <1>1, SMT DEF Reserve, RingInv, TypeOK, consumerVars
  <2>3. CursorsInOrder' /\ ConsumerWindow' /\ UnreleasedIntact' /\ ReceivedInOrder'
    BY <1>1 DEF Reserve, RingInv, CursorsInOrder, ConsumerWindow,
                UnreleasedIntact, ReceivedInOrder, consumerVars
  <2>4. ProducerWindow'
    BY <1>1, <2>1, SMT
       DEF Reserve, RingInv, TypeOK, CursorsInOrder, ProducerWindow, AvailableRead
  <2>5. FilledIntact'
    BY <1>1, SMT DEF Reserve, FilledIntact
  <2> QED
    BY <2>2, <2>3, <2>4, <2>5 DEF RingInv
<1>2. ASSUME Fill
      PROVE  RingInv'
  <2>1. /\ WriteSlot(phead, ptail, pk) = Index(head + pk)
        /\ Index(head + pk) \in Slots
        /\ \A p \in tail .. head + pk - 1 : Index(p) # Index(head + pk)
    BY <1>2, FillSlotIsFresh DEF Fill
  <2>2. /\ phead = head /\ head \in Nat /\ tail \in Nat /\ pk \in Nat /\ pn \in Nat
        /\ tail <= head /\ head + pn <= MaxBytes /\ pk < pn /\ pn <= Capacity
    BY <1>2, SMT DEF Fill, RingInv, TypeOK, ProducerWindow, CursorsInOrder
  <2>3. buf' = [buf EXCEPT ![Index(head + pk)] = head + pk]
    BY <1>2, <2>1, <2>2 DEF Fill
  <2>4. TypeOK'
    <3>1. head + pk \in Bytes
      BY <2>2, SMT DEF Bytes
    <3>2. buf' \in [Slots -> Bytes]
      BY <3>1, <2>1, <2>3 DEF RingInv, TypeOK
    <3> QED
      BY <1>2, <3>2, <2>2, SMT DEF Fill, RingInv, TypeOK, consumerVars
  <2>5. CursorsInOrder' /\ ConsumerWindow' /\ ReceivedInOrder'
    BY <1>2 DEF Fill, RingInv, CursorsInOrder, ConsumerWindow,
                ReceivedInOrder, consumerVars
  <2>6. ProducerWindow'
    BY <1>2, <2>2, SMT DEF Fill, RingInv, ProducerWindow
  <2>7. ASSUME NEW p \in tail .. head + pk - 1
        PROVE  buf'[Index(p)] = buf[Index(p)]
    <3>1. p \in Nat
      BY <2>2, SMT
    <3>2. Index(p) \in Slots
      BY <3>1, IndexLaps DEF Slots
    <3> QED
      BY <3>2, <2>1, <2>3 DEF RingInv, TypeOK
  <2>8. UnreleasedIntact'
    <3> SUFFICES ASSUME NEW p \in tail .. head - 1
                 PROVE  buf'[Index(p)] = p
      BY <1>2 DEF Fill, UnreleasedIntact
    <3>1. p \in tail .. head + pk - 1
      BY <2>2, SMT
    <3> QED
      BY <3>1, <2>7 DEF RingInv, UnreleasedIntact
  <2>9. FilledIntact'
    <3> SUFFICES ASSUME NEW i \in 0 .. pk
                 PROVE  buf'[Index(head + i)] = head + i
      BY <1>2, <2>2, SMT DEF Fill, FilledIntact
    <3>1. CASE i = pk
      BY <3>1, <2>1, <2>3 DEF RingInv, TypeOK
    <3>2. CASE i # pk
      <4>1. i \in 0 .. pk - 1 /\ head + i \in tail .. head + pk - 1
        BY <3>2, <2>2, SMT
      <4>2. buf[Index(head + i)] = head + i
        BY <4>1, <1>2, <2>2 DEF Fill, RingInv, FilledIntact
      <4> QED
        BY <4>1, <4>2, <2>7
    <3> QED
      BY <3>1, <3>2
  <2> QED
    BY <2>4, <2>5, <2>6, <2>8, <2>9 DEF RingInv
<1>3. ASSUME Commit
      PROVE  RingInv'
  <2>1. /\ phead = head /\ head \in Nat /\ tail \in Nat /\ ptail \in Nat /\ pn \in Nat
        /\ pk = pn /\ tail <= head /\ head + pn <= MaxBytes
        /\ ptail <= tail /\ pn <= Capacity - (head - ptail)
    BY <1>3, SMT DEF Commit, RingInv, TypeOK, ProducerWindow, CursorsInOrder
  <2>2. TypeOK'
    BY <1>3, <2>1, SMT DEF Commit, RingInv, TypeOK, consumerVars
  <2>3. CursorsInOrder'
    BY <1>3, <2>1, SMT DEF Commit, CursorsInOrder
  <2>4. ConsumerWindow'
    BY <1>3, <2>1, SMT DEF Commit, RingInv, TypeOK, ConsumerWindow, consumerVars
  <2>5. ProducerWindow' /\ FilledIntact'
    BY <1>3 DEF Commit, ProducerWindow, FilledIntact
  <2>6. ReceivedInOrder'
    BY <1>3 DEF Commit, RingInv, ReceivedInOrder, consumerVars
  <2>7. UnreleasedIntact'
    <3> SUFFICES ASSUME NEW p \in tail .. head + pn - 1
                 PROVE  buf[Index(p)] = p
      BY <1>3, <2>1, SMT DEF Commit, UnreleasedIntact, Index
    <3>1. CASE p < head
      BY <3>1, <2>1, SMT DEF RingInv, UnreleasedIntact
    <3>2. CASE p >= head
      <4>1. p - head \in 0 .. pk - 1 /\ head + (p - head) = p
        BY <3>2, <2>1, SMT
      <4>2. \A i \in 0 .. pk - 1 : buf[Index(head + i)] = head + i
        BY <1>3, <2>1 DEF Commit, RingInv, FilledIntact
      <4> QED
        BY <4>1, <4>2
    <3> QED
      BY <3>1, <3>2, <2>1, SMT
  <2> QED
    BY <2>2, <2>3, <2>4, <2>5, <2>6, <2>7 DEF RingInv
<1>4. ASSUME NEW n \in 1 .. Capacity, Find(n)
      PROVE  RingInv'
  <2>1. TypeOK'
    BY <1>4, SMT DEF Find, RingInv, TypeOK, producerVars
  <2>2. CursorsInOrder' /\ ProducerWindow' /\ UnreleasedIntact' /\ FilledIntact'
    BY <1>4 DEF Find, RingInv, CursorsInOrder, ProducerWindow,
                UnreleasedIntact, FilledIntact, producerVars
  <2>3. ConsumerWindow'
    BY <1>4, SMT DEF Find, ConsumerWindow, AvailableRead
  <2>4. ReceivedInOrder'
    BY <1>4, SMT DEF Find, RingInv, TypeOK, ConsumerWindow, ReceivedInOrder
  <2> QED
    BY <2>1, <2>2, <2>3, <2>4 DEF RingInv
<1>5. ASSUME CopyOut
      PROVE  RingInv'
  <2>1. /\ head \in Nat /\ tail \in Nat /\ ck \in Nat /\ cn \in Nat
        /\ ck < cn /\ cn <= head - tail /\ head <= MaxBytes /\ cn <= Capacity
    BY <1>5, SMT DEF CopyOut, RingInv, TypeOK, ConsumerWindow
  <2>2. buf[Index(tail + ck)] = tail + ck
    <3>1. tail + ck \in tail .. head - 1
      BY <2>1, SMT
    <3> QED
      BY <3>1 DEF RingInv, UnreleasedIntact
  <2>3. received \in Seq(Bytes) /\ received' = Append(received, tail + ck)
    BY <1>5, <2>2 DEF CopyOut, RingInv, TypeOK
  <2>4. tail + ck \in Bytes
    BY <2>1, SMT DEF Bytes
  <2>5. TypeOK'
    <3>1. received' \in Seq(Bytes)
      BY <2>3, <2>4
    <3> QED
      BY <3>1, <1>5, <2>1, SMT DEF CopyOut, RingInv, TypeOK, producerVars
  <2>6. CursorsInOrder' /\ ProducerWindow' /\ UnreleasedIntact' /\ FilledIntact'
    BY <1>5 DEF CopyOut, RingInv, CursorsInOrder, ProducerWindow,
                UnreleasedIntact, FilledIntact, producerVars
  <2>7. ConsumerWindow'
    BY <1>5, <2>1, SMT DEF CopyOut, RingInv, ConsumerWindow
  <2>8. ReceivedInOrder'
    <3>1. /\ Len(received) = tail + ck
          /\ \A i \in 1 .. Len(received) : received[i] = i - 1
      BY DEF RingInv, ReceivedInOrder
    <3>2. Len(received') = tail + ck + 1
      BY <3>1, <2>1, <2>3, SMT
    <3>3. \A i \in 1 .. Len(received') : received'[i] = i - 1
      BY <3>1, <3>2, <2>1, <2>3, SMT
    <3> QED
      BY <3>2, <3>3, <1>5, <2>1, SMT DEF CopyOut, ReceivedInOrder
  <2> QED
    BY <2>5, <2>6, <2>7, <2>8 DEF RingInv
<1>6. ASSUME Release
      PROVE  RingInv'
  <2>1. /\ head \in Nat /\ tail \in Nat /\ ck \in Nat /\ cn \in Nat
        /\ ck = cn /\ cn <= head - tail /\ head <= MaxBytes /\ head - tail <= Capacity
    BY <1>6, SMT DEF Release, RingInv, TypeOK, ConsumerWindow, CursorsInOrder
  <2>2. TypeOK'
    BY <1>6, <2>1, SMT DEF Release, RingInv, TypeOK, producerVars
  <2>3. CursorsInOrder' /\ ConsumerWindow'
    BY <1>6, <2>1, SMT DEF Release, CursorsInOrder, ConsumerWindow
  <2>4. ProducerWindow'
    BY <1>6, <2>1, SMT DEF Release, RingInv, TypeOK, ProducerWindow, producerVars
  <2>5. FilledIntact'
    BY <1>6 DEF Release, RingInv, FilledIntact, producerVars
  <2>6. UnreleasedIntact'
    BY <1>6, <2>1, SMT DEF Release, RingInv, UnreleasedIntact
  <2>7. ReceivedInOrder'
    BY <1>6, <2>1, SMT DEF Release, RingInv, TypeOK, ReceivedInOrder
  <2> QED
    BY <2>2, <2>3, <2>4, <2>5, <2>6, <2>7 DEF RingInv
<1>7. CASE UNCHANGED vars
  BY <1>7 DEF vars, RingInv, TypeOK, CursorsInOrder, ProducerWindow,
              ConsumerWindow, UnreleasedIntact, FilledIntact, ReceivedInOrder
<1> QED
  BY <1>1, <1>2, <1>3, <1>4, <1>5, <1>6, <1>7 DEF Next

(* The invariant holds in every reachable state of the ring, whatever the  *)
(* interleaving of net_read or Sink.write with the consuming process.      *)
THEOREM RingInvariant == Spec => []RingInv
BY RingInit, RingStep, PTL DEF Spec

(* The cursors of a BodyRingDescriptor never cross and are never more than *)
(* one buffer apart.                                                       *)
THEOREM CursorsNeverCross == Spec => []CursorsInOrder
<1>1. RingInv => CursorsInOrder
  BY DEF RingInv
<1> QED
  BY <1>1, RingInvariant, PTL

(* The consumer of a body ring receives the body in order, without loss,   *)
(* repetition or overwriting, for every capacity.                          *)
THEOREM BodyDeliveredInOrder == Spec => []ReceivedInOrder
<1>1. RingInv => ReceivedInOrder
  BY DEF RingInv
<1> QED
  BY <1>1, RingInvariant, PTL

(* net_read filling the slices and the consumer copying bytes out never    *)
(* touch the same slot at the same time.                                   *)
THEOREM NeverADataRace == Spec => []NoDataRace
<1>1. RingInv => NoDataRace
  <2> SUFFICES ASSUME RingInv,
                      NEW i \in pk .. pn - 1, NEW j \in ck .. cn - 1,
                      ppc = "fill"
               PROVE  WriteSlot(phead, ptail, i) # Index(tail + j)
    BY DEF NoDataRace
  <2>1. /\ head \in Nat /\ tail \in Nat /\ ptail \in Nat /\ pk \in Nat /\ pn \in Nat
        /\ ck \in Nat /\ cn \in Nat
        /\ phead = head /\ ptail <= tail /\ tail <= head
        /\ head - ptail < Capacity /\ pn <= Capacity - (head - ptail)
        /\ cn <= head - tail
    BY SMT DEF RingInv, TypeOK, ProducerWindow, ConsumerWindow, CursorsInOrder
  <2>2. WriteLen(head, ptail) = Capacity - (head - ptail)
    BY <2>1, SlicesAreFreeSpace
  <2>3. i \in 0 .. WriteLen(head, ptail) - 1
    BY <2>1, <2>2, CapacityAssumption, SMT
  <2>4. WriteSlot(head, ptail, i) = Index(head + i)
    BY <2>1, <2>3, SlicesAreFreeSpace
  <2>5. /\ tail + j \in Nat /\ head + i \in Nat
        /\ tail + j < head + i /\ (head + i) - (tail + j) < Capacity
    BY <2>1, CapacityAssumption, SMT
  <2>6. Index(tail + j) # Index(head + i)
    BY <2>5, IndexInjective
  <2> QED
    BY <2>1, <2>4, <2>6
<1> QED
  BY <1>1, RingInvariant, PTL

-----------------------------------------------------------------------------
(* Refinement. *)

(* Between the cursors lies the run of the body from tail to head. *)
BodyBetweenCursors ==
  /\ head \in Nat /\ tail \in Nat /\ tail <= head /\ head - tail <= Capacity
  /\ Contents = [i \in 1 .. head - tail |-> tail + i - 1]

LEMMA ContentsAreTheBody == RingInv => BodyBetweenCursors
<1> SUFFICES ASSUME RingInv PROVE BodyBetweenCursors
  OBVIOUS
<1>1. head \in Nat /\ tail \in Nat /\ tail <= head /\ head - tail <= Capacity
  BY SMT DEF RingInv, TypeOK, CursorsInOrder
<1>2. ASSUME NEW i \in 1 .. head - tail
      PROVE  buf[Index(tail + i - 1)] = tail + i - 1
  <2>1. tail + i - 1 \in tail .. head - 1
    BY <1>1, SMT
  <2> QED
    BY <2>1 DEF RingInv, UnreleasedIntact
<1> QED
  BY <1>1, <1>2 DEF Contents, BodyBetweenCursors

LEMMA RunLength ==
  ASSUME NEW a \in Nat, NEW b \in Nat, a <= b
  PROVE  Len([i \in 1 .. b - a |-> a + i - 1]) = b - a
<1>1. b - a \in Nat
  BY SMT
<1> QED
  BY <1>1, SMT

LEMMA QueueStep ==
  ASSUME BodyBetweenCursors, BodyBetweenCursors', RingInv, [Next]_vars
  PROVE  [Queue!QNext]_<<Contents, head>>
<1>1. /\ head \in Nat /\ tail \in Nat /\ tail <= head /\ head - tail <= Capacity
      /\ Contents = [i \in 1 .. head - tail |-> tail + i - 1]
  BY DEF BodyBetweenCursors
<1>2. /\ head' \in Nat /\ tail' \in Nat /\ tail' <= head' /\ head' - tail' <= Capacity
      /\ Contents' = [i \in 1 .. head' - tail' |-> tail' + i - 1]
  BY DEF BodyBetweenCursors
<1>4. Len(Contents) = head - tail /\ Len(Contents') = head' - tail'
  <2>1. /\ head \in Nat /\ tail \in Nat /\ tail <= head
        /\ head' \in Nat /\ tail' \in Nat /\ tail' <= head'
    BY <1>1, <1>2
  <2> QED
    BY <2>1, <1>1, <1>2, RunLength
<1>5. CASE head' = head /\ tail' = tail
  BY <1>1, <1>2, <1>5
<1>6. CASE Commit
  <2>1. /\ pn \in 1 .. Capacity /\ head' = head + pn /\ tail' = tail
        /\ head + pn <= MaxBytes
    BY <1>6, SMT DEF Commit, RingInv, TypeOK, ProducerWindow
  <2>2. Contents' = Contents \o Queue!BodyRun(head, pn)
    <3>1. Len(Queue!BodyRun(head, pn)) = pn
      BY <2>1, SMT DEF Queue!BodyRun
    <3> QED
      BY <3>1, <2>1, <1>1, <1>2, <1>4, SMT DEF Queue!BodyRun
  <2>3. Queue!Put(pn)
    BY <2>1, <2>2, <1>1, <1>2, <1>4, SMT DEF Queue!Put
  <2> QED
    BY <2>1, <2>3 DEF Queue!QNext
<1>7. CASE Release
  <2>1. cn \in 1 .. Capacity /\ head' = head /\ tail' = tail + cn /\ cn <= head - tail
    BY <1>7, SMT DEF Release, RingInv, TypeOK, ConsumerWindow
  <2>2. Contents' = SubSeq(Contents, cn + 1, Len(Contents))
    BY <2>1, <1>1, <1>2, <1>4, SMT
  <2>3. Queue!Take(cn)
    BY <2>1, <2>2, <1>1, <1>4, SMT DEF Queue!Take
  <2> QED
    BY <2>1, <2>3 DEF Queue!QNext
<1> QED
  BY <1>5, <1>6, <1>7 DEF Next, vars, Reserve, Fill, Find, CopyOut

(* The shared-memory ring implements the bounded first-in first-out queue  *)
(* of ByteQueue, with net_read's commit as Put and the consumer's release  *)
(* as Take.                                                                *)
THEOREM RingImplementsQueue == Spec => ImplementsQueue
<1>1. Init => Queue!QInit
  BY SMT DEF Init, Queue!QInit, Contents
<1>2. BodyBetweenCursors /\ BodyBetweenCursors' /\ RingInv /\ [Next]_vars
        => [Queue!QNext]_<<Contents, head>>
  BY QueueStep
<1> QED
  BY <1>1, <1>2, ContentsAreTheBody, RingInvariant, PTL
     DEF Spec, Queue!QSpec, ImplementsQueue
=============================================================================
