------------------------------ MODULE BodyRing ------------------------------
(***************************************************************************)
(* BodyRingDescriptor: the single-producer single-consumer byte ring in    *)
(* shared memory through which a response body leaves the network stack.   *)
(*                                                                         *)
(* The producer is net_read of the Rust engine (the socket is read         *)
(* straight into the free slices of the ring) or Sink.write of the Zig     *)
(* compression module; both take the same four steps: load the cursors,    *)
(* compute the free slices, fill them, and publish with a fetch_add on     *)
(* head.  The consumer is another process; it loads head, copies out       *)
(* bytes and releases them by advancing tail.  Between any two of these    *)
(* steps the other side may run, so each of them is an action here, and a  *)
(* byte is written or copied one at a time.                                *)
(*                                                                         *)
(* head and tail are the u64 cursors; they only grow and a body is far     *)
(* shorter than 2^64 bytes, so they are natural numbers here.  A body byte *)
(* is named by its position in the body.                                   *)
(***************************************************************************)
EXTENDS Naturals, Sequences

CONSTANTS Capacity,   \* capacity of the shared buffer, in bytes
          MaxBytes    \* length of the body: bounds the producer

ASSUME CapacityAssumption == Capacity \in Nat \ {0}
ASSUME MaxBytesAssumption == MaxBytes \in Nat

NoByte == MaxBytes          \* content of a slot never written
Slots  == 0 .. Capacity - 1
Bytes  == 0 .. MaxBytes

VARIABLES
  buf,        \* buffer_ptr: the shared bytes
  head,       \* cursor published by the producer
  tail,       \* cursor published by the consumer
  ppc,        \* producer: "idle" or "fill" (between its loads and its commit)
  phead,      \* producer: value of head it loaded
  ptail,      \* producer: value of tail it loaded, stale as soon as loaded
  pn,         \* producer: bytes this call moves
  pk,         \* producer: bytes filled so far
  cn,         \* consumer: bytes it found and set out to copy (0: not copying)
  ck,         \* consumer: bytes copied so far
  received    \* consumer: everything it has copied out

producerVars == <<ppc, phead, ptail, pn, pk>>
consumerVars == <<cn, ck, received>>
vars == <<buf, head, tail, ppc, phead, ptail, pn, pk, cn, ck, received>>

-----------------------------------------------------------------------------
(* The arithmetic of the descriptor. *)

Index(p) == p % Capacity    \* head_idx, tail_idx

AvailableRead(h, t)  == h - t

WriteLenOneCase(h, t) ==    \* mutant: the single-slice case forgotten
  (Capacity - Index(h)) + Index(t)

(* The free slices: from head's index to the end and then from 0 to tail's *)
(* index, or one slice from head's index to tail's.  Their total length    *)
(* and the slot their i-th byte falls in.                                  *)
WriteLen(h, t) ==
  IF Index(h) >= Index(t)
    THEN (Capacity - Index(h)) + Index(t)
    ELSE Index(t) - Index(h)

WriteSlot(h, t, i) ==
  IF Index(h) >= Index(t) /\ i >= Capacity - Index(h)
    THEN i - (Capacity - Index(h))
    ELSE Index(h) + i

-----------------------------------------------------------------------------
Init ==
  /\ buf = [s \in Slots |-> NoByte]
  /\ head = 0 /\ tail = 0
  /\ ppc = "idle" /\ phead = 0 /\ ptail = 0 /\ pn = 0 /\ pk = 0
  /\ cn = 0 /\ ck = 0 /\ received = << >>

ReserveWhenFull(n) ==       \* mutant: the test for a full ring dropped
  /\ ppc = "idle"
  /\ n <= WriteLen(head, tail)
  /\ head + n <= MaxBytes
  /\ ppc' = "fill"
  /\ phead' = head /\ ptail' = tail /\ pn' = n /\ pk' = 0
  /\ UNCHANGED <<buf, head, tail, consumerVars>>

(* The producer loads both cursors, returns at once if the ring is full    *)
(* and otherwise sets out to move n bytes into the free slices: n is what  *)
(* read_vectored finds in the socket, or what the sink has left to write.  *)
Reserve(n) ==
  /\ ppc = "idle"
  /\ AvailableRead(head, tail) < Capacity
  /\ n <= WriteLen(head, tail)
  /\ head + n <= MaxBytes
  /\ ppc' = "fill"
  /\ phead' = head /\ ptail' = tail /\ pn' = n /\ pk' = 0
  /\ UNCHANGED <<buf, head, tail, consumerVars>>

(* One more byte lands in the slices. *)
Fill ==
  /\ ppc = "fill" /\ pk < pn
  /\ buf' = [buf EXCEPT ![WriteSlot(phead, ptail, pk)] = phead + pk]
  /\ pk' = pk + 1
  /\ UNCHANGED <<head, tail, ppc, phead, ptail, pn, consumerVars>>

CommitEarly ==              \* mutant: head published before the bytes
  /\ ppc = "fill"
  /\ head' = head + pn
  /\ ppc' = "idle"
  /\ UNCHANGED <<buf, tail, phead, ptail, pn, pk, consumerVars>>

(* head.fetch_add(n, Release) publishes the filled bytes. *)
Commit ==
  /\ ppc = "fill" /\ pk = pn
  /\ head' = head + pn
  /\ ppc' = "idle"
  /\ UNCHANGED <<buf, tail, phead, ptail, pn, pk, consumerVars>>

(* The consumer finds n bytes available and sets out to copy them. *)
Find(n) ==
  /\ cn = 0
  /\ n <= AvailableRead(head, tail)
  /\ cn' = n /\ ck' = 0
  /\ UNCHANGED <<buf, head, tail, producerVars, received>>

CopyOut ==
  /\ ck < cn
  /\ received' = Append(received, buf[Index(tail + ck)])
  /\ ck' = ck + 1
  /\ UNCHANGED <<buf, head, tail, producerVars, cn>>

Release ==
  /\ cn > 0 /\ ck = cn
  /\ tail' = tail + cn
  /\ cn' = 0 /\ ck' = 0
  /\ UNCHANGED <<buf, head, producerVars, received>>

Next ==
  \/ \E n \in 1 .. Capacity : Reserve(n)
  \/ Fill
  \/ Commit
  \/ \E n \in 1 .. Capacity : Find(n)
  \/ CopyOut
  \/ Release

Spec == Init /\ [][Next]_vars

-----------------------------------------------------------------------------
(* Properties. *)

(* Every variable has the type of the field or local it stands for. *)
TypeOK ==
  /\ buf \in [Slots -> Bytes]
  /\ head \in 0 .. MaxBytes /\ tail \in 0 .. MaxBytes
  /\ ppc \in {"idle", "fill"}
  /\ phead \in 0 .. MaxBytes /\ ptail \in 0 .. MaxBytes
  /\ pn \in 0 .. Capacity /\ pk \in 0 .. Capacity
  /\ cn \in 0 .. Capacity /\ ck \in 0 .. Capacity
  /\ received \in Seq(Bytes)

(* The cursors never cross and never drift apart by more than the buffer:  *)
(* the unsigned subtraction head - tail that every caller of the           *)
(* descriptor performs neither underflows nor exceeds the capacity.        *)
CursorsInOrder == tail <= head /\ head - tail <= Capacity

(* Every published byte that the consumer has not released is still in the *)
(* buffer, however stale the tail the producer computed its slices from.   *)
UnreleasedIntact ==
  \A p \in tail .. head - 1 : buf[Index(p)] = p

(* What the consumer has copied out is the body so far: in order, no byte  *)
(* lost, repeated or overwritten while it was being copied.                *)
ReceivedInOrder ==
  /\ Len(received) = tail + ck
  /\ \A i \in 1 .. Len(received) : received[i] = i - 1

(* The slots the producer may still write and those the consumer may still *)
(* copy are disjoint: neither side needs a lock on the bytes themselves.   *)
NoDataRace ==
  \A i \in pk .. pn - 1, j \in ck .. cn - 1 :
    ppc = "fill" => WriteSlot(phead, ptail, i) # Index(tail + j)

(* What each side relies on while it is between its loads and its publish: *)
(* the producer owns head, and the space it computed from a stale tail is  *)
(* a lower bound on the space there is; the consumer owns tail.            *)
ProducerWindow ==
  ppc = "fill" =>
    /\ phead = head
    /\ ptail <= tail
    /\ phead - ptail < Capacity
    /\ pk <= pn
    /\ 1 <= pn /\ pn <= Capacity - (phead - ptail)
    /\ phead + pn <= MaxBytes

ConsumerWindow == ck <= cn /\ cn <= head - tail

(* The bytes filled and not yet published are in place. *)
FilledIntact ==
  ppc = "fill" => \A i \in 0 .. pk - 1 : buf[Index(phead + i)] = phead + i

(* The inductive invariant of the ring. *)
RingInv ==
  /\ TypeOK
  /\ CursorsInOrder
  /\ ProducerWindow
  /\ ConsumerWindow
  /\ UnreleasedIntact
  /\ FilledIntact
  /\ ReceivedInOrder

(* The bytes between the cursors, as the consumer would read them. *)
Contents == [i \in 1 .. head - tail |-> buf[Index(tail + i - 1)]]

Queue == INSTANCE ByteQueue WITH queue <- Contents, produced <- head

(* The ring implements a bounded FIFO queue of body bytes. *)
ImplementsQueue == Queue!QSpec
=============================================================================
