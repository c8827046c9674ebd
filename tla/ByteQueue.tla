------------------------------ MODULE ByteQueue ------------------------------
(***************************************************************************)
(* What the body ring promises to the two processes that share it: a       *)
(* bounded first-in first-out queue of body bytes.  The producer appends   *)
(* a run of bytes in one step, the consumer removes a run in one step.     *)
(* A byte is named by its position in the body, so that a lost, repeated   *)
(* or overwritten byte is visible in the queue.                            *)
(***************************************************************************)
EXTENDS Naturals, Sequences

CONSTANTS Capacity,   \* bytes the queue can hold
          MaxBytes    \* length of the body: bounds the producer

VARIABLES queue,      \* the bytes published and not yet released
          produced    \* how many bytes the producer has published

(* The n bytes of the body from position p on. *)
BodyRun(p, n) == [i \in 1 .. n |-> p + i - 1]

QInit == queue = << >> /\ produced = 0

Put(n) ==
  /\ Len(queue) + n <= Capacity
  /\ produced + n <= MaxBytes
  /\ queue' = queue \o BodyRun(produced, n)
  /\ produced' = produced + n

Take(n) ==
  /\ n <= Len(queue)
  /\ queue' = SubSeq(queue, n + 1, Len(queue))
  /\ UNCHANGED produced

QNext == \E n \in 1 .. Capacity : Put(n) \/ Take(n)

QSpec == QInit /\ [][QNext]_<<queue, produced>>
=============================================================================
