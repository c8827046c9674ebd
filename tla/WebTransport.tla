---------------------------- MODULE WebTransport ----------------------------
(***************************************************************************)
(* The registry behind the WebTransport FFI: sessions and one queue of     *)
(* received datagrams for all sessions, under a mutex.                     *)
(*                                                                         *)
(* create_session hands the caller a box of its own and leaves a copy in   *)
(* the registry for good; close_session frees the box only.                *)
(* queue_datagram counts in the box without the mutex and takes it for the *)
(* push alone, so the calls of different sessions interleave between the   *)
(* two.  A handle is used by one thread at a time.  open_stream adds to a  *)
(* list and a counter that nothing reads, and is left out.                 *)
(***************************************************************************)
EXTENDS Naturals, Sequences

CONSTANTS
  MaxSessions,    \* the largest max_sessions that a call may pass
  MaxDatagrams    \* datagrams received on one session

ASSUME WebTransportAssumption == {MaxSessions, MaxDatagrams} \subseteq Nat

Handles == 1 .. MaxSessions + 1

VARIABLES
  sessions,       \* length of WtRegistry.sessions
  live,           \* handles not closed
  enabled,        \* datagrams_enabled of a handle
  queued,         \* datagrams_queued of a handle
  busy,           \* handles with a datagram counted but not yet pushed
  datagrams,      \* WtRegistry.datagrams: session and number in the session
  drained         \* datagrams handed to the reader, oldest first

sessionVars == <<sessions, live, enabled>>
vars == <<sessions, live, enabled, queued, busy, datagrams, drained>>

Init ==
  /\ sessions = 0 /\ live = {}
  /\ enabled = [h \in Handles |-> FALSE]
  /\ queued = [h \in Handles |-> 0]
  /\ busy = {}
  /\ datagrams = << >> /\ drained = << >>

Idle(h) == h \in live \ busy

-----------------------------------------------------------------------------
CreateSessionOneMore(e, max) ==     \* mutant: > in place of >=
  /\ sessions <= max
  /\ sessions' = sessions + 1
  /\ live' = live \cup {sessions + 1}
  /\ enabled' = [enabled EXCEPT ![sessions + 1] = e]
  /\ UNCHANGED <<queued, busy, datagrams, drained>>

(* create_session; with max_sessions or more in the registry it returns    *)
(* null.                                                                   *)
CreateSession(e, max) ==
  /\ sessions < max
  /\ sessions' = sessions + 1
  /\ live' = live \cup {sessions + 1}
  /\ enabled' = [enabled EXCEPT ![sessions + 1] = e]
  /\ UNCHANGED <<queued, busy, datagrams, drained>>

(* queue_datagram; without datagrams_enabled it changes nothing. *)
QueueDatagram(h) ==
  /\ Idle(h) /\ enabled[h] /\ queued[h] < MaxDatagrams
  /\ queued' = [queued EXCEPT ![h] = @ + 1]
  /\ busy' = busy \cup {h}
  /\ UNCHANGED <<sessionVars, datagrams, drained>>

PushDatagramFront(h) ==        \* mutant: push_front in place of push_back
  /\ h \in busy
  /\ datagrams' = <<[session |-> h, num |-> queued[h]]>> \o datagrams
  /\ busy' = busy \ {h}
  /\ UNCHANGED <<sessionVars, queued, drained>>

PushDatagram(h) ==
  /\ h \in busy
  /\ datagrams' = Append(datagrams, [session |-> h, num |-> queued[h]])
  /\ busy' = busy \ {h}
  /\ UNCHANGED <<sessionVars, queued, drained>>

(* close_session *)
CloseSession(h) ==
  /\ Idle(h)
  /\ live' = live \ {h}
  /\ UNCHANGED <<sessions, enabled, queued, busy, datagrams,
                 drained>>

(* drain_datagrams with room for n. *)
DrainDatagrams(n) ==
  /\ datagrams # << >>
  /\ LET k == IF n < Len(datagrams) THEN n ELSE Len(datagrams)
     IN  /\ drained' = drained \o SubSeq(datagrams, 1, k)
         /\ datagrams' = SubSeq(datagrams, k + 1, Len(datagrams))
  /\ UNCHANGED <<sessionVars, queued, busy>>

Next ==
  \/ \E e \in BOOLEAN, max \in 0 .. MaxSessions : CreateSession(e, max)
  \/ \E h \in Handles :
       \/ QueueDatagram(h) \/ PushDatagram(h)
       \/ CloseSession(h)
  \/ \E n \in 1 .. MaxDatagrams : DrainDatagrams(n)

Spec == Init /\ [][Next]_vars

-----------------------------------------------------------------------------
(* Properties. *)

DatagramRecords == [session : Handles, num : 1 .. MaxDatagrams]

(* Every variable has the type of what it stands for, and the registry     *)
(* never holds more sessions than the largest max_sessions of its callers. *)
TypeOK ==
  /\ sessions \in 0 .. MaxSessions
  /\ live \subseteq 1 .. sessions /\ enabled \in [Handles -> BOOLEAN]
  /\ queued \in [Handles -> 0 .. MaxDatagrams]
  /\ busy \subseteq Handles
  /\ {datagrams, drained} \subseteq Seq(DatagramRecords)

(* However the calls of sessions that share the one queue interleave, and  *)
(* although a session is closed with datagrams in it, the reader is given  *)
(* the datagrams of each session in order, each once, and what it was      *)
(* given and what is queued are all that the session has counted, but for  *)
(* the one whose push is under way.                                        *)
DatagramsInOrder ==
  LET all == drained \o datagrams
      Counted(h) == queued[h] - (IF h \in busy THEN 1 ELSE 0)
  IN
  /\ \A i, j \in DOMAIN all :
       i < j /\ all[i].session = all[j].session => all[i].num < all[j].num
  /\ \A h \in Handles :
       {all[i].num : i \in {k \in DOMAIN all : all[k].session = h}} = 1 .. Counted(h)
=============================================================================
