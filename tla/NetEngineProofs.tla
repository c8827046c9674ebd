-------------------------- MODULE NetEngineProofs ---------------------------
(* Proofs about NetEngine for any number of connections, rings and bytes,   *)
(* any capacity, any timeout and a host that does what it likes.            *)
EXTENDS NetEngine, TLAPS

LEMMA EngineInit == Init => EngineInv
BY EngineAssumption, SMT
   DEF Init, EngineInv, TypeOK, PausedIffOffPoller, PausedIsVisited, IdsAreFresh,
       PausedIsOpen, SockWasSent, ReadingHasRing, Conns

LEMMA RingOfType ==
  ASSUME TypeOK, NEW c \in Conns, HasRing(c)
  PROVE  RingOf(c) \in Descs /\ used[RingOf(c)] \in 0 .. Capacity
BY SMT DEF TypeOK, HasRing, RingOf

LEMMA EngineStep == EngineInv /\ [Next]_vars => EngineInv'
<1> SUFFICES ASSUME EngineInv, [Next]_vars PROVE EngineInv'
  OBVIOUS
<1> USE EngineAssumption
    DEF EngineInv, PausedIffOffPoller, PausedIsVisited, IdsAreFresh, PausedIsOpen,
        SockWasSent, ReadingHasRing, connVars, pollVars, ringVars, callVars
<1>1. CASE NetConnect
  <2>1. /\ next_conn_id \in Conns /\ next_conn_id + 1 \in 1 .. MaxConns + 1
        /\ ~is_paused[next_conn_id]
    BY <1>1, SMT DEF NetConnect, TypeOK, Conns
  <2>2. TypeOK'
    BY <1>1, <2>1, SMT DEF NetConnect, TypeOK
  <2>3. PausedIffOffPoller'
    BY <1>1, <2>1, SMT DEF NetConnect, TypeOK
  <2>4. PausedIsVisited' /\ PausedIsOpen'
    BY <1>1, <2>1, SMT DEF NetConnect, TypeOK
  <2>5. ReadingHasRing' /\ SockWasSent'
    BY <1>1, SMT DEF NetConnect
  <2>6. IdsAreFresh'
    BY <1>1, SMT DEF NetConnect, TypeOK, Conns
  <2> QED
    BY <2>2, <2>3, <2>4, <2>5, <2>6
<1>2. CASE NetConnectUnregistered
  <2>1. next_conn_id + 1 \in 1 .. MaxConns + 1
    BY <1>2, SMT DEF NetConnectUnregistered, TypeOK
  <2>2. TypeOK'
    BY <1>2, <2>1, SMT DEF NetConnectUnregistered, TypeOK
  <2>3. IdsAreFresh'
    BY <1>2, SMT DEF NetConnectUnregistered, TypeOK, Conns
  <2> QED
    BY <1>2, <2>2, <2>3, SMT DEF NetConnectUnregistered
<1>3. ASSUME NEW c \in Conns, NetClose(c) PROVE EngineInv'
  BY <1>3, SMT DEF NetClose, TypeOK, HasRing
<1>4. ASSUME NEW r \in RingIds, NEW d \in Descs, RingRegister(r, d) PROVE EngineInv'
  BY <1>4, SMT DEF RingRegister, TypeOK
<1>5. ASSUME NEW r \in RingIds, RingUnregister(r) PROVE EngineInv'
  BY <1>5, SMT DEF RingUnregister, TypeOK
<1>6. ASSUME NEW c \in Conns, NEW r \in RingIds, BindBodyRing(c, r) PROVE EngineInv'
  BY <1>6, SMT DEF BindBodyRing, TypeOK
<1>7. ASSUME NEW c \in Conns, NEW n \in 1 .. MaxSend, NetReadRing(c, n)
      PROVE  EngineInv'
  <2>1. /\ RingOf(c) \in Descs
        /\ used[RingOf(c)] \in 0 .. Capacity
    BY <1>7, RingOfType DEF NetReadRing
  <2>2. used[RingOf(c)] + n \in 0 .. Capacity /\ sock[c] - n \in 0 .. MaxSend
    BY <1>7, <2>1, SMT DEF NetReadRing, TypeOK
  <2>3. TypeOK'
    BY <1>7, <2>1, <2>2, SMT DEF NetReadRing, TypeOK
  <2>4. SockWasSent'
    BY <1>7, SMT DEF NetReadRing, TypeOK
  <2> QED
    BY <1>7, <2>3, <2>4, SMT DEF NetReadRing, MayRead, HasRing
<1>8. ASSUME NEW c \in Conns, NEW n \in 1 .. MaxSend, NetReadPlain(c, n)
      PROVE  EngineInv'
  <2>1. sock[c] - n \in 0 .. MaxSend
    BY <1>8, SMT DEF NetReadPlain, TypeOK
  <2> QED
    BY <1>8, <2>1, SMT DEF NetReadPlain, MayRead, TypeOK
<1>9. ASSUME NEW c \in Conns, NetReadFails(c) PROVE EngineInv'
  BY <1>9, SMT DEF NetReadFails, TypeOK
<1>10. CASE NetReadWatermark
  <2>1. reading \in connections /\ reading \in Conns /\ conn_body_rings[reading] # NoRing
    BY <1>10, SMT DEF NetReadWatermark, HasRing, TypeOK
  <2>2. CASE used[RingOf(reading)] > HighWatermark
    <3>1. /\ registered' = registered \ {reading} /\ armed' = armed \ {reading}
          /\ refused' = refused \ {reading}
          /\ is_paused' = [is_paused EXCEPT ![reading] = TRUE]
      BY <1>10, <2>2 DEF NetReadWatermark
    <3> QED
      BY <1>10, <2>1, <3>1, SMT DEF NetReadWatermark, TypeOK
  <2>3. CASE ~(used[RingOf(reading)] > HighWatermark)
    <3>1. UNCHANGED pollVars
      BY <1>10, <2>3 DEF NetReadWatermark
    <3> QED
      BY <1>10, <3>1, SMT DEF NetReadWatermark, TypeOK
  <2> QED
    BY <2>2, <2>3
<1>11. CASE PollEnter
  BY <1>11, SMT DEF PollEnter, TypeOK
<1>12. ASSUME NEW c \in Conns, PollVisit(c) PROVE EngineInv'
  <2>1. CASE CanResume(c)
    <3>1. /\ is_paused' = [is_paused EXCEPT ![c] = FALSE]
          /\ \/ /\ registered' = registered \cup {c} /\ armed' = armed \cup {c}
                /\ refused' = refused
             \/ /\ refused' = refused \cup {c}
                /\ registered' = registered /\ armed' = armed
      BY <1>12, <2>1 DEF PollVisit
    <3>2. c \in connections /\ is_paused[c]
      BY <2>1 DEF CanResume
    <3> QED
      BY <1>12, <3>1, <3>2, SMT DEF PollVisit, TypeOK
  <2>2. CASE ~CanResume(c)
    <3>1. UNCHANGED pollVars
      BY <1>12, <2>2 DEF PollVisit
    <3> QED
      BY <1>12, <3>1, SMT DEF PollVisit, TypeOK
  <2> QED
    BY <2>1, <2>2
<1>13. CASE PollReturn \/ PollFails
  BY <1>13, SMT DEF PollReturn, PollFails, TypeOK
<1>14. ASSUME NEW c \in Conns, NEW n \in 1 .. MaxSend, PeerSend(c, n)
       PROVE  EngineInv'
  <2>1. sock[c] + n \in 0 .. MaxSend /\ sent[c] + n \in 0 .. MaxSend
    BY <1>14, SMT DEF PeerSend, TypeOK
  <2>2. TypeOK' /\ SockWasSent'
    BY <1>14, <2>1, SMT DEF PeerSend, TypeOK
  <2> QED
    BY <1>14, <2>2, SMT DEF PeerSend, HasRing
<1>15. ASSUME NEW d \in Descs, NEW n \in 1 .. Capacity, Consume(d, n)
       PROVE  EngineInv'
  <2>1. TypeOK'
    BY <1>15, SMT DEF Consume, TypeOK
  <2> QED
    BY <1>15, <2>1, SMT DEF Consume, HasRing
<1>16. CASE UNCHANGED vars
  BY <1>16, SMT DEF vars, TypeOK, HasRing
<1> QED
  BY <1>1, <1>2, <1>3, <1>4, <1>5, <1>6, <1>7, <1>8, <1>9, <1>10, <1>11, <1>12,
     <1>13, <1>14, <1>15, <1>16 DEF Next, NetRead, Poll

(* Whatever the host opens, closes, binds and unregisters, is_paused and    *)
(* the poller's registry agree on every connection but those whose register *)
(* in poll failed: net_read, poll and net_close have no other way to let    *)
(* the two records of backpressure drift apart.                             *)
THEOREM PauseMatchesPoller == Spec => []PausedIffOffPoller
<1>1. Spec => []EngineInv
  BY EngineInit, EngineStep, PTL DEF Spec
<1>2. EngineInv => PausedIffOffPoller
  BY DEF EngineInv
<1> QED
  BY <1>1, <1>2, PTL

(* Every paused connection has an entry in conn_body_rings, so the loop of  *)
(* poll that resumes connections reaches it.                                *)
THEOREM PausedIsReached == Spec => []PausedIsVisited
<1>1. Spec => []EngineInv
  BY EngineInit, EngineStep, PTL DEF Spec
<1>2. EngineInv => PausedIsVisited
  BY DEF EngineInv
<1> QED
  BY <1>1, <1>2, PTL

-----------------------------------------------------------------------------
(* A disciplined host.  A ring id belongs to one connection for good and   *)
(* its descriptor to one ring id, an open connection keeps its ring, and a *)
(* ring that no connection was given is empty: so nobody but c fills the   *)
(* ring of c, and c finds it empty.                                        *)
RingsAreOwn ==
  /\ \A b, c \in Conns :
       conn_body_rings[b] # NoRing /\ conn_body_rings[b] = conn_body_rings[c]
         => b = c
  /\ \A q, r \in RingIds :
       body_rings[q] # NoDesc /\ body_rings[q] = body_rings[r] => q = r
  /\ \A c \in connections : conn_body_rings[c] # NoRing => HasRing(c)
  /\ \A c \in Conns : c >= next_conn_id => conn_body_rings[c] = NoRing
  /\ \A r \in RingIds :
       body_rings[r] # NoDesc /\ (\A c \in Conns : conn_body_rings[c] # r)
         => used[body_rings[r]] = 0

(* FullRingIsPaused, with net_read between publishing and its check. *)
FullOrReading ==
  \A c \in connections :
    HasRing(c) /\ used[RingOf(c)] > HighWatermark
      => is_paused[c] \/ (call = "read" /\ reading = c)

(* NoLostWakeup in every state, and why the wait of poll may forget the    *)
(* sweep.                                                                  *)
WakeupPending ==
  /\ \A c \in connections :
       sock[c] > 0
         => c \in sweep \/ c \in armed \/ is_paused[c] \/ c \in refused
  /\ call = "poll" => sweep = {}

DisciplineInv == EngineInv /\ RingsAreOwn /\ FullOrReading /\ WakeupPending

LEMMA WatermarksInOrder ==
  /\ HighWatermark \in Nat /\ LowWatermark \in Nat
  /\ LowWatermark <= HighWatermark /\ HighWatermark < Capacity
BY EngineAssumption, SMT DEF HighWatermark, LowWatermark

(* Two open connections never share a descriptor. *)
LEMMA DescsAreOwn ==
  ASSUME TypeOK, RingsAreOwn, NEW b \in Conns, NEW c \in Conns,
         HasRing(b), HasRing(c), RingOf(b) = RingOf(c)
  PROVE  b = c
BY DEF TypeOK, RingsAreOwn, HasRing, RingOf

LEMMA DisciplineInit == Init => DisciplineInv
<1> SUFFICES ASSUME Init PROVE DisciplineInv
  OBVIOUS
<1>1. EngineInv
  BY EngineInit
<1>2. RingsAreOwn /\ FullOrReading /\ WakeupPending
  BY EngineAssumption DEF Init, RingsAreOwn, FullOrReading, WakeupPending, HasRing
<1> QED
  BY <1>1, <1>2 DEF DisciplineInv

LEMMA RingsStep ==
  ASSUME Disciplined, EngineInv, RingsAreOwn, [Next]_vars
  PROVE  RingsAreOwn'
<1> USE EngineAssumption
    DEF EngineInv, TypeOK, RingsAreOwn, IdsAreFresh, HasRing,
        connVars, pollVars, ringVars, callVars
<1>1. CASE NetConnect
  <2>1. conn_body_rings[next_conn_id] = NoRing
    BY <1>1 DEF NetConnect, Conns
  <2>2. \A c \in Conns : c >= next_conn_id' => c >= next_conn_id
    BY <1>1 DEF NetConnect, Conns
  <2> QED
    BY <1>1, <2>1, <2>2 DEF NetConnect
<1>2. CASE NetConnectUnregistered
  <2>1. \A c \in Conns : c >= next_conn_id' => c >= next_conn_id
    BY <1>2 DEF NetConnectUnregistered, Conns
  <2> QED
    BY <1>2, <2>1 DEF NetConnectUnregistered
<1>3. ASSUME NEW c \in Conns, NetClose(c) PROVE RingsAreOwn'
  BY <1>3 DEF NetClose
<1>4. ASSUME NEW r \in RingIds, NEW d \in Descs, RingRegister(r, d)
      PROVE  RingsAreOwn'
  BY <1>4 DEF RingRegister
<1>5. ASSUME NEW r \in RingIds, RingUnregister(r) PROVE RingsAreOwn'
  BY <1>5 DEF RingUnregister
<1>6. ASSUME NEW c \in Conns, NEW r \in RingIds, BindBodyRing(c, r)
      PROVE  RingsAreOwn'
  BY <1>6 DEF BindBodyRing, Conns
<1>7. ASSUME NEW c \in Conns, NEW n \in 1 .. MaxSend, NetReadRing(c, n)
      PROVE  RingsAreOwn'
  <2>1. /\ UNCHANGED <<next_conn_id, connections, body_rings, conn_body_rings>>
        /\ \A e \in Descs : e # RingOf(c) => used'[e] = used[e]
    BY <1>7 DEF NetReadRing
  <2>2. conn_body_rings[c] \in RingIds /\ RingOf(c) = body_rings[conn_body_rings[c]]
    BY <1>7 DEF NetReadRing, RingOf
  <2> QED
    BY <2>1, <2>2
<1>8. ASSUME NEW c \in Conns, NEW n \in 1 .. MaxSend, NetReadPlain(c, n)
      PROVE  RingsAreOwn'
  BY <1>8 DEF NetReadPlain
<1>9. ASSUME NEW c \in Conns, NetReadFails(c) PROVE RingsAreOwn'
  BY <1>9 DEF NetReadFails
<1>10. CASE NetReadWatermark
  BY <1>10 DEF NetReadWatermark
<1>11. CASE PollEnter \/ PollReturn \/ PollFails
  BY <1>11 DEF PollEnter, PollReturn, PollFails
<1>12. ASSUME NEW c \in Conns, PollVisit(c) PROVE RingsAreOwn'
  BY <1>12 DEF PollVisit
<1>13. ASSUME NEW c \in Conns, NEW n \in 1 .. MaxSend, PeerSend(c, n)
       PROVE  RingsAreOwn'
  BY <1>13 DEF PeerSend
<1>14. ASSUME NEW d \in Descs, NEW n \in 1 .. Capacity, Consume(d, n)
       PROVE  RingsAreOwn'
  <2>1. \A e \in Descs : used[e] = 0 => used'[e] = 0
    BY <1>14 DEF Consume
  <2> QED
    BY <1>14, <2>1 DEF Consume
<1>15. CASE UNCHANGED vars
  BY <1>15 DEF vars
<1> HIDE EngineAssumption
    DEF EngineInv, TypeOK, RingsAreOwn, IdsAreFresh, HasRing,
        connVars, pollVars, ringVars, callVars
<1> QED
  BY <1>1, <1>2, <1>3, <1>4, <1>5, <1>6, <1>7, <1>8, <1>9, <1>10, <1>11, <1>12,
     <1>13, <1>14, <1>15 DEF Next, NetRead, Poll

LEMMA FullStep ==
  ASSUME Disciplined, EngineInv, RingsAreOwn, FullOrReading, [Next]_vars
  PROVE  FullOrReading'
<1> USE WatermarksInOrder, EngineAssumption
    DEF EngineInv, TypeOK, FullOrReading, HasRing, RingOf,
        connVars, pollVars, ringVars, callVars
<1>1. CASE NetConnect
  <2>1. conn_body_rings[next_conn_id] = NoRing
    BY <1>1 DEF NetConnect, Conns, RingsAreOwn
  <2> QED
    BY <1>1, <2>1 DEF NetConnect
<1>2. CASE NetConnectUnregistered
  BY <1>2 DEF NetConnectUnregistered
<1>3. ASSUME NEW c \in Conns, NetClose(c) PROVE FullOrReading'
  BY <1>3 DEF NetClose
<1>4. ASSUME NEW r \in RingIds, NEW d \in Descs, RingRegister(r, d)
      PROVE  FullOrReading'
  <2>1. \A c \in connections : conn_body_rings[c] # r
    BY <1>4 DEF RingRegister, RingsAreOwn
  <2> QED
    BY <1>4, <2>1 DEF RingRegister
<1>5. ASSUME NEW r \in RingIds, RingUnregister(r) PROVE FullOrReading'
  BY <1>5 DEF RingUnregister
<1>6. ASSUME NEW c \in Conns, NEW r \in RingIds, BindBodyRing(c, r)
      PROVE  FullOrReading'
  <2>1. used[body_rings[r]] = 0
    BY <1>6 DEF BindBodyRing, RingsAreOwn
  <2> QED
    BY <1>6, <2>1 DEF BindBodyRing
<1>7. ASSUME NEW c \in Conns, NEW n \in 1 .. MaxSend, NetReadRing(c, n)
      PROVE  FullOrReading'
  <2> SUFFICES ASSUME NEW b \in connections, b # c,
                      HasRing(b), used'[RingOf(b)] > HighWatermark
               PROVE  is_paused[b]
    BY <1>7 DEF NetReadRing
  <2>1. b \in Conns /\ HasRing(c) /\ call = "none"
    BY <1>7 DEF NetReadRing, MayRead
  <2>2. RingOf(b) # RingOf(c)
    BY <2>1, DescsAreOwn
  <2>3. used'[RingOf(b)] = used[RingOf(b)]
    BY <1>7, <2>2 DEF NetReadRing
  <2> QED
    BY <2>1, <2>3
<1>8. ASSUME NEW c \in Conns, NEW n \in 1 .. MaxSend, NetReadPlain(c, n)
      PROVE  FullOrReading'
  BY <1>8 DEF NetReadPlain
<1>9. ASSUME NEW c \in Conns, NetReadFails(c) PROVE FullOrReading'
  BY <1>9 DEF NetReadFails
<1>10. CASE NetReadWatermark
  <2>1. CASE used[RingOf(reading)] > HighWatermark
    <3>1. is_paused' = [is_paused EXCEPT ![reading] = TRUE]
      BY <1>10, <2>1 DEF NetReadWatermark
    <3> QED
      BY <1>10, <3>1 DEF NetReadWatermark
  <2>2. CASE ~(used[RingOf(reading)] > HighWatermark)
    <3>1. UNCHANGED is_paused
      BY <1>10, <2>2 DEF NetReadWatermark
    <3> QED
      BY <1>10, <2>2, <3>1 DEF NetReadWatermark
  <2> QED
    BY <2>1, <2>2
<1>11. CASE PollEnter \/ PollReturn \/ PollFails
  BY <1>11 DEF PollEnter, PollReturn, PollFails
<1>12. ASSUME NEW c \in Conns, PollVisit(c) PROVE FullOrReading'
  <2>1. CASE CanResume(c)
    <3>1. is_paused' = [is_paused EXCEPT ![c] = FALSE]
      BY <1>12, <2>1 DEF PollVisit
    <3>2. ~(used[RingOf(c)] > HighWatermark)
      BY <2>1, RingOfType DEF CanResume
    <3> QED
      BY <1>12, <3>1, <3>2 DEF PollVisit
  <2>2. CASE ~CanResume(c)
    <3>1. UNCHANGED is_paused
      BY <1>12, <2>2 DEF PollVisit
    <3> QED
      BY <1>12, <3>1 DEF PollVisit
  <2> QED
    BY <2>1, <2>2
<1>13. ASSUME NEW c \in Conns, NEW n \in 1 .. MaxSend, PeerSend(c, n)
       PROVE  FullOrReading'
  BY <1>13 DEF PeerSend
<1>14. ASSUME NEW d \in Descs, NEW n \in 1 .. Capacity, Consume(d, n)
       PROVE  FullOrReading'
  <2>1. \A e \in Descs : used'[e] <= used[e] /\ used[e] \in Nat /\ used'[e] \in Nat
    BY <1>14 DEF Consume
  <2>2. \A c \in connections : HasRing(c) => RingOf(c) \in Descs
    OBVIOUS
  <2> QED
    BY <1>14, <2>1, <2>2 DEF Consume
<1>15. CASE UNCHANGED vars
  BY <1>15 DEF vars
<1> HIDE WatermarksInOrder, EngineAssumption
    DEF EngineInv, TypeOK, FullOrReading, HasRing, RingOf,
        connVars, pollVars, ringVars, callVars
<1> QED
  BY <1>1, <1>2, <1>3, <1>4, <1>5, <1>6, <1>7, <1>8, <1>9, <1>10, <1>11, <1>12,
     <1>13, <1>14, <1>15 DEF Next, NetRead, Poll

LEMMA WakeupStep ==
  ASSUME EngineInv, FullOrReading, WakeupPending, [Next]_vars
  PROVE  WakeupPending'
<1> USE EngineAssumption
    DEF EngineInv, TypeOK, WakeupPending, connVars, pollVars, ringVars, callVars
<1>1. CASE NetConnect \/ NetConnectUnregistered
  BY <1>1 DEF NetConnect, NetConnectUnregistered
<1>2. ASSUME NEW c \in Conns, NetClose(c) PROVE WakeupPending'
  BY <1>2 DEF NetClose
<1>3. ASSUME NEW r \in RingIds, NEW d \in Descs, RingRegister(r, d)
      PROVE  WakeupPending'
  BY <1>3 DEF RingRegister
<1>4. ASSUME NEW r \in RingIds, RingUnregister(r) PROVE WakeupPending'
  BY <1>4 DEF RingUnregister
<1>5. ASSUME NEW c \in Conns, NEW r \in RingIds, BindBodyRing(c, r)
      PROVE  WakeupPending'
  BY <1>5 DEF BindBodyRing
<1>6. ASSUME NEW c \in Conns, NEW n \in 1 .. MaxSend,
             NetReadRing(c, n) \/ NetReadPlain(c, n)
      PROVE  WakeupPending'
  <2>1. \A b \in Conns : sock'[b] > 0 => sock[b] > 0
    BY <1>6 DEF NetReadRing, NetReadPlain
  <2>2. /\ UNCHANGED <<connections, is_paused, refused, armed, sweep>>
        /\ call' # "poll"
    BY <1>6 DEF NetReadRing, NetReadPlain, MayRead
  <2> QED
    BY <2>1, <2>2
<1>7. ASSUME NEW c \in Conns, NetReadFails(c) PROVE WakeupPending'
  <2>1. c \in connections /\ sock[c] > 0 => is_paused[c]
    BY <1>7, WatermarksInOrder, RingOfType DEF NetReadFails, FullOrReading
  <2> QED
    BY <1>7, <2>1 DEF NetReadFails
<1>8. CASE NetReadWatermark
  <2>1. reading \in Conns
    BY <1>8 DEF NetReadWatermark, ReadingHasRing
  <2>2. \A c \in Conns : is_paused[c] => is_paused'[c]
    BY <1>8, <2>1 DEF NetReadWatermark
  <2>3. \A c \in armed \cup refused :
          c \in armed' \/ is_paused'[c] \/ c \in refused'
    <3>1. CASE used[RingOf(reading)] > HighWatermark
      <4>1. /\ is_paused' = [is_paused EXCEPT ![reading] = TRUE]
            /\ armed' = armed \ {reading} /\ refused' = refused \ {reading}
        BY <1>8, <3>1 DEF NetReadWatermark
      <4> QED
        BY <2>1, <4>1
    <3>2. CASE ~(used[RingOf(reading)] > HighWatermark)
      BY <1>8, <3>2 DEF NetReadWatermark
    <3> QED
      BY <3>1, <3>2
  <2> QED
    BY <1>8, <2>2, <2>3 DEF NetReadWatermark
<1>9. CASE PollEnter
  BY <1>9 DEF PollEnter
<1>10. ASSUME NEW c \in Conns, PollVisit(c) PROVE WakeupPending'
  <2>1. \A b \in Conns : b \in armed \/ is_paused[b] \/ b \in refused
                         => b \in armed' \/ is_paused'[b] \/ b \in refused'
    <3>1. CASE CanResume(c)
      <4>1. /\ is_paused' = [is_paused EXCEPT ![c] = FALSE]
            /\ armed \subseteq armed' /\ refused \subseteq refused'
            /\ c \in armed' \/ c \in refused'
        BY <1>10, <3>1 DEF PollVisit
      <4> QED
        BY <4>1
    <3>2. CASE ~CanResume(c)
      BY <1>10, <3>2 DEF PollVisit
    <3> QED
      BY <3>1, <3>2
  <2> QED
    BY <1>10, <2>1 DEF PollVisit
<1>11. CASE PollReturn \/ PollFails
  BY <1>11 DEF PollReturn, PollFails
<1>12. ASSUME NEW c \in Conns, NEW n \in 1 .. MaxSend, PeerSend(c, n)
       PROVE  WakeupPending'
  <2>1. c \in registered \/ is_paused[c] \/ c \in refused
    BY <1>12 DEF PeerSend, PausedIffOffPoller
  <2> QED
    BY <1>12, <2>1 DEF PeerSend
<1>13. ASSUME NEW d \in Descs, NEW n \in 1 .. Capacity, Consume(d, n)
       PROVE  WakeupPending'
  BY <1>13 DEF Consume
<1>14. CASE UNCHANGED vars
  BY <1>14 DEF vars
<1> HIDE EngineAssumption
    DEF EngineInv, TypeOK, WakeupPending, connVars, pollVars, ringVars, callVars
<1> QED
  BY <1>1, <1>2, <1>3, <1>4, <1>5, <1>6, <1>7, <1>8, <1>9, <1>10, <1>11, <1>12,
     <1>13, <1>14 DEF Next, NetRead, Poll

LEMMA DisciplineInvariant ==
  ASSUME Disciplined
  PROVE  Spec => []DisciplineInv
<1>1. DisciplineInv /\ [Next]_vars => DisciplineInv'
  BY EngineStep, RingsStep, FullStep, WakeupStep DEF DisciplineInv
<1> QED
  BY <1>1, DisciplineInit, PTL DEF Spec

(* A host that gives every connection a ring of its own finds room in the   *)
(* ring of every connection that is on the poller, for every capacity:      *)
(* net_read's check of the high watermark after it has published misses     *)
(* none, though the consumer runs between the two.                          *)
THEOREM FullMeansPaused ==
  ASSUME Disciplined
  PROVE  Spec => []FullRingIsPaused
<1>1. DisciplineInv => FullRingIsPaused
  BY DEF DisciplineInv, FullOrReading, FullRingIsPaused
<1> QED
  BY <1>1, DisciplineInvariant, PTL

(* Edge-triggered events, pauses and resumptions leave no connection with   *)
(* bytes in its socket that nobody will look at, unless poll ignored that   *)
(* the poller did not take it back.                                         *)
THEOREM WakeupsAreKept ==
  ASSUME Disciplined
  PROVE  Spec => []NoLostWakeup
<1>1. DisciplineInv => NoLostWakeup
  BY DEF DisciplineInv, WakeupPending, NoLostWakeup
<1> QED
  BY <1>1, DisciplineInvariant, PTL
=============================================================================
