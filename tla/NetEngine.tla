----------------------------- MODULE NetEngine ------------------------------
(***************************************************************************)
(* The TCP side of the Rust engine: connections, the body rings bound to   *)
(* them, and the backpressure that takes a connection off the poller when  *)
(* its ring is nearly full and puts it back when the ring was drained.     *)
(*                                                                         *)
(* The engine runs on one thread, but three parties move while a call is   *)
(* in progress: the peer (bytes arrive in a socket), the process that      *)
(* drains a ring, and the kernel's readiness queue.  So net_read is two    *)
(* steps (publish, then look at the watermark) and poll is one step for    *)
(* each binding it visits and one for its wait.                            *)
(*                                                                         *)
(* Readiness is edge-triggered, as in mio: an event is queued when bytes   *)
(* arrive at a registered socket or when a socket is registered (it is     *)
(* writable at once), and is gone once poll has reported it.  net_poll     *)
(* reports only how many events there were, so a host that is told of any  *)
(* reads every connection it holds until net_read fails.                   *)
(*                                                                         *)
(* A ring is its number of unreleased bytes here; BodyRing proves that     *)
(* this count is all its two sides need to agree on.                       *)
(***************************************************************************)
EXTENDS Naturals, FiniteSets

CONSTANTS
  MaxConns,      \* connections the host opens: bounds next_conn_id
  RingIds,       \* ids under which rings are registered
  Descs,         \* ring descriptors in shared memory
  Capacity,      \* capacity of every descriptor
  MaxSend,       \* bytes a peer sends on one connection
  Timeout,       \* what the host passes to net_poll: "finite" or "infinite"
  Disciplined    \* TRUE: the host gives every connection an empty ring of
                 \* its own and leaves it there while the connection is open;
                 \* FALSE: it registers, binds and unregisters at will

NoRing == "NoRing"      \* no entry in conn_body_rings
NoDesc == "NoDesc"      \* no entry in body_rings

ASSUME EngineAssumption ==
  /\ MaxConns \in Nat \ {0}
  /\ MaxSend \in Nat
  /\ Capacity \in Nat \ {0, 1}
  /\ Timeout \in {"finite", "infinite"}
  /\ Disciplined \in BOOLEAN
  /\ NoRing \notin RingIds /\ NoDesc \notin Descs

Conns == 1 .. MaxConns

VARIABLES
  next_conn_id,
  connections,        \* keys of the connections map
  is_paused,          \* Connection.is_paused
  registered,         \* connections registered with the poller
  refused,            \* history: connections the poller did not take back
  armed,              \* connections with a queued, unreported event
  sock,               \* bytes waiting in a connection's socket
  sent,               \* bytes the peer has sent
  body_rings,         \* ring id -> descriptor
  conn_body_rings,    \* connection -> ring id; net_close leaves its entry
  used,               \* head - tail of a descriptor
  call,               \* engine call in progress: "none", "read" or "poll"
  reading,            \* connection whose net_read is about to check the mark
  visits,             \* bindings poll has yet to visit
  sweep               \* connections the host has yet to read after an event

connVars == <<next_conn_id, connections>>
pollVars == <<is_paused, registered, refused, armed>>
ringVars == <<body_rings, conn_body_rings>>
callVars == <<call, reading, visits, sweep>>
vars == <<next_conn_id, connections, is_paused, registered, refused, armed,
          sock, sent, body_rings, conn_body_rings, used,
          call, reading, visits, sweep>>

LowWatermarkTruncated == Capacity * (50 \div 100)   \* mutant: divides first

HighWatermark == (Capacity * 95) \div 100
LowWatermark == (Capacity * 50) \div 100

(* The descriptor net_read and poll reach from a connection, if any. *)
HasRing(c) ==
  conn_body_rings[c] # NoRing /\ body_rings[conn_body_rings[c]] # NoDesc
RingOf(c) == body_rings[conn_body_rings[c]]

Init ==
  /\ next_conn_id = 1 /\ connections = {}
  /\ is_paused = [c \in Conns |-> FALSE] /\ registered = {}
  /\ refused = {} /\ armed = {}
  /\ sock = [c \in Conns |-> 0] /\ sent = [c \in Conns |-> 0]
  /\ body_rings = [r \in RingIds |-> NoDesc]
  /\ conn_body_rings = [c \in Conns |-> NoRing]
  /\ used = [d \in Descs |-> 0]
  /\ call = "none" /\ reading = 0 /\ visits = {} /\ sweep = {}

-----------------------------------------------------------------------------
(* Connections. *)

NetConnect ==
  /\ call = "none" /\ next_conn_id <= MaxConns
  /\ next_conn_id' = next_conn_id + 1
  /\ connections' = connections \cup {next_conn_id}
  /\ registered' = registered \cup {next_conn_id}
  /\ armed' = armed \cup {next_conn_id}
  /\ UNCHANGED <<is_paused, refused, sock, sent, ringVars, used, callVars>>

(* The poller refuses the socket: the id is spent, the stream dropped. *)
NetConnectUnregistered ==
  /\ call = "none" /\ next_conn_id <= MaxConns
  /\ next_conn_id' = next_conn_id + 1
  /\ UNCHANGED <<connections, pollVars, sock, sent, ringVars, used,
                 callVars>>

(* Dropping the stream closes the socket, which takes it off the poller. *)
NetClose(c) ==
  /\ call = "none" /\ c \in connections
  /\ connections' = connections \ {c}
  /\ registered' = registered \ {c} /\ armed' = armed \ {c}
  /\ refused' = refused \ {c}
  /\ is_paused' = [is_paused EXCEPT ![c] = FALSE]
  /\ sock' = [sock EXCEPT ![c] = 0]
  /\ sweep' = sweep \ {c}
  /\ UNCHANGED <<next_conn_id, sent, ringVars, used,
                 call, reading, visits>>

-----------------------------------------------------------------------------
(* Rings. *)

RingRegister(r, d) ==
  /\ call = "none"
  /\ Disciplined => /\ body_rings[r] = NoDesc /\ used[d] = 0
                    /\ \A q \in RingIds : body_rings[q] # d
  /\ body_rings' = [body_rings EXCEPT ![r] = d]
  /\ UNCHANGED <<connVars, pollVars, sock, sent, conn_body_rings, used, callVars>>

RingUnregister(r) ==
  /\ call = "none" /\ body_rings[r] # NoDesc
  /\ Disciplined => \A c \in connections : conn_body_rings[c] # r
  /\ body_rings' = [body_rings EXCEPT ![r] = NoDesc]
  /\ UNCHANGED <<connVars, pollVars, sock, sent, conn_body_rings, used, callVars>>

BindBodyRing(c, r) ==
  /\ call = "none" /\ c < next_conn_id
  /\ Disciplined => /\ body_rings[r] # NoDesc
                    /\ conn_body_rings[c] = NoRing
                    /\ \A b \in Conns : conn_body_rings[b] # r
  /\ conn_body_rings' = [conn_body_rings EXCEPT ![c] = r]
  /\ UNCHANGED <<connVars, pollVars, sock, sent, body_rings, used, callVars>>

-----------------------------------------------------------------------------
(* net_read.  A disciplined host calls it after an event only. *)

MayRead(c) ==
  call = "none" /\ c \in connections /\ (Disciplined => c \in sweep)

(* The ring path: the socket is read into the free slices and head is      *)
(* advanced; the call goes on to the watermark.                            *)
NetReadRing(c, n) ==
  /\ MayRead(c) /\ HasRing(c)
  /\ used[RingOf(c)] < Capacity
  /\ n <= sock[c] /\ n <= Capacity - used[RingOf(c)]
  /\ sock' = [sock EXCEPT ![c] = sock[c] - n]
  /\ used' = [used EXCEPT ![RingOf(c)] = used[RingOf(c)] + n]
  /\ call' = "read" /\ reading' = c
  /\ UNCHANGED <<connVars, pollVars, sent, ringVars, visits, sweep>>

NetReadNoPause ==            \* mutant: the mark is compared with the capacity
  /\ call = "read"
  /\ IF used[RingOf(reading)] > Capacity
       THEN /\ registered' = registered \ {reading}
            /\ refused' = refused \ {reading}
            /\ armed' = armed \ {reading}
            /\ is_paused' = [is_paused EXCEPT ![reading] = TRUE]
       ELSE UNCHANGED pollVars
  /\ call' = "none" /\ reading' = 0
  /\ UNCHANGED <<connVars, sock, sent, ringVars, used, visits, sweep>>

(* Backpressure: above the high watermark the connection is taken off the  *)
(* poller; its queued event goes with it.  The result of deregister is     *)
(* ignored too: it fails only for a connection that is already off.        *)
NetReadWatermark ==
  /\ call = "read"
  /\ IF used[RingOf(reading)] > HighWatermark
       THEN /\ registered' = registered \ {reading}
            /\ refused' = refused \ {reading}
            /\ armed' = armed \ {reading}
            /\ is_paused' = [is_paused EXCEPT ![reading] = TRUE]
       ELSE UNCHANGED pollVars
  /\ call' = "none" /\ reading' = 0
  /\ UNCHANGED <<connVars, sock, sent, ringVars, used, visits, sweep>>

(* The path without a ring copies into the caller's buffer. *)
NetReadPlain(c, n) ==
  /\ MayRead(c) /\ ~HasRing(c)
  /\ n <= sock[c]
  /\ sock' = [sock EXCEPT ![c] = sock[c] - n]
  /\ UNCHANGED <<connVars, pollVars, sent, ringVars, used, callVars>>

(* The call fails, the socket being empty or the ring full: the host goes  *)
(* on to the next connection.                                              *)
NetReadFails(c) ==
  /\ call = "none" /\ c \in sweep
  /\ sock[c] = 0 \/ (HasRing(c) /\ used[RingOf(c)] >= Capacity)
  /\ sweep' = sweep \ {c}
  /\ UNCHANGED <<connVars, pollVars, sock, sent, ringVars, used,
                 call, reading, visits>>

-----------------------------------------------------------------------------
(* NetEngine::poll. *)

PollEnter ==
  /\ call = "none" /\ sweep = {}
  /\ call' = "poll"
  /\ visits' = {c \in Conns : conn_body_rings[c] # NoRing}
  /\ UNCHANGED <<connVars, pollVars, sock, sent, ringVars, used, reading, sweep>>

CanResume(c) ==
  /\ c \in connections /\ is_paused[c]
  /\ HasRing(c) /\ used[RingOf(c)] < LowWatermark

PollVisitNoRegister(c) ==    \* mutant: clears the pause without registering
  /\ call = "poll" /\ c \in visits
  /\ is_paused' = [is_paused EXCEPT ![c] = is_paused[c] /\ ~CanResume(c)]
  /\ visits' = visits \ {c}
  /\ UNCHANGED <<connVars, registered, refused, armed, sock, sent, ringVars,
                 used, call, reading, sweep>>

PollVisitDrains(c) ==        \* mutant: the loop takes the bindings it visits out
  /\ call = "poll" /\ c \in visits
  /\ IF CanResume(c)
       THEN /\ registered' = registered \cup {c}
            /\ armed' = armed \cup {c}
            /\ is_paused' = [is_paused EXCEPT ![c] = FALSE]
            /\ UNCHANGED refused
       ELSE UNCHANGED pollVars
  /\ visits' = visits \ {c}
  /\ conn_body_rings' = [conn_body_rings EXCEPT ![c] = NoRing]
  /\ UNCHANGED <<connVars, sock, sent, body_rings, used, call, reading, sweep>>

(* One turn of the loop over conn_body_rings.  The result of register is   *)
(* ignored: when the poller does not take the socket back, the pause is    *)
(* cleared all the same.                                                   *)
PollVisit(c) ==
  /\ call = "poll" /\ c \in visits
  /\ \/ /\ CanResume(c)
        /\ is_paused' = [is_paused EXCEPT ![c] = FALSE]
        /\ \/ /\ registered' = registered \cup {c} /\ armed' = armed \cup {c}
              /\ UNCHANGED refused
           \/ /\ refused' = refused \cup {c}
              /\ UNCHANGED <<registered, armed>>
     \/ ~CanResume(c) /\ UNCHANGED pollVars
  /\ visits' = visits \ {c}
  /\ UNCHANGED <<connVars, sock, sent, ringVars, used, call, reading, sweep>>

PollReturnUncounted ==       \* mutant: the events are cleared, then counted
  /\ call = "poll" /\ visits = {}
  /\ armed # {} \/ Timeout = "finite"
  /\ armed' = {}
  /\ call' = "none"
  /\ UNCHANGED <<connVars, is_paused, registered, refused, sock, sent, ringVars,
                 used, reading, visits, sweep>>

(* The wait returns with the queued events, and without any once a finite  *)
(* timeout is over.                                                        *)
PollReturn ==
  /\ call = "poll" /\ visits = {}
  /\ armed # {} \/ Timeout = "finite"
  /\ sweep' = IF armed # {} THEN connections ELSE {}
  /\ armed' = {}
  /\ call' = "none"
  /\ UNCHANGED <<connVars, is_paused, registered, refused, sock, sent, ringVars,
                 used, reading, visits>>

(* The wait fails, interrupted by a signal: -1, and the events stay queued. *)
PollFails ==
  /\ call = "poll" /\ visits = {}
  /\ call' = "none"
  /\ UNCHANGED <<connVars, pollVars, sock, sent, ringVars, used,
                 reading, visits, sweep>>

-----------------------------------------------------------------------------
(* The environment: peers and ring consumers. *)

PeerSend(c, n) ==
  /\ c \in connections /\ sent[c] + n <= MaxSend
  /\ sent' = [sent EXCEPT ![c] = sent[c] + n]
  /\ sock' = [sock EXCEPT ![c] = sock[c] + n]
  /\ armed' = IF c \in registered THEN armed \cup {c} ELSE armed
  /\ UNCHANGED <<connVars, is_paused, registered, refused, ringVars, used,
                 callVars>>

Consume(d, n) ==
  /\ n <= used[d]
  /\ used' = [used EXCEPT ![d] = used[d] - n]
  /\ UNCHANGED <<connVars, pollVars, sock, sent, ringVars, callVars>>

-----------------------------------------------------------------------------
NetRead ==
  \/ \E c \in Conns, n \in 1 .. MaxSend : NetReadRing(c, n) \/ NetReadPlain(c, n)
  \/ \E c \in Conns : NetReadFails(c)

Poll == PollEnter \/ (\E c \in Conns : PollVisit(c)) \/ PollReturn
        \/ PollFails

Next ==
  \/ NetConnect \/ NetConnectUnregistered
  \/ \E c \in Conns : NetClose(c)
  \/ \E r \in RingIds, d \in Descs : RingRegister(r, d)
  \/ \E r \in RingIds : RingUnregister(r)
  \/ \E c \in Conns, r \in RingIds : BindBodyRing(c, r)
  \/ NetRead
  \/ NetReadWatermark
  \/ Poll
  \/ \E c \in Conns, n \in 1 .. MaxSend : PeerSend(c, n)
  \/ \E d \in Descs, n \in 1 .. Capacity : Consume(d, n)

Spec == Init /\ [][Next]_vars

(* The host keeps calling net_poll and reads after every event until       *)
(* net_read fails, a call in progress goes on, signals do not interrupt    *)
(* every wait, and the process at the other end of a ring keeps draining   *)
(* it.                                                                     *)
FairSpec ==
  /\ Spec
  /\ WF_vars(Poll) /\ SF_vars(PollReturn)
  /\ WF_vars(NetReadWatermark) /\ WF_vars(NetRead)
  /\ \A d \in Descs : WF_vars(\E n \in 1 .. Capacity : Consume(d, n))

-----------------------------------------------------------------------------
(* Properties. *)

(* Every variable has the type of the field it stands for. *)
TypeOK ==
  /\ next_conn_id \in 1 .. MaxConns + 1
  /\ connections \subseteq Conns
  /\ is_paused \in [Conns -> BOOLEAN]
  /\ registered \subseteq Conns /\ refused \subseteq Conns
  /\ armed \subseteq Conns
  /\ sock \in [Conns -> 0 .. MaxSend] /\ sent \in [Conns -> 0 .. MaxSend]
  /\ body_rings \in [RingIds -> Descs \cup {NoDesc}]
  /\ conn_body_rings \in [Conns -> RingIds \cup {NoRing}]
  /\ used \in [Descs -> 0 .. Capacity]
  /\ call \in {"none", "read", "poll"}
  /\ reading \in Conns \cup {0}
  /\ visits \subseteq Conns /\ sweep \subseteq Conns

(* The two records of backpressure, is_paused and the poller's registry,   *)
(* drift apart in one way only: a connection that is open, not paused and  *)
(* yet off the poller is one whose last register in poll failed.  What is  *)
(* paused or closed is off the poller, its queued event too.               *)
PausedIffOffPoller ==
  /\ registered = {c \in connections : ~is_paused[c] /\ c \notin refused}
  /\ refused \subseteq {c \in connections : ~is_paused[c]}
  /\ armed \subseteq registered

(* A paused connection is one that poll's loop over conn_body_rings will   *)
(* visit, whatever was closed or bound in the meantime.                    *)
PausedIsVisited ==
  \A c \in connections : is_paused[c] => conn_body_rings[c] # NoRing

(* What makes these inductive: ids are not given out again, a connection   *)
(* that is not open is not paused, the bytes in a socket were sent, and    *)
(* the ring net_read has just filled is still there when the call goes on  *)
(* to the watermark.                                                       *)
IdsAreFresh == \A c \in connections : c < next_conn_id
PausedIsOpen == \A c \in Conns : is_paused[c] => c \in connections
SockWasSent == \A c \in Conns : sock[c] <= sent[c]
ReadingHasRing == call = "read" => reading \in connections /\ HasRing(reading)

EngineInv ==
  /\ TypeOK
  /\ PausedIffOffPoller
  /\ PausedIsVisited
  /\ IdsAreFresh
  /\ PausedIsOpen
  /\ SockWasSent
  /\ ReadingHasRing

(* With a ring of its own, a connection that stays on the poller has room  *)
(* in its ring: the watermark is checked after the bytes are published,    *)
(* and the consumer running in between can only make the check stricter.   *)
FullRingIsPaused ==
  \A c \in connections :
    call # "read" /\ HasRing(c) /\ used[RingOf(c)] > HighWatermark
      => is_paused[c]

(* A wakeup is lost in one way only: when the host goes back to net_poll,  *)
(* a connection with bytes in its socket has an event queued, is paused,   *)
(* or is one that the poller refused when poll put it back.                *)
NoLostWakeup ==
  \A c \in connections :
    call # "read" /\ c \notin sweep /\ sock[c] > 0
      => c \in armed \/ is_paused[c] \/ c \in refused

(* Every byte a peer sends leaves the socket, through however many pauses  *)
(* and resumptions, unless the host closes the connection or the poller    *)
(* refuses to take it back.                                                *)
SocketDrained ==
  \A c \in Conns :
    c \in connections ~> (c \notin connections \/ sock[c] = 0 \/ c \in refused)

(* poll resumes every paused connection whose ring is drained.             *)
PausedResumes ==
  \A c \in Conns : is_paused[c] ~> ~is_paused[c]
=============================================================================
