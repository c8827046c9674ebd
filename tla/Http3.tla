------------------------------- MODULE Http3 --------------------------------
(***************************************************************************)
(* QUIC connections of the engine: net_http3_connect creates one with a    *)
(* UDP socket of its own, net_http3_drive moves it, net_http3_close drops  *)
(* it.  quinn-proto does no I/O and keeps no clock: a datagram leaves, an  *)
(* answer is taken in and a timer fires only inside a call of drive.       *)
(*                                                                         *)
(* The rustls configuration has an empty root store, so no server's chain  *)
(* is trusted: the server's flight ends every handshake in a failure that  *)
(* the client reports with a CONNECTION_CLOSE.                             *)
(*                                                                         *)
(* The network between client and server loses, repeats and reorders       *)
(* datagrams, and the server may vanish.  drive reads until the socket is  *)
(* empty and then runs the timers and sends, so datagrams arrive while it  *)
(* runs: its reads and its sending are steps of their own.                 *)
(***************************************************************************)
EXTENDS Naturals

CONSTANTS
  MaxQuic,     \* calls of net_http3_connect: bounds next_quic_id
  MaxLoss      \* datagrams the network loses

ASSUME Http3Assumption == MaxQuic \in Nat \ {0} /\ MaxLoss \in Nat

QuicIds == 1 .. MaxQuic

VARIABLES
  next_quic_id,
  quic_conns,       \* keys of quic_conns and of quic_endpoints
  phase,            \* the quinn connection of an id
  outbox,           \* datagrams it wants to send
  due,              \* its timer that has expired, or "none"
  driving,          \* id of the net_http3_drive in progress, 0 if none
  toServer,         \* datagrams on their way, per id
  toClient,
  server,           \* the server's side of an id
  lost              \* datagrams lost so far

engineVars == <<next_quic_id, quic_conns>>
connVars   == <<phase, outbox, due>>
netVars    == <<toServer, toClient, server, lost>>
http3Vars  == <<engineVars, connVars, driving, netVars>>

Http3Init ==
  /\ next_quic_id = 1 /\ quic_conns = {}
  /\ phase = [c \in QuicIds |-> "none"]
  /\ outbox = [c \in QuicIds |-> {}]
  /\ due = [c \in QuicIds |-> "none"]
  /\ driving = 0
  /\ toServer = [c \in QuicIds |-> {}] /\ toClient = [c \in QuicIds |-> {}]
  /\ server = [c \in QuicIds |-> "none"]
  /\ lost = 0

-----------------------------------------------------------------------------
(* quinn-proto, as far as drive depends on it. *)

(* Connection::handle_event: rustls refuses the server's chain, whatever   *)
(* it is.  A closed connection answers what still comes with its close.    *)
OnDatagram(p) == IF p = "handshaking" THEN "failed" ELSE p

Answer(p) == IF p \in {"handshaking", "failed"} THEN {"Close"} ELSE {}

(* Connection::handle_timeout: what is not acknowledged is sent again, the *)
(* connection is idle for too long, or its time to answer late datagrams   *)
(* is over.                                                                *)
Probe(p, t) == IF p = "handshaking" /\ t = "loss" THEN {"ClientHello"} ELSE {}

OnTimeout(p, t) ==
  CASE p = "handshaking" /\ t = "idle" -> "timedOut"
    [] p = "failed" /\ t = "close"     -> "drained"
    [] OTHER                           -> p

(* The timers that may expire.  The idle one does so when drive is called  *)
(* too rarely, too; towards a server that is gone the probes sent before   *)
(* it make no difference.                                                  *)
Timers(c) ==
  CASE phase[c] = "handshaking" -> IF server[c] = "gone" THEN {"idle"} ELSE {"loss", "idle"}
    [] phase[c] = "failed"      -> {"close"}
    [] OTHER                    -> {}

-----------------------------------------------------------------------------
(* The engine's calls. *)

(* net_http3_connect: nothing is sent yet. *)
Connect ==
  LET c == next_quic_id IN
  /\ driving = 0 /\ c \in QuicIds
  /\ next_quic_id' = c + 1
  /\ quic_conns' = quic_conns \cup {c}
  /\ phase' = [phase EXCEPT ![c] = "handshaking"]
  /\ outbox' = [outbox EXCEPT ![c] = {"ClientHello"}]
  /\ UNCHANGED <<due, driving, netVars>>

(* The poller refuses the socket, the QUIC configuration is refused or     *)
(* endpoint.connect fails: the id is spent, and dropping the socket also   *)
(* takes it off the poller.                                                *)
ConnectFails ==
  /\ driving = 0 /\ next_quic_id \in QuicIds
  /\ next_quic_id' = next_quic_id + 1
  /\ UNCHANGED <<quic_conns, connVars, driving, netVars>>

DriveBegin(c) ==
  /\ driving = 0 /\ c \in quic_conns
  /\ driving' = c
  /\ UNCHANGED <<engineVars, connVars, netVars>>

(* One turn of the loop over recv_from. *)
DriveReceive(c) ==
  /\ driving = c /\ toClient[c] # {}
  /\ \E d \in toClient[c] : toClient' = [toClient EXCEPT ![c] = @ \ {d}]
  /\ phase' = [phase EXCEPT ![c] = OnDatagram(@)]
  /\ outbox' = [outbox EXCEPT ![c] = @ \cup Answer(phase[c])]
  /\ UNCHANGED <<engineVars, due, driving, toServer, server, lost>>

DriveSendNoTimers(c) ==        \* mutant: poll_timeout never consulted
  /\ driving = c /\ toClient[c] = {}
  /\ toServer' = [toServer EXCEPT ![c] = @ \cup outbox[c]]
  /\ outbox' = [outbox EXCEPT ![c] = {}]
  /\ driving' = 0
  /\ UNCHANGED <<engineVars, phase, due, toClient, server, lost>>

(* The socket is empty: the timers that are due, then everything the       *)
(* connection wants to send.  Events for the endpoint, which would learn   *)
(* that a connection has drained, are never polled; it keeps the entry     *)
(* until net_http3_close drops both.                                       *)
DriveSend(c) ==
  /\ driving = c /\ toClient[c] = {}
  /\ toServer' = [toServer EXCEPT ![c] = @ \cup outbox[c] \cup Probe(phase[c], due[c])]
  /\ outbox' = [outbox EXCEPT ![c] = {}]
  /\ phase' = [phase EXCEPT ![c] = OnTimeout(@, due[c])]
  /\ due' = [due EXCEPT ![c] = "none"]
  /\ driving' = 0
  /\ UNCHANGED <<engineVars, toClient, server, lost>>

(* net_http3_close: the CONNECTION_CLOSE that connection.close queues is   *)
(* dropped with the connection, unsent; the socket is closed.              *)
Close(c) ==
  /\ driving = 0 /\ c \in quic_conns
  /\ quic_conns' = quic_conns \ {c}
  /\ outbox' = [outbox EXCEPT ![c] = {}]
  /\ toClient' = [toClient EXCEPT ![c] = {}]
  /\ UNCHANGED <<next_quic_id, phase, due, driving, toServer, server, lost>>

-----------------------------------------------------------------------------
(* The clock, the network and the server. *)

Expire(c) ==
  /\ c \in quic_conns /\ due[c] = "none"
  /\ \E t \in Timers(c) : due' = [due EXCEPT ![c] = t]
  /\ UNCHANGED <<engineVars, phase, outbox, driving, netVars>>

Lose(c) ==
  /\ lost < MaxLoss
  /\ lost' = lost + 1
  /\ \/ \E d \in toServer[c] : /\ toServer' = [toServer EXCEPT ![c] = @ \ {d}]
                               /\ UNCHANGED toClient
     \/ \E d \in toClient[c] : /\ toClient' = [toClient EXCEPT ![c] = @ \ {d}]
                               /\ UNCHANGED toServer
  /\ UNCHANGED <<engineVars, connVars, driving, server>>

(* The server takes a datagram in, and answers with its flight unless the  *)
(* client has closed; "keep" makes the datagram arrive once more.          *)
ServerStep(c, keep) ==
  \E d \in toServer[c] :
    /\ server[c] # "gone"
    /\ toServer' = [toServer EXCEPT ![c] = IF keep THEN @ ELSE @ \ {d}]
    /\ server' = [server EXCEPT ![c] =
         IF d = "Close" \/ @ = "closed" THEN "closed" ELSE "flight"]
    /\ toClient' = [toClient EXCEPT ![c] =
         IF server'[c] = "flight" /\ c \in quic_conns THEN @ \cup {"ServerHello"} ELSE @]
    /\ UNCHANGED <<engineVars, connVars, driving, lost>>

ServerGone(c) ==
  /\ server[c] # "gone"
  /\ server' = [server EXCEPT ![c] = "gone"]
  /\ UNCHANGED <<engineVars, connVars, driving, toServer, toClient, lost>>

-----------------------------------------------------------------------------
Drive(c) == DriveBegin(c) \/ DriveReceive(c) \/ DriveSend(c)

Http3Next ==
  \/ Connect \/ ConnectFails
  \/ \E c \in QuicIds :
       \/ Drive(c) \/ Close(c)
       \/ Expire(c) \/ Lose(c) \/ ServerGone(c)
       \/ \E keep \in BOOLEAN : ServerStep(c, keep)

(* The host drives every connection it has again and again, a drive ends   *)
(* although datagrams keep coming, time passes, and the server reads.      *)
Http3Fairness ==
  \A c \in QuicIds :
    /\ SF_http3Vars(DriveBegin(c))
    /\ WF_http3Vars(DriveReceive(c))
    /\ SF_http3Vars(DriveSend(c))
    /\ WF_http3Vars(Expire(c))
    /\ SF_http3Vars(ServerStep(c, FALSE))

-----------------------------------------------------------------------------
(* Properties. *)

(* A connection that is driven does not stay in its handshake, whatever    *)
(* the network loses: it learns that it failed, or that the server is      *)
(* silent.                                                                 *)
DrivenHandshakeEnds ==
  \A c \in QuicIds :
    phase[c] = "handshaking"
      ~> (phase[c] \in {"failed", "timedOut"} \/ c \notin quic_conns)
=============================================================================
