------------------------------ MODULE WebSocket -----------------------------
(***************************************************************************)
(* The WebSocket manager: a pool of connections found by URL, the state of *)
(* each connection, and the frames that a peer sends it.                   *)
(*                                                                         *)
(* Everything runs on the host's thread; what interleaves is the calls:    *)
(* connect and disconnect on the same URL, data of several connections,    *)
(* cleanup after time has passed.  Pointers into the pool are references,  *)
(* as their types say.  connect leaves the connection OPEN: the code sends *)
(* no handshake yet.  Sending changes no state but the queue of pings,     *)
(* which nothing but pongs looks at; both are left out.  TEXT stands for   *)
(* the opcode BINARY too.                                                  *)
(*                                                                         *)
(* A peer keeps to RFC 6455: the fragments of a message follow each other  *)
(* with control frames between them at most, and nothing follows a close.  *)
(* Its frames are a stream of bytes: what the host passes on from one read *)
(* of it holds any number of frames and may end inside one.                *)
(***************************************************************************)
EXTENDS Naturals, Sequences

CONSTANTS
  Urls,
  MaxConns,     \* bounds next_connection_id
  MaxMsgs,      \* messages that the peers send, all together
  MaxFrames,    \* frames that the peers send, all together
  Timeout,      \* connection_timeout_seconds
  MaxCuts       \* how often what the host passes on ends inside one frame

ASSUME WebSocketAssumption ==
  /\ {MaxConns, MaxMsgs, MaxFrames, MaxCuts} \subseteq Nat
  /\ Timeout \in Nat \ {0}

Ids == 1 .. MaxConns

(* What decode may make of the middle of a frame, bytes of a payload taken *)
(* for a header: message and number 0 mark that nobody sent it.  (A ping   *)
(* or a pong of this kind does no more than an invalid opcode.)            *)
Junk == [op : {"TEXT", "CONTINUATION", "CLOSE"}, fin : BOOLEAN, big : {FALSE}, msg : {0}, no : {0}]

VARIABLES
  next_connection_id,
  connections,          \* ids in the pool
  url,                  \* id -> the URL it was made for
  state,                \* id -> WebSocketState; CLOSED is never assigned
  age,                  \* id -> now - last_activity_timestamp, at most Timeout
  current,              \* id -> fragments of current_message, none when null
  url_to_connection,    \* URL -> id, 0 when there is none
  event_handlers,       \* ids with a listener
  wire,                 \* id -> frames arrived and not yet given to the manager
  cut,                  \* id -> pieces already taken of the first of them
  talking,              \* id -> message the peer is in the middle of, or 0
  hungup,               \* ids whose peer has sent its close frame
  frames,               \* frames sent so far
  msgs,                 \* the connection of every message the peers began
  heard,                \* id -> fragments given to its listener, oldest first
  settled               \* history: messages completed or refused

poolVars == <<next_connection_id, connections, url, url_to_connection>>
peerVars == <<talking, hungup, frames, msgs>>
wireVars == <<wire, cut>>
mailVars == <<current, heard, settled>>
vars == <<poolVars, peerVars, wireVars, mailVars, state, age, event_handlers>>

Init ==
  /\ next_connection_id = 1 /\ connections = {}
  /\ url = [c \in Ids |-> "none"]
  /\ state = [c \in Ids |-> "CONNECTING"]
  /\ age = [c \in Ids |-> 0]
  /\ current = [c \in Ids |-> << >>]
  /\ url_to_connection = [u \in Urls |-> 0]
  /\ event_handlers = {}
  /\ wire = [c \in Ids |-> << >>] /\ cut = [c \in Ids |-> 0]
  /\ talking = [c \in Ids |-> 0] /\ hungup = {} /\ frames = 0 /\ msgs = << >>
  /\ heard = [c \in Ids |-> << >>]
  /\ settled = {}

-----------------------------------------------------------------------------
ReusableInAnyState(u) ==     \* mutant: does not ask for OPEN
  {c \in connections : c = url_to_connection[u]}

(* The connection createConnection returns instead of a new one. *)
Reusable(u) ==
  {c \in connections : c = url_to_connection[u] /\ state[c] = "OPEN"}

(* connect when the pool has an open connection: the handshake is done     *)
(* again.                                                                  *)
ConnectReuse(u) ==
  \E c \in Reusable(u) :
    /\ state' = [state EXCEPT ![c] = "OPEN"]
    /\ UNCHANGED <<poolVars, peerVars, wireVars, mailVars, age, event_handlers>>

(* connect with a new connection, which takes the URL over from an older   *)
(* one that is closing.                                                    *)
ConnectNew(u) ==
  LET c == next_connection_id IN
  /\ Reusable(u) = {}
  /\ c \in Ids
  /\ next_connection_id' = c + 1
  /\ connections' = connections \cup {c}
  /\ url' = [url EXCEPT ![c] = u]
  /\ url_to_connection' = [url_to_connection EXCEPT ![u] = c]
  /\ state' = [state EXCEPT ![c] = "OPEN"]
  /\ UNCHANGED <<peerVars, wireVars, mailVars, age, event_handlers>>

(* disconnect: the close frame is sent and the connection stays in the pool. *)
Disconnect(c) ==
  /\ c \in connections
  /\ state' = [state EXCEPT ![c] = "CLOSING"]
  /\ UNCHANGED <<poolVars, peerVars, wireVars, mailVars, age, event_handlers>>

AddEventListener(c) ==
  /\ c \in connections \ event_handlers
  /\ event_handlers' = event_handlers \cup {c}
  /\ UNCHANGED <<poolVars, peerVars, wireVars, mailVars, state, age>>

RemoveEventListener(c) ==
  /\ c \in event_handlers
  /\ event_handlers' = event_handlers \ {c}
  /\ UNCHANGED <<poolVars, peerVars, wireVars, mailVars, state, age>>

InactiveClosing(c) ==        \* mutant: removes connections being closed only
  state[c] = "CLOSING" /\ age[c] >= Timeout

(* not isActive *)
Inactive(c) == age[c] >= Timeout

(* WebSocketConnection.deinit: what a connection held is gone. *)
Deinit(gone) ==
  /\ url' = [c \in Ids |-> IF c \in gone THEN "none" ELSE url[c]]
  /\ state' = [c \in Ids |-> IF c \in gone THEN "CONNECTING" ELSE state[c]]
  /\ age' = [c \in Ids |-> IF c \in gone THEN 0 ELSE age[c]]
  /\ current' = [c \in Ids |-> IF c \in gone THEN << >> ELSE current[c]]
  /\ wire' = [c \in Ids |-> IF c \in gone THEN << >> ELSE wire[c]]
  /\ cut' = [c \in Ids |-> IF c \in gone THEN 0 ELSE cut[c]]
  /\ talking' = [c \in Ids |-> IF c \in gone THEN 0 ELSE talking[c]]
  /\ hungup' = hungup \ gone

CleanupKeepsUrl ==     \* mutant: removeConnection forgets url_to_connection
  LET gone == {c \in connections : Inactive(c)} IN
  /\ connections' = connections \ gone
  /\ Deinit(gone)
  /\ UNCHANGED <<next_connection_id, url_to_connection, heard, settled,
                 event_handlers, frames, msgs>>

(* cleanup: every inactive connection is removed whatever its state, and    *)
(* with it the entry of its URL, even one that names a newer connection.   *)
(* The listener stays.                                                     *)
Cleanup ==
  LET gone == {c \in connections : Inactive(c)} IN
  /\ connections' = connections \ gone
  /\ url_to_connection' =
       [u \in Urls |-> IF \E c \in gone : url[c] = u THEN 0
                       ELSE url_to_connection[u]]
  /\ Deinit(gone)
  /\ UNCHANGED <<next_connection_id, heard, settled, event_handlers, frames, msgs>>

-----------------------------------------------------------------------------
(* The data of one call of processIncomingData: n frames of the stream, and *)
(* a part of the next one if it ends inside a frame.  All of it is taken    *)
(* from the stream, and the loop breaks after the first frame: what follows *)
(* it in the data is dropped.                                              *)
Read(c, n, within) ==
  /\ c \in connections /\ n <= Len(wire[c])
  /\ IF within THEN n < Len(wire[c]) ELSE n > 0
  /\ wire' = [wire EXCEPT ![c] = SubSeq(@, n + 1, Len(@))]
  /\ cut' = [cut EXCEPT ![c] = (IF n = 0 THEN @ ELSE 0) + (IF within THEN 1 ELSE 0)]
  /\ cut'[c] <= MaxCuts
  /\ UNCHANGED <<poolVars, peerVars, event_handlers>>

(* The frames that decode may find at the start of this data: none that is *)
(* whole, or, once the stream was cut, whatever its bytes look like.       *)
Decoded(c, n) ==
  IF cut[c] > 0 THEN Junk ELSE IF n > 0 THEN {wire[c][1]} ELSE {}

(* decode succeeds, which counts as activity. *)
Take(c, f) ==
  /\ \E n \in 0 .. Len(wire[c]), within \in BOOLEAN :
       Read(c, n, within) /\ f \in Decoded(c, n)
  /\ age' = [age EXCEPT ![c] = 0]

(* InsufficientData: the error is returned and the data is gone. *)
DecodeFails(c) ==
  /\ \E n \in 0 .. Len(wire[c]), within \in BOOLEAN :
       Read(c, n, within) /\ (cut[c] > 0 \/ n = 0)
  /\ UNCHANGED <<mailVars, state, age>>

(* InvalidOpcode, which only bytes from inside a frame have. *)
InvalidOpcode(c) ==
  /\ cut[c] > 0
  /\ \E n \in 0 .. Len(wire[c]), within \in BOOLEAN : Read(c, n, within)
  /\ age' = [age EXCEPT ![c] = 0]
  /\ UNCHANGED <<mailVars, state>>

(* handleCompletedMessage: the listener of that moment gets the message. *)
HandleCompletedMessage(c, data) ==
  /\ heard' = [heard EXCEPT ![c] = IF c \in event_handlers THEN @ \o data ELSE @]
  /\ settled' = settled \cup {data[i].msg : i \in DOMAIN data}

AppendFrameFront(c, f) ==    \* mutant: a fragment goes before the others
  LET data == <<[msg |-> f.msg, no |-> f.no]>> \o current[c] IN
  IF f.fin
  THEN current' = [current EXCEPT ![c] = << >>] /\ HandleCompletedMessage(c, data)
  ELSE current' = [current EXCEPT ![c] = data] /\ UNCHANGED <<heard, settled>>

(* appendFrame, and what both callers do with a message that it completes. *)
AppendFrame(c, f) ==
  LET data == Append(current[c], [msg |-> f.msg, no |-> f.no]) IN
  IF f.fin
  THEN current' = [current EXCEPT ![c] = << >>] /\ HandleCompletedMessage(c, data)
  ELSE current' = [current EXCEPT ![c] = data] /\ UNCHANGED <<heard, settled>>

(* processDataFrame: a frame above max_message_size is refused, any other   *)
(* begins a message or, when one was begun, is appended to it.             *)
ProcessDataFrame(c, f) ==
  /\ Take(c, f) /\ f.op = "TEXT"
  /\ IF f.big
     THEN settled' = settled \cup {f.msg} /\ UNCHANGED <<current, heard>>
     ELSE AppendFrame(c, f)
  /\ UNCHANGED state

(* processContinuationFrame: without a message begun it is an error. *)
ProcessContinuationFrame(c, f) ==
  /\ Take(c, f) /\ f.op = "CONTINUATION"
  /\ IF current[c] = << >> THEN UNCHANGED mailVars ELSE AppendFrame(c, f)
  /\ UNCHANGED state

(* processPingFrame and processPongFrame: a pong is sent, or an error       *)
(* returned once the connection is closing; a ping is taken off the queue. *)
ProcessPingOrPong(c, f) ==
  /\ Take(c, f) /\ f.op \in {"PING", "PONG"}
  /\ UNCHANGED <<mailVars, state>>

(* processCloseFrame: the connection is closing; nothing is sent back. *)
ProcessCloseFrame(c, f) ==
  /\ Take(c, f) /\ f.op = "CLOSE"
  /\ state' = [state EXCEPT ![c] = "CLOSING"]
  /\ UNCHANGED mailVars

-----------------------------------------------------------------------------
(* The peer puts its next frame on the wire. *)
PeerSends(c, op, fin, big, m) ==
  /\ c \in connections \ hungup /\ frames < MaxFrames
  /\ frames' = frames + 1
  /\ wire' = [wire EXCEPT ![c] = Append(@, [op |-> op, fin |-> fin, big |-> big,
                                             msg |-> m, no |-> frames + 1])]
  /\ UNCHANGED <<poolVars, mailVars, cut, state, age, event_handlers>>

PeerBegins(c, fin, big) ==
  LET m == Len(msgs) + 1 IN
  /\ talking[c] = 0 /\ m <= MaxMsgs
  /\ PeerSends(c, "TEXT", fin, big, m)
  /\ msgs' = Append(msgs, c)
  /\ talking' = [talking EXCEPT ![c] = IF fin THEN 0 ELSE m]
  /\ UNCHANGED hungup

PeerContinues(c, fin) ==
  /\ talking[c] # 0
  /\ PeerSends(c, "CONTINUATION", fin, FALSE, talking[c])
  /\ talking' = [talking EXCEPT ![c] = IF fin THEN 0 ELSE @]
  /\ UNCHANGED <<hungup, msgs>>

PeerControls(c, op) ==
  /\ PeerSends(c, op, TRUE, FALSE, 0)
  /\ hungup' = IF op = "CLOSE" THEN hungup \cup {c} ELSE hungup
  /\ UNCHANGED <<msgs, talking>>

Tick ==
  /\ age' = [c \in Ids |-> IF c \in connections /\ age[c] < Timeout
                           THEN age[c] + 1 ELSE age[c]]
  /\ UNCHANGED <<poolVars, peerVars, wireVars, mailVars, state, event_handlers>>

-----------------------------------------------------------------------------
ProcessIncomingData(c) ==
  \/ \E f \in Junk \cup {wire[c][i] : i \in DOMAIN wire[c]} :
       \/ ProcessDataFrame(c, f) \/ ProcessContinuationFrame(c, f)
       \/ ProcessPingOrPong(c, f) \/ ProcessCloseFrame(c, f)
  \/ DecodeFails(c) \/ InvalidOpcode(c)

Peer(c) ==
  \/ \E fin, big \in BOOLEAN : PeerBegins(c, fin, big)
  \/ \E fin \in BOOLEAN : PeerContinues(c, fin)
  \/ \E op \in {"PING", "PONG", "CLOSE"} : PeerControls(c, op)

Host(c) ==
  \/ Disconnect(c) \/ AddEventListener(c) \/ RemoveEventListener(c)

Next ==
  \/ \E u \in Urls : ConnectReuse(u) \/ ConnectNew(u)
  \/ \E c \in Ids : Host(c) \/ ProcessIncomingData(c) \/ Peer(c)
  \/ Cleanup
  \/ Tick

Spec == Init /\ [][Next]_vars

(* The host calls cleanup again and again, and time passes. *)
FairSpec == Spec /\ WF_vars(Cleanup) /\ WF_vars(Tick)

-----------------------------------------------------------------------------
(* Properties. *)

(* An entry of url_to_connection names a connection that is in the pool,   *)
(* was made for that URL and is the newest made for it, however connects,  *)
(* disconnects and cleanups of connections with the same URL interleave.   *)
UrlNamesNewest ==
  \A u \in Urls : url_to_connection[u] # 0 =>
    /\ url_to_connection[u] \in connections
    /\ url[url_to_connection[u]] = u
    /\ \A c \in connections : url[c] = u => c <= url_to_connection[u]

(* Whatever is dropped, refused or cut, a listener hears the fragments of   *)
(* its own connection's peer only, none twice and all in the order sent,   *)
(* across messages and the frames of other connections; what no peer sent  *)
(* is heard only from a stream that was cut inside a frame.                *)
FragmentsInOrder ==
  \A c \in Ids :
    /\ \A i \in DOMAIN heard[c] :
         IF heard[c][i].msg = 0 THEN MaxCuts > 0 ELSE msgs[heard[c][i].msg] = c
    /\ \A i, j \in DOMAIN heard[c] :
         i < j /\ heard[c][i].msg # 0 /\ heard[c][j].msg # 0
           => heard[c][i].no < heard[c][j].no

(* Once the manager was given all of its frames, a message was heard,       *)
(* completed while nobody listened, or refused as too large: none is       *)
(* forgotten.                                                              *)
NoMessageForgotten ==
  \A m \in DOMAIN msgs :
    LET c == msgs[m] IN
    (c \in connections /\ wire[c] = << >> /\ talking[c] # m) => m \in settled

(* A connection that is closing never opens again, though connect marks     *)
(* whatever connection it got from the pool as open.                       *)
ClosingIsFinal ==
  [][\A c \in connections \cap connections' :
       state[c] = "CLOSING" => state'[c] = "CLOSING"]_vars

(* Every connection leaves the pool once its peer has fallen silent, closed *)
(* or not: cleanup looks at received frames only.                          *)
SilentIsRemoved == \A c \in Ids : c \in connections ~> c \notin connections
=============================================================================
