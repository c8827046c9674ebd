------------------------------ MODULE EngineTls -----------------------------
(***************************************************************************)
(* TLS on an engine connection to port 443: net_connect creates the        *)
(* ClientConnection, net_write pushes plaintext in and flushes ciphertext, *)
(* net_read feeds what the non-blocking socket has and hands out           *)
(* plaintext.  Only net_write ever calls write_tls.                        *)
(*                                                                         *)
(* The socket takes at most SockBuf records before it would block.         *)
(*                                                                         *)
(* net_read and net_write choose between three paths, and this module has  *)
(* them all: a body ring that is bound comes first, tlsconn second.  A     *)
(* ring may be bound at any time, and receives what the socket has, as it  *)
(* is.  A host that is no valid server name leaves tlsconn at None, and    *)
(* the connection to port 443 is a plain one.                              *)
(***************************************************************************)
EXTENDS TlsWire, FiniteSets

CONSTANTS
  SockBuf,     \* records the send buffer of the socket holds
  Names        \* whether hosts are valid server names

ASSUME EngineTlsAssumption == SockBuf \in Nat \ {0} /\ Names \subseteq BOOLEAN

VARIABLES
  named,     \* the host is a valid server name: tlsconn is Some, with cli
  bound,     \* a registered ring is bound to the connection
  pumps,     \* the host also calls net_write with no bytes
  closed,    \* the server has closed its end
  answers,   \* answers net_read handed to the host, in order
  raw        \* records handed over as they came, to the ring or the host

config == <<trusted, named, pumps>>
vars == <<trusted, named, pumps, bound, cli, c2s, s2c, srv, served, closed, written, answers,
          raw, lost>>

Init ==
  /\ trusted \in Verdicts /\ named \in Names /\ pumps \in BOOLEAN
  /\ bound = FALSE
  /\ cli = NewClient
  /\ c2s = << >> /\ s2c = << >>
  /\ srv = "hello" /\ served = << >> /\ closed = FALSE
  /\ written = 0 /\ answers = << >> /\ raw = << >> /\ lost = << >>

FlushForgets(c) ==        \* mutant: what the socket refused is dropped
  LET room == SockBuf - Len(c2s)
      n    == IF Len(c.out) <= room THEN Len(c.out) ELSE room
  IN  /\ c2s' = c2s \o SubSeq(c.out, 1, n)
      /\ cli' = Wrote(c, Len(c.out))

(* while wants_write { write_tls } up to WouldBlock. *)
Flush(c) ==
  LET room == SockBuf - Len(c2s)
      n    == IF Len(c.out) <= room THEN Len(c.out) ELSE room
  IN  /\ c2s' = c2s \o SubSeq(c.out, 1, n)
      /\ cli' = Wrote(c, n)

NetWriteClear ==          \* mutant: takes the plain path on a TLS connection
  /\ written < MaxReq /\ Len(c2s) < SockBuf
  /\ written' = written + 1
  /\ c2s' = Append(c2s, [type |-> "CLEAR", num |-> written + 1])
  /\ UNCHANGED <<config, bound, cli, s2c, srv, served, closed, answers, raw, lost>>

NetWrite ==
  /\ named /\ written < MaxReq
  /\ written' = written + 1
  /\ Flush(Write(cli, App(written + 1)))
  /\ UNCHANGED <<config, bound, s2c, srv, served, closed, answers, raw, lost>>

NetWriteEmptyReturns ==   \* mutant: returns at once when there are no bytes
  /\ pumps /\ named /\ WantsWrite(cli)
  /\ UNCHANGED vars

(* A call with data_len = 0 writes nothing and still flushes. *)
NetWriteEmpty ==
  /\ pumps /\ named /\ WantsWrite(cli)
  /\ Flush(cli)
  /\ UNCHANGED <<config, bound, s2c, srv, served, closed, written, answers, raw, lost>>

(* The path without tlsconn. *)
NetWritePlain ==
  /\ ~named /\ written < MaxReq /\ Len(c2s) < SockBuf
  /\ written' = written + 1
  /\ c2s' = Append(c2s, [type |-> "CLEAR", num |-> written + 1])
  /\ UNCHANGED <<config, bound, cli, s2c, srv, served, closed, answers, raw, lost>>

(* What net_read hands out once the socket was looked at. *)
HandOut(c) ==
  IF c.plain = << >>
    THEN cli' = c /\ UNCHANGED answers                    \* NS_ERROR_FAILURE
    ELSE cli' = ReadPlain(c) /\ answers' = Append(answers, Head(c.plain).num)

NetReadOverwrites(n, m) ==   \* mutant: new plaintext replaces what was not read
  /\ named /\ ~bound /\ n <= Len(s2c) /\ m <= n /\ Len(cli.plain) < PlainBuf
  /\ LET recs == SubSeq(s2c, 1, n)
         c    == ReadTls([cli EXCEPT !.plain = << >>], recs, m, trusted)
     IN  /\ IF c.failed THEN cli' = c /\ UNCHANGED answers ELSE HandOut(c)
         /\ lost' = lost \o Missed(cli, recs, m)
  /\ s2c' = SubSeq(s2c, n + 1, Len(s2c))
  /\ UNCHANGED <<config, bound, c2s, srv, served, closed, written, raw>>

(* The socket has n records, of which rustls gets m: they are processed,   *)
(* then plaintext is read, unless that failed.                             *)
NetReadBytes(n, m) ==
  /\ named /\ ~bound /\ n <= Len(s2c) /\ m <= n /\ Len(cli.plain) < PlainBuf
  /\ LET recs == SubSeq(s2c, 1, n)
         c    == ReadTls(cli, recs, m, trusted)
     IN  /\ IF c.failed THEN cli' = c /\ UNCHANGED answers ELSE HandOut(c)
         /\ lost' = lost \o Missed(cli, recs, m)
  /\ s2c' = SubSeq(s2c, n + 1, Len(s2c))
  /\ UNCHANGED <<config, bound, c2s, srv, served, closed, written, raw>>

(* read_tls refuses while its plaintext buffer is full: what was read off  *)
(* the socket is dropped, and the call fails before reader() is asked.     *)
NetReadFull(n) ==
  /\ named /\ ~bound /\ n <= Len(s2c) /\ Len(cli.plain) >= PlainBuf
  /\ cli' = [cli EXCEPT !.torn = TRUE]
  /\ lost' = lost \o SubSeq(s2c, 1, n)
  /\ s2c' = SubSeq(s2c, n + 1, Len(s2c))
  /\ UNCHANGED <<config, bound, c2s, srv, served, closed, written, answers, raw>>

(* WouldBlock: pending plaintext is still handed out.  When the server has *)
(* closed, read returns Ok(0) instead and the call fails before reader()   *)
(* is asked: it changes nothing.                                           *)
NetReadWouldBlock ==
  /\ named /\ ~bound /\ s2c = << >> /\ ~closed
  /\ cli.plain # << >>
  /\ HandOut(cli)
  /\ UNCHANGED <<config, bound, c2s, s2c, srv, served, closed, written, raw, lost>>

(* The ring path, which tlsconn has no part in, and the path without       *)
(* tlsconn: the bytes of the socket as they are.                           *)
TakeRaw(n) ==
  /\ n <= Len(s2c)
  /\ s2c' = SubSeq(s2c, n + 1, Len(s2c))
  /\ raw' = raw \o SubSeq(s2c, 1, n)
  /\ UNCHANGED <<config, bound, cli, c2s, srv, served, closed, written, answers, lost>>

NetReadRing(n)  == bound /\ TakeRaw(n)
NetReadPlain(n) == ~bound /\ ~named /\ TakeRaw(n)

BindBodyRing ==
  /\ ~bound
  /\ bound' = TRUE
  /\ UNCHANGED <<config, cli, c2s, s2c, srv, served, closed, written, answers, raw, lost>>

Server ==
  /\ c2s # << >> /\ ~closed /\ srv # "down"
  /\ LET rec  == Head(c2s)
         step == ServerStep(srv, rec)
     IN  /\ srv' = step.state
         /\ s2c' = s2c \o step.send
         /\ served' = IF rec.type = "APP" THEN Append(served, rec.num) ELSE served
  /\ c2s' = Tail(c2s)
  /\ UNCHANGED <<config, bound, cli, closed, written, answers, raw, lost>>

(* The server may close once it has answered every request or given up. *)
ServerClose ==
  /\ ~closed /\ (Len(served) = MaxReq \/ srv = "down")
  /\ closed' = TRUE
  /\ UNCHANGED <<config, bound, cli, c2s, s2c, srv, served, written, answers, raw, lost>>

NetRead ==
  \/ \E n \in 1 .. MaxReq + 1 :
       \/ \E m \in 0 .. MaxReq + 1 : NetReadBytes(n, m)
       \/ NetReadFull(n) \/ NetReadRing(n) \/ NetReadPlain(n)
  \/ NetReadWouldBlock

Next ==
  \/ NetWrite \/ NetWriteEmpty \/ NetWritePlain
  \/ BindBodyRing
  \/ NetRead
  \/ Server \/ ServerClose

Spec == Init /\ [][Next]_vars

(* The host keeps reading and, if it pumps, pumping; the server runs.      *)
(* Nothing obliges the host to have another request to write.              *)
FairSpec ==
  Spec /\ WF_vars(NetRead) /\ WF_vars(NetWriteEmpty) /\ WF_vars(Server)

-----------------------------------------------------------------------------
(* Properties. *)

(* Requests reach the server in the order net_write accepted them, none    *)
(* twice and none skipped, whether they were written before the handshake  *)
(* was over, cut short by a full socket, or later.                         *)
RequestsInOrder ==
  /\ Len(served) <= written
  /\ \A i \in 1 .. Len(served) : served[i] = i

(* The numbers that the application records among recs carry, in order. *)
Numbers(recs) ==
  LET upto[i \in 0 .. Len(recs)] ==
        IF i = 0 THEN << >>
        ELSE IF recs[i].type = "APP" THEN Append(upto[i - 1], recs[i].num)
        ELSE upto[i - 1]
  IN  upto[Len(recs)]

(* Every answer the server gave is in one place, in order: with the host,  *)
(* decrypted and not read, lost, in the ring as ciphertext, or in the      *)
(* socket.  Only a read whose bytes rustls did not all take, or one while  *)
(* its buffer is full, loses any, and what comes behind a gap is lost too  *)
(* and never handed out out of its order.  A ring that is bound in the     *)
(* middle of a session takes over at a record, and leaves what was         *)
(* decrypted before with rustls.                                           *)
AnswersInOnePlace ==
  /\ served = answers \o Numbers(cli.plain) \o Numbers(lost) \o Numbers(raw) \o Numbers(s2c)
  /\ Numbers(lost) # << >> => cli.torn

(* No request leaves the client before the server's chain was verified,    *)
(* unless the host was no server name; then nothing is ever encrypted.     *)
NothingBeforeVerified ==
  /\ (served # << >> \/ \E i \in 1 .. Len(c2s) : c2s[i].type = "APP")
       => named /\ trusted /\ ~cli.shaking
  /\ (\E i \in 1 .. Len(c2s) : c2s[i].type = "CLEAR") => ~named

(* A request net_write accepted is answered and the answer handed to the   *)
(* host, unless the server closes, the host binds a ring or a read loses   *)
(* bytes: with a host that pumps it does not stay in the queues of the     *)
(* client, whichever of net_read and net_write came last.                  *)
AcceptedIsAnswered ==
  \A k \in 1 .. MaxReq :
    (named /\ trusted /\ pumps /\ written >= k)
      ~> (closed \/ bound \/ cli.torn \/ \E i \in 1 .. Len(answers) : answers[i] = k)
=============================================================================
