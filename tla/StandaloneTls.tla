---------------------------- MODULE StandaloneTls ---------------------------
(***************************************************************************)
(* The standalone TLS surface of the engine (TlsState, net_tls_create,     *)
(* net_tls_read, net_tls_write, net_tls_close), for one handle.            *)
(*                                                                         *)
(* The stream is a blocking std::net::TcpStream without a read timeout: a  *)
(* read waits for bytes or for the end of the stream and never reports     *)
(* WouldBlock, so the WouldBlock arms of the loops in net_tls_create and   *)
(* net_tls_read are never taken, and a call that reads is in progress over *)
(* several steps.                                                          *)
(***************************************************************************)
EXTENDS TlsWire

VARIABLES
  handle,    \* "none", "creating", "null" (create failed), "open", "closed"
  call,      \* "none", or "read" while net_tls_read is in its loop
  eof        \* the server has closed its end

serverVars == <<srv, served, eof>>
tlsVars == <<trusted, handle, call, cli, c2s, s2c, srv, served, eof, written, lost>>

TlsInit ==
  /\ trusted \in Verdicts
  /\ handle = "none" /\ call = "none"
  /\ cli = NewClient
  /\ c2s = << >> /\ s2c = << >>
  /\ srv = "hello" /\ served = << >> /\ eof = FALSE
  /\ written = 0 /\ lost = << >>

-----------------------------------------------------------------------------
(* net_tls_create: TlsState::new, then the handshake loop. *)

CreateBegin ==
  /\ handle = "none"
  /\ handle' = "creating"
  /\ UNCHANGED <<trusted, call, cli, c2s, s2c, serverVars, written, lost>>

(* No address connects, or the host is no server name. *)
CreateUnreachable ==
  /\ handle = "none"
  /\ handle' = "null"
  /\ UNCHANGED <<trusted, call, cli, c2s, s2c, serverVars, written, lost>>

CreateSend ==
  /\ handle = "creating" /\ cli.shaking /\ WantsWrite(cli)
  /\ c2s' = c2s \o cli.out
  /\ cli' = Wrote(cli, Len(cli.out))
  /\ UNCHANGED <<trusted, handle, call, s2c, serverVars, written, lost>>

(* What the loops of create and read do with n records of the stream, of   *)
(* which rustls gets m.                                                    *)
Feed(n, m) ==
  /\ n <= Len(s2c) /\ m <= n
  /\ cli' = ReadTls(cli, SubSeq(s2c, 1, n), m, trusted)
  /\ lost' = lost \o Missed(cli, SubSeq(s2c, 1, n), m)
  /\ s2c' = SubSeq(s2c, n + 1, Len(s2c))

CreateReceiveUnverified(n, m) ==   \* mutant: the error of process_new_packets ignored
  /\ handle = "creating" /\ ~WantsWrite(cli)
  /\ Feed(n, m)
  /\ handle' = IF cli'.failed \/ ~cli'.shaking THEN "open" ELSE "creating"
  /\ UNCHANGED <<trusted, call, c2s, serverVars, written>>

CreateReceive(n, m) ==
  /\ handle = "creating" /\ ~WantsWrite(cli)
  /\ Feed(n, m)
  /\ handle' = IF cli'.failed THEN "null"
               ELSE IF cli'.shaking THEN "creating" ELSE "open"
  /\ UNCHANGED <<trusted, call, c2s, serverVars, written>>

CreateEof ==
  /\ handle = "creating" /\ ~WantsWrite(cli) /\ s2c = << >> /\ eof
  /\ handle' = "null"
  /\ UNCHANGED <<trusted, call, cli, c2s, s2c, serverVars, written, lost>>

-----------------------------------------------------------------------------
TlsWriteOnlyNew ==        \* mutant: sends the new record before what is queued
  /\ handle = "open" /\ call = "none" /\ written < MaxReq
  /\ written' = written + 1
  /\ c2s' = c2s \o <<App(written + 1)>> \o cli.out
  /\ cli' = [cli EXCEPT !.out = << >>]
  /\ UNCHANGED <<trusted, handle, call, s2c, serverVars, lost>>

(* net_tls_write: the plaintext goes in and everything queued goes out,    *)
(* the client's Finished of the handshake included.                        *)
TlsWrite ==
  /\ handle = "open" /\ call = "none" /\ written < MaxReq
  /\ written' = written + 1
  /\ LET c == Write(cli, App(written + 1))
     IN  /\ c2s' = c2s \o c.out
         /\ cli' = Wrote(c, Len(c.out))
  /\ UNCHANGED <<trusted, handle, call, s2c, serverVars, lost>>

(* net_tls_read: its loop reads the stream and feeds rustls until either   *)
(* fails; only behind the loop would it ask for plaintext.                 *)
TlsReadBegin ==
  /\ handle = "open" /\ call = "none"
  /\ call' = "read"
  /\ UNCHANGED <<trusted, handle, cli, c2s, s2c, serverVars, written, lost>>

TlsReadMore(n, m) ==
  /\ call = "read" /\ Len(cli.plain) < PlainBuf
  /\ Feed(n, m)
  /\ call' = IF cli'.failed THEN "none" ELSE "read"
  /\ UNCHANGED <<trusted, handle, c2s, serverVars, written>>

(* read_tls refuses: nothing ever makes room in its plaintext buffer. *)
TlsReadFull(n) ==
  /\ call = "read" /\ n <= Len(s2c) /\ Len(cli.plain) >= PlainBuf
  /\ cli' = [cli EXCEPT !.torn = TRUE]
  /\ lost' = lost \o SubSeq(s2c, 1, n)
  /\ s2c' = SubSeq(s2c, n + 1, Len(s2c))
  /\ call' = "none"
  /\ UNCHANGED <<trusted, handle, c2s, serverVars, written>>

TlsReadEofIgnored ==      \* mutant: end of stream taken for a short read
  /\ call = "read" /\ s2c = << >> /\ eof
  /\ UNCHANGED tlsVars

(* Ok(0): the call fails, and what rustls has decrypted stays there. *)
TlsReadEof ==
  /\ call = "read" /\ s2c = << >> /\ eof
  /\ call' = "none"
  /\ UNCHANGED <<trusted, handle, cli, c2s, s2c, serverVars, written, lost>>

(* The state leaves tls_states and the socket is shut down both ways: what *)
(* is on its way to the client stays there.                                *)
TlsClose ==
  /\ handle = "open" /\ call = "none"
  /\ handle' = "closed"
  /\ UNCHANGED <<trusted, call, cli, c2s, s2c, serverVars, written, lost>>

-----------------------------------------------------------------------------
(* The server echoes requests; it may close at any time. *)

TlsServer ==
  /\ c2s # << >> /\ ~eof /\ srv # "down"
  /\ LET rec  == Head(c2s)
         step == ServerStep(srv, rec)
     IN  /\ srv' = step.state
         /\ s2c' = s2c \o step.send
         /\ served' = IF rec.type = "APP" THEN Append(served, rec.num) ELSE served
  /\ c2s' = Tail(c2s)
  /\ UNCHANGED <<trusted, handle, call, cli, eof, written, lost>>

TlsServerClose ==
  /\ ~eof /\ handle # "none"
  /\ eof' = TRUE
  /\ UNCHANGED <<trusted, handle, call, cli, c2s, s2c, srv, served, written, lost>>

CreateStep ==
  \/ CreateSend \/ CreateEof
  \/ \E n \in 1 .. MaxReq + 1, m \in 0 .. MaxReq + 1 : CreateReceive(n, m)
ReadStep ==
  \/ \E n \in 1 .. MaxReq + 1, m \in 0 .. MaxReq + 1 : TlsReadMore(n, m)
  \/ \E n \in 1 .. MaxReq + 1 : TlsReadFull(n)
  \/ TlsReadEof

TlsNext ==
  \/ CreateBegin \/ CreateUnreachable \/ CreateStep
  \/ TlsWrite \/ TlsReadBegin \/ ReadStep \/ TlsClose
  \/ TlsServer \/ TlsServerClose

TlsSpec == TlsInit /\ [][TlsNext]_tlsVars

(* A call in progress goes on and the server answers; neither has to close. *)
FairTlsSpec == TlsSpec /\ WF_tlsVars(CreateStep) /\ WF_tlsVars(ReadStep) /\ WF_tlsVars(TlsServer)

-----------------------------------------------------------------------------
(* Properties. *)

(* What net_tls_verify_result says of a handle. *)
VerifyResult ==
  CASE handle # "open" -> "Rejected"
    [] handle = "open" /\ cli.shaking -> "NotEstablished"
    [] handle = "open" /\ ~cli.shaking /\ ~PeerCertificates(cli) -> "Rejected"
    [] OTHER -> "Accepted"

(* net_tls_create hands out a handle only when the handshake is over and   *)
(* the chain was verified, so every later operation runs on an             *)
(* authenticated session, and net_tls_verify_result, which looks only at   *)
(* whether there are certificates, never accepts a chain that was not.     *)
HandleMeansVerified ==
  /\ handle \in {"open", "closed"} => trusted /\ ~cli.shaking
  /\ VerifyResult = "Accepted" => trusted
  /\ VerifyResult # "NotEstablished"

(* Requests reach the server in order, each once, and never before the     *)
(* client's Finished, which create leaves for the first net_tls_write.     *)
TlsRequestsInOrder ==
  /\ \A i \in 1 .. Len(served) : served[i] = i
  /\ served # << >> => srv \notin {"hello", "flight"}

(* The calls on the blocking socket return, with a handle or without, once *)
(* the server has closed, and net_tls_create also while it stays, unless a *)
(* read has dropped bytes of the server's flight.                          *)
CallsReturn ==
  /\ handle = "creating" ~> handle \in {"open", "null"} \/ (cli.torn /\ ~eof)
  /\ (call = "read" /\ eof) ~> call = "none"

(* As the comments on net_tls_read have it: a call that has decrypted      *)
(* plaintext returns, to hand it out.                                      *)
ReadExposesPlaintext == (call = "read" /\ cli.plain # << >>) ~> call = "none"
=============================================================================
