------------------------------- MODULE Rustls -------------------------------
(***************************************************************************)
(* The rustls ClientConnection as the engine uses it (external library),   *)
(* for a TLS 1.3 handshake: a record with                                  *)
(*   shaking   is_handshaking()                                            *)
(*   out       records queued for write_tls; wants_write() when not empty  *)
(*   early     plaintext written before the handshake is over              *)
(*   plain     decrypted plaintext that reader() has not handed out        *)
(*   torn      bytes of the stream were dropped in front of rustls         *)
(*   failed    processing ended in an error, for good                      *)
(* Records are "CH" (ClientHello), "SF" (the server's flight up to its     *)
(* Finished), "FIN" (the client's Finished), "ALERT", and "APP" with the   *)
(* number of the request it carries or answers; "CLEAR" is a request that  *)
(* is no TLS record at all.                                                *)
(***************************************************************************)
EXTENDS Naturals, Sequences

Handshake(type) == [type |-> type, num |-> 0]
App(k)          == [type |-> "APP", num |-> k]

NewClient ==
  [shaking |-> TRUE, out |-> <<Handshake("CH")>>, early |-> << >>, plain |-> << >>,
   torn |-> FALSE, failed |-> FALSE]

WantsWrite(c) == c.out # << >>

(* writer().write: plaintext waits for the handshake. *)
Write(c, x) ==
  IF c.shaking THEN [c EXCEPT !.early = Append(c.early, x)]
               ELSE [c EXCEPT !.out = Append(c.out, x)]

(* write_tls of n records. *)
Wrote(c, n) == [c EXCEPT !.out = SubSeq(c.out, n + 1, Len(c.out))]

(* process_new_packets of one record.  The server's flight ends the        *)
(* handshake, queues the client's Finished and, behind it, the plaintext   *)
(* written early.  A chain the root store does not verify is an error that *)
(* queues an alert instead, and so is any record behind a gap.             *)
Process(c, rec, trusted) ==
  IF c.torn \/ (rec.type = "SF" /\ ~trusted)
    THEN [c EXCEPT !.failed = TRUE, !.out = Append(c.out, Handshake("ALERT"))]
  ELSE IF rec.type = "SF"
    THEN [c EXCEPT !.shaking = FALSE,
                   !.out = c.out \o <<Handshake("FIN")>> \o c.early,
                   !.early = << >>]
    ELSE [c EXCEPT !.plain = Append(c.plain, rec)]

(* A run of records, up to the first error. *)
ProcessAll(c, recs, trusted) ==
  LET after[i \in 0 .. Len(recs)] ==
        IF i = 0 THEN c
        ELSE IF after[i - 1].failed THEN after[i - 1]
        ELSE Process(after[i - 1], recs[i], trusted)
  IN  after[Len(recs)]

(* One read_tls and process_new_packets on the bytes of recs.  A call of   *)
(* read_tls takes 4096 bytes at most: the first m records come in whole    *)
(* and what is behind them is dropped, or waits behind a gap.              *)
ReadTls(c, recs, m, trusted) ==
  [ProcessAll(c, SubSeq(recs, 1, m), trusted) EXCEPT !.torn = c.torn \/ m < Len(recs)]

(* Those of recs that will never come out as plaintext. *)
Missed(c, recs, m) == SubSeq(recs, (IF c.torn THEN 0 ELSE m) + 1, Len(recs))

(* peer_certificates() is Some once the handshake is over. *)
PeerCertificates(c) == ~c.shaking

(* reader().read of one answer. *)
ReadPlain(c) == [c EXCEPT !.plain = Tail(c.plain)]

(* The other end of the wire (external): what the server has seen and the  *)
(* records it sends next.  A server that is down reads no more.            *)
ServerStep(srv, rec) ==
  CASE rec.type = "CH"    -> [state |-> "flight", send |-> <<Handshake("SF")>>]
    [] rec.type = "FIN"   -> [state |-> "up",     send |-> << >>]
    [] rec.type = "ALERT" -> [state |-> "down",   send |-> << >>]
    [] rec.type = "CLEAR" -> [state |-> "down",   send |-> <<Handshake("ALERT")>>]
    [] OTHER              -> [state |-> srv,      send |-> <<rec>>]
=============================================================================
