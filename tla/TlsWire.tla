------------------------------- MODULE TlsWire ------------------------------
(***************************************************************************)
(* What the two TLS surfaces of the engine have in common: a rustls        *)
(* ClientConnection, a server and the socket between them.  The caller     *)
(* sends numbered requests and the server echoes an answer to each.  What  *)
(* a read call takes off the socket it gives to read_tls once, and ignores *)
(* how much of it that took.                                               *)
(***************************************************************************)
EXTENDS Rustls

CONSTANTS
  MaxReq,      \* requests the caller writes
  PlainBuf,    \* answers that fill the plaintext buffer of rustls
  Verdicts     \* what the root store may say of the server's chain: only
               \* FALSE while the store is RootCertStore::empty()

ASSUME TlsWireAssumption ==
  MaxReq \in Nat /\ PlainBuf \in Nat \ {0} /\ Verdicts \subseteq BOOLEAN

VARIABLES
  trusted,   \* whether the root store verifies the server's chain
  cli,       \* the ClientConnection
  c2s, s2c,  \* records in flight
  srv,       \* server: "hello", "flight", "up", "down"
  served,    \* requests the server has received, in order
  lost,      \* records taken off the socket that rustls will never hand out
  written    \* requests the write call accepted with NS_OK
=============================================================================
