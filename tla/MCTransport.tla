----------------------------- MODULE MCTransport ----------------------------
(***************************************************************************)
(* The two surfaces of the engine above UDP, QUIC connections and the      *)
(* WebTransport registry, for TLC.  They share no state: a behaviour uses  *)
(* one of them.                                                            *)
(***************************************************************************)
EXTENDS Http3, WebTransport

VARIABLE surface

MCInit == Http3Init /\ Init /\ surface \in {"http3", "webtransport"}

MCNext ==
  /\ UNCHANGED surface
  /\ \/ surface = "http3" /\ Http3Next /\ UNCHANGED vars
     \/ surface = "webtransport" /\ Next /\ UNCHANGED http3Vars

MCSpec == MCInit /\ [][MCNext]_<<http3Vars, vars, surface>> /\ Http3Fairness
=============================================================================
