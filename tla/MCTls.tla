-------------------------------- MODULE MCTls -------------------------------
(***************************************************************************)
(* The two TLS surfaces of the engine for TLC.  They share no state in the *)
(* code: a behaviour uses one of them, and the variables of TlsWire are    *)
(* those of its one connection.                                            *)
(***************************************************************************)
EXTENDS EngineTls, StandaloneTls

VARIABLE surface

engineOnly     == <<named, pumps, bound, closed, answers, raw>>
standaloneOnly == <<handle, call, eof>>
mcVars         == <<vars, standaloneOnly, surface>>

MCInit ==
  \/ /\ surface = "engine" /\ Init
     /\ handle = "none" /\ call = "none" /\ eof = FALSE
  \/ /\ surface = "standalone" /\ TlsInit
     /\ named = TRUE /\ pumps = FALSE /\ bound = FALSE /\ closed = FALSE
     /\ answers = << >> /\ raw = << >>

MCNext ==
  /\ UNCHANGED surface
  /\ \/ surface = "engine" /\ Next /\ UNCHANGED standaloneOnly
     \/ surface = "standalone" /\ TlsNext /\ UNCHANGED engineOnly

OnEngine(A)     == surface = "engine" /\ A /\ UNCHANGED <<standaloneOnly, surface>>
OnStandalone(A) == surface = "standalone" /\ A /\ UNCHANGED <<engineOnly, surface>>

(* The fairness of FairSpec and of FairTlsSpec, each on its surface. *)
MCSpec ==
  /\ MCInit /\ [][MCNext]_mcVars
  /\ WF_mcVars(OnEngine(NetRead)) /\ WF_mcVars(OnEngine(NetWriteEmpty))
  /\ WF_mcVars(OnEngine(Server))
  /\ WF_mcVars(OnStandalone(CreateStep)) /\ WF_mcVars(OnStandalone(ReadStep))
  /\ WF_mcVars(OnStandalone(TlsServer))
=============================================================================
