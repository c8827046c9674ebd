----------------------------- MODULE MCPipeline -----------------------------
(* Pipeline for TLC: two URLs of one host, http and https, that redirect   *)
(* to each other, and servers with one challenge that has an answer and    *)
(* one that has none.                                                      *)
EXTENDS Pipeline, TLC

CONSTANTS u1, u2, k1, k2, h1

MCKeyOf   == (u1 :> k1) @@ (u2 :> k2)
MCHostOf  == (k1 :> h1) @@ (k2 :> h1)
MCTargets == (u1 :> {u2}) @@ (u2 :> {u1, BadUrl})
MCOffered == {[scheme |-> "Ntlm", token |-> "full"],
              [scheme |-> "Negotiate", token |-> "garbled"]}
=============================================================================
