----------------------------- MODULE AuthEngine -----------------------------
(***************************************************************************)
(* The trap-and-retry flow of HTTP authentication: AuthEngine keeps one    *)
(* AuthState per connection key, and the requests of Pipeline's            *)
(* execute_request call observe on the response and, given a challenge,    *)
(* build_retry_header before they send once more.                          *)
(*                                                                         *)
(* Each of the two calls holds the mutex of the states map for its own     *)
(* duration only, so requests that share a key (host, port and scheme)     *)
(* interleave between them.                                                *)
(***************************************************************************)
EXTENDS Naturals

CONSTANTS
  Tasks,         \* requests running concurrently
  Keys,          \* connection keys
  Offered        \* challenge headers the servers send

(* A challenge header: its scheme and the token behind it, absent, not     *)
(* base64, or base64 of fewer than 32 bytes or of at least 32.             *)
Schemes == {"Basic", "Digest", "Ntlm", "Negotiate", "Bearer", "Unknown"}
Headers == [scheme : Schemes, token : {"absent", "garbled", "short", "full"}]

ASSUME AuthAssumption == Offered \subseteq Headers

Challenges  == [scheme : Schemes, payload : {"empty", "short", "full"}]
NoChallenge == [scheme |-> "None", payload |-> "empty"]

(* The payload is decoded for NTLM and Negotiate only, and a token that    *)
(* does not decode counts as none.  The realm, and the scheme that observe *)
(* keeps in the AuthState, are written and never read.                     *)
ParseChallenge(h) ==
  [scheme  |-> h.scheme,
   payload |-> IF h.scheme \in {"Ntlm", "Negotiate"} /\ h.token \in {"short", "full"}
               THEN h.token ELSE "empty"]

(* What build_auth_response makes of a challenge in the default build,     *)
(* where Negotiate fails for want of the enterprise-auth feature.          *)
BuildAuthResponse(c) ==
  CASE c.scheme = "Ntlm" /\ c.payload = "empty" -> "Type1"
    [] c.scheme = "Ntlm" /\ c.payload = "full"  -> "Type3"
    [] c.scheme = "Basic"                       -> "Basic"
    [] OTHER                                    -> "Err"

VARIABLES
  phase,       \* AuthState.phase of a key
  retried,     \* AuthState.retried of a key
  pc,          \* "idle", "sent", "challenged", "retrying", "done"
  key,         \* the key of a task's request
  challenge,   \* the challenge observe gave the task
  answered,    \* headers handed out on a key since its last challenge
  rivals,      \* other tasks handed one since the task observed its challenge
  tries        \* headers built for the task's request

stateVars == <<phase, retried>>
ghostVars == <<answered, rivals, tries>>
vars == <<stateVars, pc, key, challenge, ghostVars>>

Init ==
  /\ phase = [k \in Keys |-> "Idle"]
  /\ retried = [k \in Keys |-> FALSE]
  /\ pc = [t \in Tasks |-> "idle"]
  /\ \E k \in Keys : key = [t \in Tasks |-> k]
  /\ challenge = [t \in Tasks |-> NoChallenge]
  /\ answered = [k \in Keys |-> 0]
  /\ rivals = [t \in Tasks |-> {}] /\ tries = [t \in Tasks |-> 0]

(* execute_request sends a request on a connection of the key's pool. *)
Send(t, k) ==
  /\ pc[t] \in {"idle", "done"}
  /\ pc' = [pc EXCEPT ![t] = "sent"]
  /\ key' = [key EXCEPT ![t] = k]
  /\ tries' = [tries EXCEPT ![t] = 0]
  /\ UNCHANGED <<stateVars, challenge, answered, rivals>>

ObserveKeepsRetried(t, h) ==   \* mutant: the reset of retried forgotten
  /\ pc[t] = "sent"
  /\ phase' = [phase EXCEPT ![key[t]] = "ChallengeReceived"]
  /\ answered' = [answered EXCEPT ![key[t]] = 0]
  /\ challenge' = [challenge EXCEPT ![t] = ParseChallenge(h)]
  /\ pc' = [pc EXCEPT ![t] = "challenged"]
  /\ UNCHANGED <<retried, key, rivals, tries>>

(* observe of a 401 or 407 that carries a challenge header. *)
ObserveChallenge(t, h) ==
  /\ pc[t] = "sent"
  /\ phase' = [phase EXCEPT ![key[t]] = "ChallengeReceived"]
  /\ retried' = [retried EXCEPT ![key[t]] = FALSE]
  /\ answered' = [answered EXCEPT ![key[t]] = 0]
  /\ challenge' = [challenge EXCEPT ![t] = ParseChallenge(h)]
  /\ pc' = [pc EXCEPT ![t] = "challenged"]
  /\ UNCHANGED <<key, rivals, tries>>

(* observe of a 2xx. *)
ObserveSuccess(t) ==
  /\ pc[t] = "sent"
  /\ phase' = [phase EXCEPT ![key[t]] = "Authenticated"]
  /\ pc' = [pc EXCEPT ![t] = "done"]
  /\ UNCHANGED <<retried, key, challenge, ghostVars>>

(* observe of any other status, or of a 401 or 407 without the header. *)
ObserveOther(t) ==
  /\ pc[t] = "sent"
  /\ pc' = [pc EXCEPT ![t] = "done"]
  /\ UNCHANGED <<stateVars, key, challenge, ghostVars>>

(* build_retry_header: refused, no answer to the scheme, or a header. *)
BuildRefused(t) ==
  /\ pc[t] = "challenged" /\ retried[key[t]]
  /\ pc' = [pc EXCEPT ![t] = "done"]
  /\ challenge' = [challenge EXCEPT ![t] = NoChallenge]
  /\ rivals' = [rivals EXCEPT ![t] = {}]
  /\ UNCHANGED <<stateVars, key, answered, tries>>

BuildUnsupported(t) ==
  /\ pc[t] = "challenged" /\ ~retried[key[t]]
  /\ BuildAuthResponse(challenge[t]) = "Err"
  /\ pc' = [pc EXCEPT ![t] = "done"]
  /\ challenge' = [challenge EXCEPT ![t] = NoChallenge]
  /\ rivals' = [rivals EXCEPT ![t] = {}]
  /\ UNCHANGED <<stateVars, key, answered, tries>>

BuildHeader(t) ==
  /\ pc[t] = "challenged" /\ ~retried[key[t]]
  /\ BuildAuthResponse(challenge[t]) # "Err"
  /\ retried' = [retried EXCEPT ![key[t]] = TRUE]
  /\ phase' = [phase EXCEPT ![key[t]] = "Authenticated"]
  /\ pc' = [pc EXCEPT ![t] = "retrying"]
  /\ challenge' = [challenge EXCEPT ![t] = NoChallenge]
  /\ answered' = [answered EXCEPT ![key[t]] = @ + 1]
  /\ rivals' = [s \in Tasks |-> IF s = t THEN {}
                                ELSE IF pc[s] = "challenged" /\ key[s] = key[t]
                                     THEN rivals[s] \cup {t} ELSE rivals[s]]
  /\ tries' = [tries EXCEPT ![t] = @ + 1]
  /\ UNCHANGED key

(* The request is sent once more; its response is not observed. *)
Resend(t) ==
  /\ pc[t] = "retrying"
  /\ pc' = [pc EXCEPT ![t] = "done"]
  /\ UNCHANGED <<stateVars, key, challenge, ghostVars>>

Next ==
  \E t \in Tasks :
    \/ \E k \in Keys : Send(t, k)
    \/ \E h \in Offered : ObserveChallenge(t, h)
    \/ ObserveSuccess(t) \/ ObserveOther(t)
    \/ BuildRefused(t) \/ BuildUnsupported(t) \/ BuildHeader(t)
    \/ Resend(t)

Spec == Init /\ [][Next]_vars

-----------------------------------------------------------------------------
(* Properties. *)

(* Every variable has the type of the field it stands for. *)
TypeOK ==
  /\ phase \in [Keys -> {"Idle", "ChallengeReceived", "Authenticated"}]
  /\ retried \in [Keys -> BOOLEAN]
  /\ pc \in [Tasks -> {"idle", "sent", "challenged", "retrying", "done"}]
  /\ key \in [Tasks -> Keys]
  /\ challenge \in [Tasks -> Challenges \cup {NoChallenge}]
  /\ answered \in [Keys -> Nat]
  /\ rivals \in [Tasks -> SUBSET Tasks] /\ tries \in [Tasks -> Nat]

(* However the requests that share a key interleave between observe and    *)
(* build_retry_header: between two challenges recorded for a key at most   *)
(* one header is handed out, and a request that is refused one has lost it *)
(* to another request, which got a header for the key after this request's *)
(* own challenge.  A flag left over from an earlier exchange refuses       *)
(* nobody.                                                                 *)
RefusedForARival ==
  /\ \A k \in Keys : answered[k] <= 1
  /\ \A t \in Tasks : pc[t] = "challenged" /\ retried[key[t]] => rivals[t] # {}

(* A request is sent again with a header at most once, whatever the server *)
(* answers: the response to the retry is not observed.                     *)
OneRetryPerRequest == \A t \in Tasks : tries[t] <= 1
=============================================================================
