--------------------------- MODULE PipelineProofs ---------------------------
(***************************************************************************)
(* Proofs about Pipeline, for any tasks, keys, URLs, redirects and limits, *)
(* and whether or not execute_request keeps the guard of the pools.        *)
(*                                                                         *)
(* PipelineInv is inductive.  Its parts are proved to be kept one by one,  *)
(* each over the few shapes a step can have (StepShapes) and not over the  *)
(* twenty-four actions.                                                    *)
(***************************************************************************)
EXTENDS Pipeline, FiniteSetTheorems, SequenceTheorems, TLAPS

-----------------------------------------------------------------------------
(* The auth engine by itself, for any number of concurrent requests and    *)
(* keys.                                                                   *)

(* The flag that refuses a retry counts the headers since the last         *)
(* challenge.                                                              *)
FlagInStep == \A k \in Keys : answered[k] = IF retried[k] THEN 1 ELSE 0

RivalOf(t) == pc[t] = "challenged" /\ retried[key[t]] => rivals[t] # {}
TriesOf(t) == /\ pc[t] \in {"sent", "challenged"} => tries[t] = 0
              /\ tries[t] \in {0, 1}

AuthInv == TypeOK /\ FlagInStep /\ \A t \in Tasks : RivalOf(t) /\ TriesOf(t)

LEMMA AuthInit == Init => AuthInv
BY AuthAssumption, SMT
   DEF Init, AuthInv, TypeOK, FlagInStep, RivalOf, TriesOf

LEMMA AuthStep == AuthInv /\ [Next]_vars => AuthInv'
<1> SUFFICES ASSUME AuthInv, [Next]_vars PROVE AuthInv'
  OBVIOUS
<1> USE AuthAssumption
        DEF AuthInv, TypeOK, FlagInStep, RivalOf, TriesOf, stateVars, ghostVars
<1>1. ASSUME NEW t \in Tasks, NEW k \in Keys, Send(t, k)
      PROVE  AuthInv'
  BY <1>1, SMT DEF Send
<1>2. ASSUME NEW t \in Tasks, NEW h \in Offered, ObserveChallenge(t, h)
      PROVE  AuthInv'
  <2>1. key[t] \in Keys
    OBVIOUS
  <2>2. h.scheme \in Schemes /\ ParseChallenge(h) \in Challenges
    BY DEF ParseChallenge, Headers, Challenges
  <2>3. TypeOK'
    BY <1>2, <2>1, <2>2, SMT DEF ObserveChallenge
  <2>4. FlagInStep'
    BY <1>2, <2>1, SMT DEF ObserveChallenge
  <2>5. ASSUME NEW s \in Tasks PROVE RivalOf(s)' /\ TriesOf(s)'
    BY <1>2, <2>1, SMT DEF ObserveChallenge
  <2> QED
    BY <2>3, <2>4, <2>5
<1>3. ASSUME NEW t \in Tasks, ObserveSuccess(t)
      PROVE  AuthInv'
  <2>1. key[t] \in Keys
    OBVIOUS
  <2> QED
    BY <1>3, <2>1, SMT DEF ObserveSuccess
<1>4. ASSUME NEW t \in Tasks, ObserveOther(t)
      PROVE  AuthInv'
  BY <1>4, SMT DEF ObserveOther
<1>5. ASSUME NEW t \in Tasks, BuildRefused(t)
      PROVE  AuthInv'
  BY <1>5, SMT DEF BuildRefused
<1>6. ASSUME NEW t \in Tasks, BuildUnsupported(t)
      PROVE  AuthInv'
  BY <1>6, SMT DEF BuildUnsupported
<1>7. ASSUME NEW t \in Tasks, BuildHeader(t)
      PROVE  AuthInv'
  <2>1. key[t] \in Keys /\ answered[key[t]] = 0 /\ tries[t] = 0
    BY <1>7 DEF BuildHeader
  <2>2. TypeOK'
    BY <1>7, <2>1, SMT DEF BuildHeader
  <2>3. FlagInStep'
    BY <1>7, <2>1, SMT DEF BuildHeader
  <2>4. ASSUME NEW s \in Tasks PROVE RivalOf(s)'
    <3>1. CASE s = t
      BY <1>7, <3>1, SMT DEF BuildHeader
    <3>2. CASE s # t /\ pc[s] = "challenged" /\ key[s] = key[t]
      <4>1. t \in rivals'[s]
        BY <1>7, <3>2 DEF BuildHeader
      <4> QED BY <4>1
    <3>3. CASE s # t /\ ~(pc[s] = "challenged" /\ key[s] = key[t])
      BY <1>7, <2>1, <3>3, SMT DEF BuildHeader
    <3> QED
      BY <3>1, <3>2, <3>3
  <2>5. ASSUME NEW s \in Tasks PROVE TriesOf(s)'
    BY <1>7, <2>1, SMT DEF BuildHeader
  <2> QED
    BY <2>2, <2>3, <2>4, <2>5
<1>8. ASSUME NEW t \in Tasks, Resend(t)
      PROVE  AuthInv'
  BY <1>8, SMT DEF Resend
<1>9. CASE UNCHANGED vars
  BY <1>9 DEF vars
<1> QED
  BY <1>1, <1>2, <1>3, <1>4, <1>5, <1>6, <1>7, <1>8, <1>9 DEF Next

-----------------------------------------------------------------------------

Places == {"idle", "done", "permit", "request", "find", "create"} \cup Working

PipelineTypeOK ==
  /\ at \in [Tasks -> Places]
  /\ url \in [Tasks -> Urls \cup {BadUrl}]
  /\ redirects \in [Tasks -> Seq(Urls)] /\ visited \in [Tasks -> Seq(Urls)]
  /\ count \in [Tasks -> Nat] /\ conn \in [Tasks -> Nat]
  /\ poolsLock \in Tasks \cup {NoTask}
  /\ pools \in [Keys -> SUBSET [id : Nat, in_use : BOOLEAN]]
  /\ permits \in [Hosts -> Int]
  /\ metrics \in [total : Nat, successful : Nat, failed : Nat]
  /\ outcome \in [Tasks -> {"none", "error", "redirect", "response"}]
  /\ DOMAIN resp = Tasks /\ DOMAIN follow = Tasks

(* execute_request goes past its first line only with a URL that parses,   *)
(* and the response in hand is one the server of that URL can send.        *)
UrlInStep ==
  \A t \in Tasks :
    /\ at[t] \in Working \cup {"permit", "find", "create"} => url[t] \in Urls
    /\ at[t] \in {"observe", "build", "resend", "reply"}
         => resp[t] \in Responses(url[t])
    /\ at[t] = "build" => resp[t].kind = "challenge"

(* A request holds a connection of its own pool that is marked in use; the *)
(* ids of a pool are distinct, so the mark is the right one's.             *)
PoolsInStep ==
  /\ \A k \in Keys : IsFiniteSet(pools[k])
  /\ \A k \in Keys : \A c, d \in pools[k] : c.id = d.id => c = d
  /\ \A t \in Tasks : at[t] \in Working =>
       \E c \in pools[KeyNow(t)] : c.id = conn[t] /\ c.in_use

(* The redirects lag one URL behind the URLs requested, and two while a    *)
(* request is under way.                                                   *)
TrailOf(t) ==
  /\ at[t] \in {"idle", "done", "permit"}
       => visited[t] = << >> /\ redirects[t] = << >> /\ count[t] = 0
  /\ at[t] = "request"
       => /\ Len(visited[t]) = count[t]
          /\ redirects[t] = SubSeq(visited[t], 2, Len(visited[t]))
  /\ at[t] \in Working \cup {"find", "create"}
       => /\ Len(visited[t]) = count[t] + 1
          /\ url[t] = visited[t][Len(visited[t])]
          /\ redirects[t] = SubSeq(visited[t], 2, Len(visited[t]) - 1)

TrailInStep == \A t \in Tasks : TrailOf(t)

(* Where a task is in execute_request says what the AuthEngine expects of  *)
(* it next, on the key of the URL it requests.                             *)
AuthInStep ==
  \A t \in Tasks :
    /\ at[t] \notin {"observe", "build", "resend"} => pc[t] \in {"idle", "done"}
    /\ at[t] = "observe" => pc[t] = "sent" /\ key[t] = KeyNow(t)
    /\ at[t] = "build" => pc[t] = "challenged" /\ key[t] = KeyNow(t)
    /\ at[t] = "resend" => pc[t] = "retrying" /\ key[t] = KeyNow(t)

PipelineInv ==
  /\ PipelineTypeOK /\ UrlInStep /\ PoolsInStep /\ HandleExclusive
  /\ TrailInStep /\ AuthInStep

-----------------------------------------------------------------------------
(* The shapes of a step: a request under way goes on, or fetch returns;    *)
(* the other shapes are actions of their own.                              *)
Advances(t) ==
  /\ at[t] \in Working \ {"reply"}
  /\ \E a \in Working : at' = [at EXCEPT ![t] = a]
  /\ DOMAIN resp' = DOMAIN resp
  /\ UNCHANGED <<fetchVars, conn, outcome, fetches, poolVars, permits, metrics>>

Finishes(t) ==
  /\ at[t] \in Working \cup {"request"}
  /\ \E how \in {"error", "redirect", "response"} :
       /\ Return(t, how)
       /\ IF how = "response" THEN UpdateMetrics(resp[t]) ELSE UNCHANGED metrics
  /\ UNCHANGED permits

LEMMA FinishingSteps ==
  ASSUME NEW t \in Tasks,
         \/ RequestInvalid(t) \/ ResolveDnsFails(t) \/ ConnectFails(t)
         \/ TlsHandshakeFails(t) \/ SendHttpRequestFails(t) \/ ResendFails(t)
         \/ TooManyRedirects(t) \/ ReturnRedirect(t) \/ ReturnResponse(t)
  PROVE  Finishes(t)
<1>1. CASE \/ RequestInvalid(t) \/ ResolveDnsFails(t) \/ ConnectFails(t)
           \/ TlsHandshakeFails(t) \/ SendHttpRequestFails(t) \/ ResendFails(t)
           \/ TooManyRedirects(t)
  BY <1>1 DEF RequestInvalid, ResolveDnsFails, ConnectFails, TlsHandshakeFails,
       SendHttpRequestFails, ResendFails, TooManyRedirects, Fail, Finishes, Working
<1>2. CASE ReturnRedirect(t) \/ ReturnResponse(t)
  BY <1>2 DEF ReturnRedirect, ReturnResponse, Finishes, Working
<1> QED
  BY <1>1, <1>2

LEMMA StepShapes ==
  ASSUME NEW t \in Tasks, Step(t)
  PROVE  \/ DropPermit(t) \/ LockPools(t) \/ FindConnection(t)
         \/ CreateConnection(t) \/ Advances(t) \/ FollowRedirect(t)
         \/ Finishes(t)
<1>1. ASSUME \/ ResolveDns(t) \/ EstablishConnection(t) \/ TlsHandshake(t)
             \/ SendHttpRequest(t) \/ Observe(t) \/ BuildRetryHeader(t)
             \/ NoRetryHeader(t) \/ ResendHttpRequest(t)
      PROVE  Advances(t)
  BY <1>1, SMT DEF ResolveDns, EstablishConnection, TlsHandshake, SendHttpRequest,
       Observe, BuildRetryHeader, NoRetryHeader, ResendHttpRequest, Advances,
       Working, fetchVars, poolVars
<1> QED
  BY <1>1, FinishingSteps DEF Step

LEMMA NextShapes ==
  ASSUME [PipelineNext]_pvars
  PROVE  \/ \E t \in Tasks :
              \/ \E u \in Urls, f \in BOOLEAN : AcquireRateLimit(t, u, f)
              \/ \E u \in Urls \cup {BadUrl} : RateLimitRefuses(t, u)
              \/ DropPermit(t) \/ LockPools(t) \/ FindConnection(t)
              \/ CreateConnection(t) \/ Advances(t) \/ FollowRedirect(t)
              \/ Finishes(t)
         \/ UNCHANGED pvars
BY StepShapes, Zenon DEF PipelineNext

LEMMA TypeInit == PipelineInit => PipelineTypeOK
BY PipelineAssumption, SMT
   DEF PipelineInit, PipelineTypeOK, Places, NoConn, Hosts

(* There is a fresh id: a finite pool does not use up one id more than it  *)
(* has connections.                                                        *)
LEMMA SomeIdIsFree ==
  ASSUME NEW P, IsFiniteSet(P)
  PROVE  \E i \in 1 .. Cardinality(P) + 1 : \A c \in P : c.id # i
<1> DEFINE Ids == 1 .. Cardinality(P) + 1
<1> SUFFICES ASSUME \A i \in Ids : \E c \in P : c.id = i
             PROVE  FALSE
  OBVIOUS
<1> DEFINE Holder == [i \in Ids |-> CHOOSE c \in P : c.id = i]
<1>1. \A i \in Ids : Holder[i] \in P /\ Holder[i].id = i
  OBVIOUS
<1>2. Holder \in [Ids -> P]
  BY <1>1
<1>3. IsFiniteSet(Ids) /\ Cardinality(P) < Cardinality(Ids)
  <2>1. Cardinality(P) \in Nat
    BY FS_CardinalityType
  <2> QED
    BY <2>1, FS_Interval
<1> HIDE DEF Holder, Ids
<1>4. \E i, j \in Ids : i # j /\ Holder[i] = Holder[j]
  BY <1>2, <1>3, FS_PigeonHole
<1> QED
  BY <1>1, <1>4

LEMMA FreshIdIsFresh ==
  ASSUME PipelineTypeOK, NEW k \in Keys, IsFiniteSet(pools[k])
  PROVE  FreshId(k) \in Nat /\ \A c \in pools[k] : c.id # FreshId(k)
<1>1. Cardinality(pools[k]) \in Nat
  BY FS_CardinalityType
<1>2. \E i \in 1 .. Cardinality(pools[k]) + 1 : \A c \in pools[k] : c.id # i
  BY SomeIdIsFree
<1> QED
  BY <1>1, <1>2 DEF FreshId

LEMMA TypeStep ==
  PipelineTypeOK /\ UrlInStep /\ PoolsInStep /\ [PipelineNext]_pvars
    => PipelineTypeOK'
<1> SUFFICES ASSUME PipelineTypeOK, UrlInStep, PoolsInStep, [PipelineNext]_pvars
             PROVE  PipelineTypeOK'
  OBVIOUS
<1> USE PipelineAssumption DEF PipelineTypeOK, Places, poolVars, fetchVars
<1>1. ASSUME NEW t \in Tasks, NEW u \in Urls, NEW f \in BOOLEAN,
             AcquireRateLimit(t, u, f)
      PROVE  PipelineTypeOK'
  <2>1. HostOf[KeyOf[u]] \in Hosts
    BY DEF Hosts
  <2>2. permits' \in [Hosts -> Int]
    BY <1>1, <2>1 DEF AcquireRateLimit
  <2>3. DOMAIN follow' = Tasks /\ url' \in [Tasks -> Urls \cup {BadUrl}]
    BY <1>1 DEF AcquireRateLimit
  <2>4. /\ at' \in [Tasks -> Places]
        /\ outcome' \in [Tasks -> {"none", "error", "redirect", "response"}]
    BY <1>1 DEF AcquireRateLimit
  <2> QED
    BY <1>1, <2>2, <2>3, <2>4 DEF AcquireRateLimit
<1>2. ASSUME NEW t \in Tasks, NEW u \in Urls \cup {BadUrl}, RateLimitRefuses(t, u)
      PROVE  PipelineTypeOK'
  BY ZenonT(60), <1>2, SMT DEF RateLimitRefuses
<1>3. ASSUME NEW t \in Tasks, DropPermit(t)
      PROVE  PipelineTypeOK'
  <2>1. HostOf[KeyNow(t)] \in Hosts
    BY <1>3 DEF DropPermit, UrlInStep, KeyNow, Hosts
  <2>2. permits' \in [Hosts -> Int]
    BY <1>3, <2>1 DEF DropPermit
  <2> QED
    BY ZenonT(60), <1>3, <2>2, SMT DEF DropPermit
<1>4. ASSUME NEW t \in Tasks, LockPools(t)
      PROVE  PipelineTypeOK'
  <2>1. KeyNow(t) \in Keys /\ url[t] \in Urls
    BY <1>4 DEF LockPools, KeyNow
  <2>2. PICK pool \in CleanupConnectionPool(pools[KeyNow(t)]) :
              pools' = [pools EXCEPT ![KeyNow(t)] = pool]
    BY <1>4 DEF LockPools
  <2>3. pool \subseteq pools[KeyNow(t)]
    BY <2>2 DEF CleanupConnectionPool
  <2>4. pools' \in [Keys -> SUBSET [id : Nat, in_use : BOOLEAN]]
    BY <2>1, <2>2, <2>3
  <2>5. Append(visited[t], url[t]) \in Seq(Urls)
    BY <2>1
  <2> QED
    BY <1>4, <2>4, <2>5, SMT DEF LockPools
<1>5. ASSUME NEW t \in Tasks, FindConnection(t)
      PROVE  PipelineTypeOK'
  <2>1. KeyNow(t) \in Keys
    BY <1>5 DEF FindConnection, UrlInStep, KeyNow
  <2>2. CASE UNCHANGED <<conn, pools>> /\ at' = [at EXCEPT ![t] = "create"]
    BY <1>5, <2>2, SMT DEF FindConnection
  <2>3. ASSUME NEW c \in pools[KeyNow(t)],
               pools' = [pools EXCEPT ![KeyNow(t)] =
                           (@ \ {c}) \cup {[c EXCEPT !.in_use = TRUE]}],
               conn' = [conn EXCEPT ![t] = c.id],
               at' = [at EXCEPT ![t] = "resolve"]
        PROVE  PipelineTypeOK'
    <3>1. c \in [id : Nat, in_use : BOOLEAN]
      BY <2>1
    <3>2. /\ c.id \in Nat
          /\ [c EXCEPT !.in_use = TRUE] \in [id : Nat, in_use : BOOLEAN]
      BY <3>1
    <3>3. pools' \in [Keys -> SUBSET [id : Nat, in_use : BOOLEAN]]
      BY <2>1, <2>3, <3>2
    <3> QED
      BY ZenonT(60), <1>5, <2>3, <3>2, <3>3, SMT DEF FindConnection, Working
  <2> QED
    BY <1>5, <2>2, <2>3, Zenon DEF FindConnection
<1>6. ASSUME NEW t \in Tasks, CreateConnection(t)
      PROVE  PipelineTypeOK'
  <2>1. KeyNow(t) \in Keys
    BY <1>6 DEF CreateConnection, UrlInStep, KeyNow
  <2>2. FreshId(KeyNow(t)) \in Nat
    BY <2>1, FreshIdIsFresh DEF PoolsInStep
  <2>3. [id |-> FreshId(KeyNow(t)), in_use |-> TRUE] \in [id : Nat, in_use : BOOLEAN]
    BY <2>2
  <2>4. pools' \in [Keys -> SUBSET [id : Nat, in_use : BOOLEAN]]
    BY <1>6, <2>1, <2>3 DEF CreateConnection
  <2> QED
    BY <1>6, <2>2, <2>4, SMT DEF CreateConnection, Working
<1>7. ASSUME NEW t \in Tasks, Advances(t)
      PROVE  PipelineTypeOK'
  BY <1>7, SMT DEF Advances
<1>8. ASSUME NEW t \in Tasks, FollowRedirect(t)
      PROVE  PipelineTypeOK'
  <2>1. url[t] \in Urls /\ resp[t] \in Responses(url[t]) /\ resp[t].kind = "redirect"
    BY <1>8 DEF FollowRedirect, UrlInStep, Working
  <2>2. resp[t].to \in Urls \cup {BadUrl}
    BY <2>1 DEF Responses
  <2>3. redirects' \in [Tasks -> Seq(Urls)]
    BY <1>8, <2>1 DEF FollowRedirect
  <2> QED
    BY <1>8, <2>2, <2>3, SMT DEF FollowRedirect, NoConn, DropGuard
<1>9. ASSUME NEW t \in Tasks, Finishes(t)
      PROVE  PipelineTypeOK'
  <2>1. metrics' \in [total : Nat, successful : Nat, failed : Nat]
    <3>1. UpdateMetrics(resp[t]) \/ UNCHANGED metrics
      BY <1>9 DEF Finishes
    <3>2. CASE UpdateMetrics(resp[t])
      BY SMTT(60), <3>2 DEF UpdateMetrics
    <3> QED
      BY <3>1, <3>2
  <2>2. PICK how \in {"error", "redirect", "response"} : Return(t, how)
    BY <1>9 DEF Finishes
  <2>3. << >> \in Seq(Urls)
    OBVIOUS
  <2> QED
    BY ZenonT(60), <1>9, <2>1, <2>2, <2>3, SMT DEF Finishes, Return, NoConn, DropGuard
<1>10. CASE UNCHANGED pvars
  BY <1>10 DEF pvars
<1> HIDE DEF PipelineTypeOK
<1> QED
  BY <1>1, <1>2, <1>3, <1>4, <1>5, <1>6, <1>7, <1>8, <1>9, <1>10, NextShapes

LEMMA UrlStep ==
  PipelineTypeOK /\ UrlInStep /\ [PipelineNext]_pvars => UrlInStep'
<1> SUFFICES ASSUME PipelineTypeOK, UrlInStep, PipelineNext PROVE UrlInStep'
  BY DEF UrlInStep, pvars, Working, Responses
<1> USE DEF PipelineTypeOK, UrlInStep, Places, Working, poolVars, fetchVars
<1>1. ASSUME NEW t \in Tasks, NEW u \in Urls, NEW f \in BOOLEAN,
             AcquireRateLimit(t, u, f)
      PROVE  UrlInStep'
  BY <1>1 DEF AcquireRateLimit
<1>2. ASSUME NEW t \in Tasks, NEW u \in Urls \cup {BadUrl}, RateLimitRefuses(t, u)
      PROVE  UrlInStep'
  BY <1>2 DEF RateLimitRefuses
<1>3. ASSUME NEW t \in Tasks, DropPermit(t)
      PROVE  UrlInStep'
  BY <1>3 DEF DropPermit
<1>4. ASSUME NEW t \in Tasks, LockPools(t) \/ FindConnection(t) \/ CreateConnection(t)
      PROVE  UrlInStep'
  BY <1>4 DEF LockPools, FindConnection, CreateConnection
<1>5. ASSUME NEW t \in Tasks,
             ResolveDns(t) \/ EstablishConnection(t) \/ TlsHandshake(t)
      PROVE  UrlInStep'
  BY <1>5 DEF ResolveDns, EstablishConnection, TlsHandshake
<1>6. ASSUME NEW t \in Tasks, SendHttpRequest(t) \/ ResendHttpRequest(t)
      PROVE  UrlInStep'
  BY ZenonT(60), <1>6 DEF SendHttpRequest, ResendHttpRequest
<1>7. ASSUME NEW t \in Tasks, Observe(t) \/ BuildRetryHeader(t) \/ NoRetryHeader(t)
      PROVE  UrlInStep'
  BY <1>7 DEF Observe, BuildRetryHeader, NoRetryHeader
<1>8. ASSUME NEW t \in Tasks, FollowRedirect(t)
      PROVE  UrlInStep'
  BY <1>8 DEF FollowRedirect
<1>9. ASSUME NEW t \in Tasks, Finishes(t)
      PROVE  UrlInStep'
  <2>1. PICK how : Return(t, how)
    BY <1>9 DEF Finishes
  <2> QED
    BY <2>1 DEF Return
<1> HIDE DEF UrlInStep
<1>10. ASSUME NEW t \in Tasks, Step(t)
       PROVE  UrlInStep'
  BY <1>3, <1>4, <1>5, <1>6, <1>7, <1>8, <1>9, <1>10, FinishingSteps DEF Step
<1> QED
  BY <1>1, <1>2, <1>10 DEF PipelineNext

(* A step after which the requests under way are some of those before it,  *)
(* on the same connections, and after which the pools have lost none that  *)
(* is in use and won none.                                                 *)
LEMMA HandlesKept ==
  ASSUME PipelineTypeOK, UrlInStep, PoolsInStep, HandleExclusive,
         \A s \in Tasks : at'[s] \in Working =>
           at[s] \in Working /\ url'[s] = url[s] /\ conn'[s] = conn[s],
         \A k \in Keys :
           /\ pools'[k] \subseteq pools[k]
           /\ \A c \in pools[k] : c.in_use => c \in pools'[k]
  PROVE  PoolsInStep' /\ HandleExclusive'
<1> USE PipelineAssumption DEF UrlInStep, PoolsInStep, KeyNow
<1>1. \A k \in Keys : IsFiniteSet(pools'[k])
  BY FS_Subset
<1>2. \A k \in Keys : \A c, d \in pools'[k] : c.id = d.id => c = d
  OBVIOUS
<1>3. ASSUME NEW t \in Tasks, at'[t] \in Working
      PROVE  \E c \in pools'[KeyOf[url'[t]]] : c.id = conn'[t] /\ c.in_use
  <2>1. KeyOf[url[t]] \in Keys
    BY <1>3
  <2>2. PICK c \in pools[KeyOf[url[t]]] : c.id = conn[t] /\ c.in_use
    BY <1>3
  <2> QED
    BY <1>3, <2>1, <2>2
<1>4. HandleExclusive'
  BY DEF HandleExclusive
<1> QED
  BY <1>1, <1>2, <1>3, <1>4

(* A step in which a task gets a connection of its pool, in use from then  *)
(* on, that has the id of none that was in use.                            *)
LEMMA HandleTaken ==
  ASSUME UrlInStep, PoolsInStep, HandleExclusive,
         NEW t \in Tasks, NEW k \in Keys, k = KeyOf[url[t]],
         NEW P, NEW d \in P, IsFiniteSet(P), d.in_use,
         \A c, e \in P : c.id = e.id => c = e,
         \A c \in pools[k] : c.in_use => c \in P /\ c.id # d.id,
         pools'[k] = P, \A l \in Keys \ {k} : pools'[l] = pools[l],
         conn'[t] = d.id, UNCHANGED url,
         \A s \in Tasks \ {t} :
           /\ at'[s] \in Working => at[s] \in Working
           /\ conn'[s] = conn[s]
  PROVE  PoolsInStep' /\ HandleExclusive'
<1>1. \A l \in Keys : IsFiniteSet(pools'[l])
  <2> SUFFICES ASSUME NEW l \in Keys PROVE IsFiniteSet(pools'[l])
    OBVIOUS
  <2>1. CASE l = k
    BY <2>1
  <2>2. CASE l # k
    BY <2>2 DEF PoolsInStep
  <2> QED
    BY <2>1, <2>2
<1>2. \A l \in Keys : \A c, e \in pools'[l] : c.id = e.id => c = e
  BY DEF PoolsInStep
<1>3. ASSUME NEW s \in Tasks \ {t}, at'[s] \in Working
      PROVE  /\ \E c \in pools'[KeyOf[url[s]]] : c.id = conn[s] /\ c.in_use
             /\ KeyOf[url[s]] = k => conn[s] # d.id
  <2>1. KeyOf[url[s]] \in Keys
    BY <1>3, PipelineAssumption DEF UrlInStep
  <2>2. PICK c \in pools[KeyOf[url[s]]] : c.id = conn[s] /\ c.in_use
    BY <1>3 DEF PoolsInStep, KeyNow
  <2> QED
    BY <2>1, <2>2
<1>4. \E c \in pools'[KeyOf[url[t]]] : c.id = conn'[t] /\ c.in_use
  OBVIOUS
<1>5. ASSUME NEW s \in Tasks, at'[s] \in Working
      PROVE  \E c \in pools'[KeyOf[url'[s]]] : c.id = conn'[s] /\ c.in_use
  BY <1>3, <1>4, <1>5
<1>6. PoolsInStep'
  BY <1>1, <1>2, <1>5 DEF PoolsInStep, KeyNow
<1>7. ASSUME NEW r \in Tasks, NEW s \in Tasks,
             r # s, at'[r] \in Working, at'[s] \in Working
      PROVE  <<KeyOf[url'[r]], conn'[r]>> # <<KeyOf[url'[s]], conn'[s]>>
  <2>1. CASE r # t /\ s # t
    BY <1>7, <2>1 DEF HandleExclusive, KeyNow
  <2>2. CASE r = t \/ s = t
    BY <1>3, <1>7, <2>2
  <2> QED
    BY <2>1, <2>2
<1>8. HandleExclusive'
  BY <1>7 DEF HandleExclusive, KeyNow
<1> QED
  BY <1>6, <1>8

(* Nothing a request works on leaves its pool or changes hands. *)
LEMMA PoolsStep ==
  ASSUME PipelineTypeOK, UrlInStep, PoolsInStep, HandleExclusive,
         [PipelineNext]_pvars
  PROVE  PoolsInStep' /\ HandleExclusive'
<1> DEFINE Kept == PoolsInStep' /\ HandleExclusive'
<1> USE PipelineAssumption DEF PipelineTypeOK, Places, KeyNow, poolVars, fetchVars
<1>1. ASSUME NEW t \in Tasks, NEW u \in Urls, NEW f \in BOOLEAN,
             AcquireRateLimit(t, u, f)
      PROVE  Kept
  BY <1>1, HandlesKept DEF AcquireRateLimit, Working
<1>2. ASSUME NEW t \in Tasks, NEW u \in Urls \cup {BadUrl}, RateLimitRefuses(t, u)
      PROVE  Kept
  BY <1>2, HandlesKept DEF RateLimitRefuses, Working
<1>3. ASSUME NEW t \in Tasks, DropPermit(t)
      PROVE  Kept
  BY <1>3, HandlesKept DEF DropPermit, Working
<1>4. ASSUME NEW t \in Tasks, LockPools(t)
      PROVE  Kept
  <2>1. PICK pool \in CleanupConnectionPool(pools[KeyNow(t)]) :
              pools' = [pools EXCEPT ![KeyNow(t)] = pool]
    BY <1>4 DEF LockPools
  <2>2. /\ pool \subseteq pools[KeyNow(t)]
        /\ \A c \in pools[KeyNow(t)] : c.in_use => c \in pool
    BY <2>1 DEF CleanupConnectionPool
  <2>3. \A k \in Keys :
          /\ pools'[k] \subseteq pools[k]
          /\ \A c \in pools[k] : c.in_use => c \in pools'[k]
    BY <2>1, <2>2
  <2>4. \A s \in Tasks : at'[s] \in Working =>
          at[s] \in Working /\ url'[s] = url[s] /\ conn'[s] = conn[s]
    BY <1>4 DEF LockPools, Working
  <2> QED
    BY <2>3, <2>4, HandlesKept
<1>5. ASSUME NEW t \in Tasks, FindConnection(t)
      PROVE  Kept
  <2> DEFINE k == KeyNow(t)
  <2>1. k \in Keys
    BY <1>5 DEF FindConnection, UrlInStep
  <2>2. CASE UNCHANGED <<conn, pools>> /\ at' = [at EXCEPT ![t] = "create"]
    BY <1>5, <2>2, HandlesKept DEF FindConnection, Working
  <2>3. ASSUME NEW c \in pools[k], ~c.in_use,
               pools' = [pools EXCEPT ![k] =
                           (@ \ {c}) \cup {[c EXCEPT !.in_use = TRUE]}],
               conn' = [conn EXCEPT ![t] = c.id],
               at' = [at EXCEPT ![t] = "resolve"]
        PROVE  Kept
    <3> DEFINE d == [c EXCEPT !.in_use = TRUE]
               P == (pools[k] \ {c}) \cup {d}
    <3>1. d.id = c.id /\ d.in_use
      BY <2>1
    <3>2. pools'[k] = P /\ \A l \in Keys \ {k} : pools'[l] = pools[l]
      BY <2>1, <2>3
    <3>3. IsFiniteSet(pools[k])
      BY <2>1 DEF PoolsInStep
    <3>4. IsFiniteSet(P)
      BY ZenonT(60), <3>3, FS_RemoveElement, FS_AddElement
    <3>5. \A e, g \in pools[k] : e.id = g.id => e = g
      BY <2>1 DEF PoolsInStep
    <3> HIDE DEF d, k
    <3>6. \A e, g \in P : e.id = g.id => e = g
      BY <3>1, <3>5
    <3>7. \A e \in pools[k] : e.in_use => e \in P /\ e.id # d.id
      BY <2>3, <3>1, <3>5
    <3>8. /\ UNCHANGED url /\ conn'[t] = d.id /\ k = KeyOf[url[t]]
          /\ \A s \in Tasks \ {t} :
               /\ at'[s] \in Working => at[s] \in Working
               /\ conn'[s] = conn[s]
      BY <1>5, <2>3, <3>1 DEF FindConnection, k
    <3>9. d \in P
      OBVIOUS
    <3> HIDE DEF P, PipelineTypeOK
    <3> QED
      BY <2>1, <3>1, <3>2, <3>4, <3>6, <3>7, <3>8, <3>9, HandleTaken
  <2> QED
    BY <1>5, <2>2, <2>3, Zenon DEF FindConnection
<1>6. ASSUME NEW t \in Tasks, CreateConnection(t)
      PROVE  Kept
  <2> DEFINE k == KeyNow(t)
             id == FreshId(k)
             d == [id |-> id, in_use |-> TRUE]
             P == pools[k] \cup {d}
  <2>1. k \in Keys
    BY <1>6 DEF CreateConnection, UrlInStep
  <2>2. IsFiniteSet(pools[k]) /\ \A c, e \in pools[k] : c.id = e.id => c = e
    BY <2>1 DEF PoolsInStep
  <2>3. \A c \in pools[k] : c.id # id
    BY <2>1, <2>2, FreshIdIsFresh
  <2>4. d.id = id /\ d.in_use /\ d \in P
    OBVIOUS
  <2>5. pools'[k] = P /\ \A l \in Keys \ {k} : pools'[l] = pools[l]
    BY <1>6, <2>1 DEF CreateConnection
  <2>6. IsFiniteSet(P)
    BY <2>2, FS_AddElement
  <2>7. /\ UNCHANGED url /\ conn'[t] = id /\ k = KeyOf[url[t]]
        /\ \A s \in Tasks \ {t} :
             /\ at'[s] \in Working => at[s] \in Working
             /\ conn'[s] = conn[s]
    BY <1>6 DEF CreateConnection
  <2> HIDE DEF d, id, k
  <2>8. /\ \A c, e \in P : c.id = e.id => c = e
        /\ \A c \in pools[k] : c.in_use => c \in P /\ c.id # d.id
    BY <2>2, <2>3, <2>4
  <2> HIDE DEF P, PipelineTypeOK
  <2> QED
    BY <2>1, <2>4, <2>5, <2>6, <2>7, <2>8, HandleTaken
<1>7. ASSUME NEW t \in Tasks, Advances(t)
      PROVE  Kept
  <2>1. /\ \A s \in Tasks : at'[s] \in Working => at[s] \in Working
        /\ UNCHANGED <<url, conn, pools>>
    BY <1>7 DEF Advances
  <2> QED
    BY <2>1, HandlesKept
<1>8. ASSUME NEW t \in Tasks, FollowRedirect(t)
      PROVE  Kept
  <2>1. /\ \A s \in Tasks : at'[s] \in Working =>
             at[s] \in Working /\ url'[s] = url[s] /\ conn'[s] = conn[s]
        /\ UNCHANGED pools
    BY <1>8 DEF FollowRedirect, Working
  <2> QED
    BY <2>1, HandlesKept
<1>9. ASSUME NEW t \in Tasks, Finishes(t)
      PROVE  Kept
  <2>1. PICK how : Return(t, how)
    BY <1>9 DEF Finishes
  <2>2. /\ \A s \in Tasks : at'[s] \in Working =>
             at[s] \in Working /\ url'[s] = url[s] /\ conn'[s] = conn[s]
        /\ UNCHANGED pools
    BY <2>1 DEF Return, Working
  <2> QED
    BY <2>2, HandlesKept
<1>10. CASE UNCHANGED pvars
  BY <1>10, HandlesKept DEF pvars
<1> HIDE PipelineAssumption DEF PipelineTypeOK, Places, KeyNow, poolVars, fetchVars
<1> QED
  BY <1>1, <1>2, <1>3, <1>4, <1>5, <1>6, <1>7, <1>8, <1>9, <1>10, NextShapes

-----------------------------------------------------------------------------
(* A prefix without its first element. *)
LEMMA FromSecond ==
  ASSUME NEW S, NEW v \in Seq(S), NEW n \in 1 .. Len(v)
  PROVE  /\ SubSeq(v, 2, n) \in Seq(S) /\ Len(SubSeq(v, 2, n)) = n - 1
         /\ \A i \in 1 .. n - 1 : SubSeq(v, 2, n)[i] = v[i + 1]
<1>1. \A i \in 2 .. n : v[i] \in S
  BY ElementOfSeq
<1>2. n \in Int /\ Len(v) \in Nat
  OBVIOUS
<1>3. /\ SubSeq(v, 2, n) \in Seq(S)
      /\ Len(SubSeq(v, 2, n)) = IF 2 <= n THEN n - 2 + 1 ELSE 0
      /\ \A i \in 1 .. n - 2 + 1 : SubSeq(v, 2, n)[i] = v[2 + i - 1]
  BY <1>1, <1>2, SubSeqProperties
<1> QED
  BY <1>2, <1>3

(* What the redirects are of the URLs visited when one more is requested,  *)
(* and when the last one is pushed.                                        *)
LEMMA TrailGrows ==
  ASSUME NEW S, NEW v \in Seq(S), NEW u \in S
  PROVE  LET w == Append(v, u)
         IN  /\ Len(w) = Len(v) + 1 /\ w[Len(w)] = u
             /\ SubSeq(w, 2, Len(w) - 1) = SubSeq(v, 2, Len(v))
<1> DEFINE w == Append(v, u)
<1>1. Len(w) = Len(v) + 1 /\ w[Len(w)] = u /\ \A i \in 1 .. Len(v) : w[i] = v[i]
  OBVIOUS
<1>2. SubSeq(w, 2, Len(w) - 1) = SubSeq(v, 2, Len(v))
  <2>1. CASE Len(v) = 0
    <3>1. SubSeq(w, 2, 0) = << >> /\ SubSeq(v, 2, 0) = << >>
      BY SubSeqEmpty
    <3> QED
      BY <1>1, <2>1, <3>1
  <2>2. CASE Len(v) > 0
    <3>1. w \in Seq(S) /\ Len(v) \in 1 .. Len(v) /\ Len(v) \in 1 .. Len(w)
      BY <1>1, <2>2
    <3> HIDE DEF w
    <3>2. /\ SubSeq(w, 2, Len(v)) \in Seq(S)
          /\ Len(SubSeq(w, 2, Len(v))) = Len(v) - 1
          /\ \A i \in 1 .. Len(v) - 1 : SubSeq(w, 2, Len(v))[i] = w[i + 1]
      BY <3>1, FromSecond
    <3>3. /\ SubSeq(v, 2, Len(v)) \in Seq(S)
          /\ Len(SubSeq(v, 2, Len(v))) = Len(v) - 1
          /\ \A i \in 1 .. Len(v) - 1 : SubSeq(v, 2, Len(v))[i] = v[i + 1]
      BY <3>1, FromSecond
    <3>4. SubSeq(w, 2, Len(v)) = SubSeq(v, 2, Len(v))
      BY <1>1, <3>2, <3>3, SeqEqual
    <3> QED
      BY <1>1, <3>4
  <2> QED
    BY <2>1, <2>2
<1> QED
  BY <1>1, <1>2

LEMMA TrailCatchesUp ==
  ASSUME NEW S, NEW v \in Seq(S), Len(v) > 0
  PROVE  SubSeq(v, 2, Len(v)) =
           IF Len(v) > 1 THEN Append(SubSeq(v, 2, Len(v) - 1), v[Len(v)])
                         ELSE SubSeq(v, 2, Len(v) - 1)
<1>1. CASE Len(v) = 1
  <2>1. SubSeq(v, 2, 1) = << >> /\ SubSeq(v, 2, 0) = << >>
    BY SubSeqEmpty
  <2> QED
    BY <1>1, <2>1
<1>2. CASE Len(v) > 1
  <2> DEFINE a == SubSeq(v, 2, Len(v) - 1)
             b == SubSeq(v, 2, Len(v))
  <2>1. /\ a \in Seq(S) /\ Len(a) = Len(v) - 2
        /\ \A i \in 1 .. Len(v) - 2 : a[i] = v[i + 1]
    <3>1. Len(v) - 1 \in 1 .. Len(v) /\ Len(v) - 1 - 1 = Len(v) - 2
      BY <1>2
    <3> QED
      BY <3>1, FromSecond
  <2>2. /\ b \in Seq(S) /\ Len(b) = Len(v) - 1
        /\ \A i \in 1 .. Len(v) - 1 : b[i] = v[i + 1]
    BY <1>2, FromSecond
  <2>3. v[Len(v)] \in S
    BY <1>2
  <2>4. /\ Append(a, v[Len(v)]) \in Seq(S) /\ Len(Append(a, v[Len(v)])) = Len(v) - 1
        /\ \A i \in 1 .. Len(v) - 1 : Append(a, v[Len(v)])[i] = v[i + 1]
    <3> HIDE DEF a
    <3> QED
      BY <1>2, <2>1, <2>3
  <2>5. Append(a, v[Len(v)]) = b
    BY <2>2, <2>4, SeqEqual
  <2> QED
    BY <1>2, <2>5
<1> QED
  BY <1>1, <1>2

LEMMA TrailStep ==
  ASSUME PipelineTypeOK, UrlInStep, TrailInStep, [PipelineNext]_pvars
  PROVE  TrailInStep'
<1> USE PipelineAssumption
    DEF PipelineTypeOK, UrlInStep, TrailInStep, TrailOf, Places, Working, poolVars, fetchVars
<1>1. ASSUME NEW t \in Tasks, NEW u \in Urls, NEW f \in BOOLEAN,
             AcquireRateLimit(t, u, f)
      PROVE  TrailInStep'
  BY <1>1 DEF AcquireRateLimit
<1>2. ASSUME NEW t \in Tasks, NEW u \in Urls \cup {BadUrl}, RateLimitRefuses(t, u)
      PROVE  TrailInStep'
  BY <1>2 DEF RateLimitRefuses
<1>3. ASSUME NEW t \in Tasks, DropPermit(t)
      PROVE  TrailInStep'
  <2>1. SubSeq(<< >>, 2, 0) = << >> /\ Len(<< >>) = 0
    BY SubSeqEmpty
  <2> QED
    BY <1>3, <2>1 DEF DropPermit
<1>4. ASSUME NEW t \in Tasks, LockPools(t)
      PROVE  TrailInStep'
  <2>1. /\ at[t] = "request" /\ url[t] \in Urls
        /\ visited' = [visited EXCEPT ![t] = Append(@, url[t])]
        /\ at' = [at EXCEPT ![t] = "find"]
        /\ UNCHANGED <<url, count, redirects>>
    BY <1>4 DEF LockPools
  <2>2. /\ Len(visited'[t]) = Len(visited[t]) + 1
        /\ visited'[t][Len(visited'[t])] = url[t]
        /\ SubSeq(visited'[t], 2, Len(visited'[t]) - 1)
             = SubSeq(visited[t], 2, Len(visited[t]))
    BY <2>1, TrailGrows
  <2> QED
    BY SMTT(60), <2>1, <2>2
<1>5. ASSUME NEW t \in Tasks, FindConnection(t) \/ CreateConnection(t) \/ Advances(t)
      PROVE  TrailInStep'
  <2>1. /\ at[t] \in Working \cup {"find", "create"}
        /\ \E a \in Working \cup {"create"} : at' = [at EXCEPT ![t] = a]
        /\ UNCHANGED <<url, count, redirects, visited>>
    BY <1>5 DEF FindConnection, CreateConnection, Advances
  <2> QED
    BY SMTT(60), <2>1
<1>6. ASSUME NEW t \in Tasks, FollowRedirect(t)
      PROVE  TrailInStep'
  <2>1. /\ at[t] = "reply" /\ at' = [at EXCEPT ![t] = "request"]
        /\ redirects' = [redirects EXCEPT ![t] =
                           IF count[t] > 0 THEN Append(@, url[t]) ELSE @]
        /\ count' = [count EXCEPT ![t] = @ + 1]
        /\ \A s \in Tasks \ {t} : url'[s] = url[s]
        /\ UNCHANGED visited
    BY <1>6 DEF FollowRedirect
  <2>2. /\ visited[t] \in Seq(Urls) /\ Len(visited[t]) = count[t] + 1
        /\ url[t] = visited[t][Len(visited[t])]
        /\ redirects[t] = SubSeq(visited[t], 2, Len(visited[t]) - 1)
    BY <2>1
  <2>3. redirects'[t] = SubSeq(visited[t], 2, Len(visited[t]))
    <3>1. redirects'[t] = IF Len(visited[t]) > 1
                          THEN Append(SubSeq(visited[t], 2, Len(visited[t]) - 1),
                                      visited[t][Len(visited[t])])
                          ELSE SubSeq(visited[t], 2, Len(visited[t]) - 1)
      BY SMTT(60), <2>1, <2>2
    <3>2. Len(visited[t]) > 0
      BY <2>2
    <3> QED
      BY <2>2, <3>1, <3>2, TrailCatchesUp
  <2>4. at'[t] = "request" /\ count'[t] = Len(visited[t]) /\ visited'[t] = visited[t]
    BY <2>1, <2>2
  <2>5. \A s \in Tasks \ {t} :
          /\ at'[s] = at[s] /\ url'[s] = url[s] /\ count'[s] = count[s]
          /\ redirects'[s] = redirects[s] /\ visited'[s] = visited[s]
    BY <2>1
  <2>6. TrailOf(t)'
    BY <2>3, <2>4
  <2>7. ASSUME NEW s \in Tasks \ {t}
        PROVE  TrailOf(s)'
    <3> HIDE PipelineAssumption DEF PipelineTypeOK, UrlInStep, Working
    <3> QED
      BY ZenonT(60), <2>5
  <2> HIDE DEF TrailOf
  <2> QED
    BY <2>6, <2>7
<1>7. ASSUME NEW t \in Tasks, Finishes(t)
      PROVE  TrailInStep'
  <2>1. PICK how : Return(t, how)
    BY <1>7 DEF Finishes
  <2> QED
    BY <2>1 DEF Return
<1>8. CASE UNCHANGED pvars
  BY <1>8 DEF pvars
<1> HIDE PipelineAssumption
    DEF PipelineTypeOK, UrlInStep, TrailInStep, TrailOf, Places, Working, poolVars, fetchVars
<1> QED
  BY <1>1, <1>2, <1>3, <1>4, <1>5, <1>6, <1>7, <1>8, NextShapes

-----------------------------------------------------------------------------
(* Steps that leave the AuthEngine alone, and a task between two requests  *)
(* where it is.                                                            *)
LEMMA AuthKept ==
  ASSUME AuthInStep, UNCHANGED vars,
         \A s \in Tasks :
           \/ at'[s] = at[s] /\ url'[s] = url[s]
           \/ /\ at[s] \notin {"observe", "build", "resend"}
              /\ at'[s] \notin {"observe", "build", "resend"}
  PROVE  AuthInStep'
BY DEF AuthInStep, vars, KeyNow

LEMMA AuthTracks ==
  ASSUME PipelineTypeOK, TypeOK, UrlInStep, AuthInStep, [PipelineNext]_pvars
  PROVE  AuthInStep'
<1> USE DEF PipelineTypeOK, Places, Working, poolVars, fetchVars
<1>1. ASSUME NEW t \in Tasks, NEW u \in Urls, NEW f \in BOOLEAN,
             AcquireRateLimit(t, u, f)
      PROVE  AuthInStep'
  BY <1>1, AuthKept DEF AcquireRateLimit
<1>2. ASSUME NEW t \in Tasks, NEW u \in Urls \cup {BadUrl}, RateLimitRefuses(t, u)
      PROVE  AuthInStep'
  BY <1>2, AuthKept DEF RateLimitRefuses
<1>3. ASSUME NEW t \in Tasks,
             DropPermit(t) \/ LockPools(t) \/ FindConnection(t) \/ CreateConnection(t)
      PROVE  AuthInStep'
  BY <1>3, AuthKept DEF DropPermit, LockPools, FindConnection, CreateConnection
<1>4. ASSUME NEW t \in Tasks,
             ResolveDns(t) \/ EstablishConnection(t) \/ TlsHandshake(t)
      PROVE  AuthInStep'
  BY <1>4, AuthKept DEF ResolveDns, EstablishConnection, TlsHandshake
<1>5. ASSUME NEW t \in Tasks, SendHttpRequest(t)
      PROVE  AuthInStep'
  BY <1>5 DEF SendHttpRequest, Send, AuthInStep, TypeOK, KeyNow
<1>6. ASSUME NEW t \in Tasks, Observe(t)
      PROVE  AuthInStep'
  <2>1. /\ UNCHANGED <<url, key>>
        /\ \/ /\ pc' = [pc EXCEPT ![t] = "challenged"]
              /\ at' = [at EXCEPT ![t] = "build"]
           \/ /\ pc' = [pc EXCEPT ![t] = "done"]
              /\ at' = [at EXCEPT ![t] = "reply"]
    <3>1. CASE resp[t].kind = "challenge"
      BY <1>6, <3>1 DEF Observe, ObserveChallenge
    <3>2. CASE resp[t].kind # "challenge"
      BY <1>6, <3>2 DEF Observe, ObserveSuccess, ObserveOther
    <3> QED
      BY <3>1, <3>2
  <2> QED
    BY SMTT(60), <1>6, <2>1 DEF Observe, AuthInStep, TypeOK, KeyNow
<1>7. ASSUME NEW t \in Tasks, BuildRetryHeader(t) \/ NoRetryHeader(t)
      PROVE  AuthInStep'
  <2>1. /\ at[t] = "build" /\ UNCHANGED <<url, key>>
        /\ \/ /\ pc' = [pc EXCEPT ![t] = "retrying"]
              /\ at' = [at EXCEPT ![t] = "resend"]
           \/ /\ pc' = [pc EXCEPT ![t] = "done"]
              /\ at' = [at EXCEPT ![t] = "reply"]
    BY <1>7 DEF BuildRetryHeader, NoRetryHeader, BuildHeader, BuildRefused,
         BuildUnsupported
  <2> QED
    BY SMTT(60), <2>1 DEF AuthInStep, TypeOK, KeyNow
<1>8. ASSUME NEW t \in Tasks, ResendHttpRequest(t)
      PROVE  AuthInStep'
  BY <1>8 DEF ResendHttpRequest, Resend, AuthInStep, TypeOK, KeyNow
<1>9. ASSUME NEW t \in Tasks, ResendFails(t)
      PROVE  AuthInStep'
  BY <1>9 DEF ResendFails, Resend, Fail, Return, AuthInStep, TypeOK, KeyNow
<1>10. ASSUME NEW t \in Tasks, FollowRedirect(t)
       PROVE  AuthInStep'
  BY <1>10, AuthKept DEF FollowRedirect
<1>11. ASSUME NEW t \in Tasks,
              \/ RequestInvalid(t) \/ ResolveDnsFails(t) \/ ConnectFails(t)
              \/ TlsHandshakeFails(t) \/ SendHttpRequestFails(t)
              \/ TooManyRedirects(t) \/ ReturnRedirect(t) \/ ReturnResponse(t)
       PROVE  AuthInStep'
  <2>1. /\ UNCHANGED vars /\ at[t] \notin {"observe", "build", "resend"}
        /\ \E how : Return(t, how)
    BY <1>11 DEF RequestInvalid, ResolveDnsFails, ConnectFails, TlsHandshakeFails,
         SendHttpRequestFails, TooManyRedirects, ReturnRedirect, ReturnResponse, Fail
  <2> QED
    BY <2>1, AuthKept DEF Return
<1>12. CASE UNCHANGED pvars
  BY <1>12, AuthKept DEF pvars
<1> HIDE DEF PipelineTypeOK, Places, Working, poolVars, fetchVars
<1>13. ASSUME NEW t \in Tasks, Step(t)
       PROVE  AuthInStep'
  BY <1>3, <1>4, <1>5, <1>6, <1>7, <1>8, <1>9, <1>10, <1>11, <1>13 DEF Step
<1> QED
  BY <1>1, <1>2, <1>12, <1>13 DEF PipelineNext

-----------------------------------------------------------------------------
(* A step of the pipeline is a step of the AuthEngine or leaves it alone.  *)
LEMMA PipelineStepIsAuthStep ==
  ASSUME PipelineTypeOK, UrlInStep, [PipelineNext]_pvars
  PROVE  [Next]_vars
<1>1. ASSUME NEW t \in Tasks, SendHttpRequest(t)
      PROVE  Next
  <2>1. KeyNow(t) \in Keys /\ Send(t, KeyNow(t))
    BY <1>1, PipelineAssumption DEF SendHttpRequest, UrlInStep, Working, KeyNow
  <2> QED
    BY <2>1 DEF Next
<1>2. ASSUME NEW t \in Tasks, Observe(t)
      PROVE  Next
  <2>1. CASE resp[t].kind = "challenge"
    <3>1. resp[t] \in Responses(url[t])
      BY <1>2 DEF Observe, UrlInStep
    <3>2. resp[t].header \in Offered
      BY <2>1, <3>1 DEF Responses
    <3>3. ObserveChallenge(t, resp[t].header)
      BY <1>2, <2>1 DEF Observe
    <3> QED
      BY <3>2, <3>3 DEF Next
  <2>2. CASE resp[t].kind # "challenge"
    <3>1. ObserveSuccess(t) \/ ObserveOther(t)
      BY <1>2, <2>2 DEF Observe
    <3> QED
      BY <3>1 DEF Next
  <2> QED
    BY <2>1, <2>2
<1>3. ASSUME NEW t \in Tasks,
             \/ BuildRetryHeader(t) \/ NoRetryHeader(t) \/ ResendHttpRequest(t)
             \/ ResendFails(t)
      PROVE  Next
  <2>1. BuildHeader(t) \/ BuildRefused(t) \/ BuildUnsupported(t) \/ Resend(t)
    BY <1>3 DEF BuildRetryHeader, NoRetryHeader, ResendHttpRequest, ResendFails
  <2> QED
    BY <2>1 DEF Next
<1>4. ASSUME NEW t \in Tasks, NEW u \in Urls, NEW f \in BOOLEAN,
             AcquireRateLimit(t, u, f)
      PROVE  UNCHANGED vars
  BY <1>4 DEF AcquireRateLimit
<1>5. ASSUME NEW t \in Tasks, NEW u \in Urls \cup {BadUrl}, RateLimitRefuses(t, u)
      PROVE  UNCHANGED vars
  BY <1>5 DEF RateLimitRefuses
<1>6. ASSUME NEW t \in Tasks,
             \/ DropPermit(t) \/ RequestInvalid(t) \/ LockPools(t)
             \/ FindConnection(t) \/ CreateConnection(t) \/ ResolveDns(t)
             \/ ResolveDnsFails(t) \/ EstablishConnection(t) \/ ConnectFails(t)
             \/ TlsHandshake(t) \/ TlsHandshakeFails(t) \/ SendHttpRequestFails(t)
             \/ FollowRedirect(t) \/ TooManyRedirects(t) \/ ReturnRedirect(t)
             \/ ReturnResponse(t)
      PROVE  UNCHANGED vars
  BY <1>6 DEF DropPermit, RequestInvalid, LockPools, FindConnection,
       CreateConnection, ResolveDns, ResolveDnsFails, EstablishConnection,
       ConnectFails, TlsHandshake, TlsHandshakeFails, SendHttpRequestFails,
       FollowRedirect, TooManyRedirects, ReturnRedirect, ReturnResponse
<1>7. CASE UNCHANGED pvars
  BY <1>7 DEF pvars
<1> QED
  BY <1>1, <1>2, <1>3, <1>4, <1>5, <1>6, <1>7 DEF PipelineNext, Step

LEMMA PipelineInvInit == PipelineInit => PipelineInv /\ AuthInv
<1> SUFFICES ASSUME PipelineInit PROVE PipelineInv /\ AuthInv
  OBVIOUS
<1> USE DEF PipelineInit
<1>1. PipelineTypeOK /\ AuthInv
  BY TypeInit, AuthInit
<1>2. UrlInStep /\ HandleExclusive /\ TrailInStep /\ AuthInStep
  BY DEF Init, UrlInStep, HandleExclusive, TrailInStep, TrailOf, AuthInStep, Working
<1>3. PoolsInStep
  BY FS_EmptySet DEF PoolsInStep, Working
<1> QED
  BY <1>1, <1>2, <1>3 DEF PipelineInv

LEMMA PipelineInvStep ==
  PipelineInv /\ AuthInv /\ [PipelineNext]_pvars => PipelineInv' /\ AuthInv'
<1> SUFFICES ASSUME PipelineInv, AuthInv, [PipelineNext]_pvars
             PROVE  PipelineInv' /\ AuthInv'
  OBVIOUS
<1> USE DEF PipelineInv
<1>1. PipelineTypeOK' /\ UrlInStep'
  BY TypeStep, UrlStep
<1>2. PoolsInStep' /\ HandleExclusive'
  BY PoolsStep
<1>3. TrailInStep'
  BY TrailStep
<1>4. AuthInStep'
  BY AuthTracks DEF AuthInv
<1>5. AuthInv'
  BY PipelineStepIsAuthStep, AuthStep
<1> QED
  BY <1>1, <1>2, <1>3, <1>4, <1>5

LEMMA PipelineInvariant == PipelineSpec => [](PipelineInv /\ AuthInv)
BY PipelineInvInit, PipelineInvStep, PTL DEF PipelineSpec

(* However many fetches run, get_or_create_connection never gives two      *)
(* requests that are under way one connection.                             *)
THEOREM ConnectionsAreExclusive == PipelineSpec => []HandleExclusive
<1>1. PipelineInv => HandleExclusive
  BY DEF PipelineInv
<1> QED
  BY <1>1, PipelineInvariant, PTL

(* For any number of redirects, fetch returns with a response the URLs it  *)
(* was sent through, in order, and neither the first nor the last.         *)
THEOREM RedirectsAreTheTrail == PipelineSpec => []RedirectTrail
<1>1. PipelineInv => RedirectTrail
  BY DEF PipelineInv, TrailInStep, TrailOf, RedirectTrail, Working
<1> QED
  BY <1>1, PipelineInvariant, PTL

(* However many fetches share a key, at most one header is handed out      *)
(* between two challenges, and build_retry_header refuses a request only   *)
(* if another got a header after this one was challenged.                  *)
THEOREM RefusalsHaveARival == PipelineSpec => []RefusedForARival
<1>1. AuthInv => RefusedForARival
  <2> SUFFICES ASSUME AuthInv PROVE RefusedForARival
    OBVIOUS
  <2>1. \A k \in Keys : answered[k] \in {0, 1}
    BY DEF AuthInv, FlagInStep
  <2>2. \A k \in Keys : answered[k] <= 1
    BY <2>1
  <2>3. \A t \in Tasks : pc[t] = "challenged" /\ retried[key[t]] => rivals[t] # {}
    BY DEF AuthInv, RivalOf
  <2> QED BY <2>2, <2>3 DEF RefusedForARival
<1> QED
  BY <1>1, PipelineInvariant, PTL

(* execute_request sends a request again with a header at most once.       *)
THEOREM RetriesAreSingle == PipelineSpec => []OneRetryPerRequest
<1>1. AuthInv => OneRetryPerRequest
  <2> SUFFICES ASSUME AuthInv PROVE OneRetryPerRequest
    OBVIOUS
  <2>1. \A t \in Tasks : tries[t] \in {0, 1}
    BY DEF AuthInv, TriesOf
  <2>2. \A t \in Tasks : tries[t] <= 1
    BY <2>1
  <2> QED BY <2>2 DEF OneRetryPerRequest
<1> QED
  BY <1>1, PipelineInvariant, PTL

(* Whenever execute_request calls the AuthEngine, the engine is ready for  *)
(* that call, on the key of the URL requested: the guards of AuthEngine    *)
(* never hold the pipeline up.                                             *)
THEOREM AuthEngineIsReady == PipelineSpec => []AuthInStep
<1>1. PipelineInv => AuthInStep
  BY DEF PipelineInv
<1> QED
  BY <1>1, PipelineInvariant, PTL

(* Nothing clears in_use: every pooled connection stays marked. *)
AllStayInUse == \A k \in Keys : \A c \in pools[k] : c.in_use

(* As the code stands get_or_create_connection never finds a connection to *)
(* reuse and cleanup_connection_pool never drops one: the pool of a key    *)
(* grows by one connection with every request.                             *)
THEOREM NoConnectionIsReused == PipelineSpec => []AllStayInUse
<1>1. PipelineInit => AllStayInUse
  BY DEF PipelineInit, AllStayInUse
<1>2. PipelineInv /\ AllStayInUse /\ [PipelineNext]_pvars => AllStayInUse'
  <2> SUFFICES ASSUME PipelineInv, AllStayInUse, [PipelineNext]_pvars
               PROVE  AllStayInUse'
    OBVIOUS
  <2> USE DEF AllStayInUse, PipelineInv, PipelineTypeOK, poolVars
  <2>1. ASSUME NEW t \in Tasks, LockPools(t)
        PROVE  AllStayInUse'
    BY <2>1 DEF LockPools, CleanupConnectionPool
  <2>2. ASSUME NEW t \in Tasks, FindConnection(t)
        PROVE  AllStayInUse'
    <3>1. KeyNow(t) \in Keys
      BY <2>2, PipelineAssumption DEF FindConnection, UrlInStep, KeyNow
    <3>2. {c \in pools[KeyNow(t)] : ~c.in_use} = {}
      BY <3>1
    <3>3. UNCHANGED pools
      BY <2>2, <3>2 DEF FindConnection
    <3> QED
      BY <3>3
  <2>3. ASSUME NEW t \in Tasks, CreateConnection(t)
        PROVE  AllStayInUse'
    BY <2>3 DEF CreateConnection
  <2>4. ASSUME NEW t \in Tasks, Finishes(t)
        PROVE  AllStayInUse'
    BY <2>4 DEF Finishes, Return
  <2>5. ASSUME NEW t \in Tasks, DropPermit(t) \/ Advances(t) \/ FollowRedirect(t)
        PROVE  AllStayInUse'
    BY <2>5 DEF DropPermit, Advances, FollowRedirect
  <2>6. ASSUME NEW t \in Tasks,
               \/ \E u \in Urls, f \in BOOLEAN : AcquireRateLimit(t, u, f)
               \/ \E u \in Urls \cup {BadUrl} : RateLimitRefuses(t, u)
        PROVE  AllStayInUse'
    BY <2>6 DEF AcquireRateLimit, RateLimitRefuses
  <2>7. CASE UNCHANGED pvars
    BY <2>7 DEF pvars
  <2> HIDE DEF AllStayInUse, PipelineInv, PipelineTypeOK, poolVars
  <2> QED
    BY <2>1, <2>2, <2>3, <2>4, <2>5, <2>6, <2>7, NextShapes
<1> QED
  BY <1>1, <1>2, PipelineInvariant, PTL DEF PipelineSpec
=============================================================================
