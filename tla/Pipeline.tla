------------------------------ MODULE Pipeline ------------------------------
(***************************************************************************)
(* The request pipeline: fetch and the redirects it follows, and           *)
(* execute_request with its connection pool, name resolution, connect,     *)
(* handshake, send, and the authentication retry of AuthEngine, whose      *)
(* variables and actions this module takes over.                           *)
(*                                                                         *)
(* Fetches run concurrently, each a task.  They share the pools, under a   *)
(* std Mutex that is not re-entrant, the rate limiters and the AuthEngine; *)
(* a step of a task is what it does between two points where another task  *)
(* can see or change something they share.                                 *)
(*                                                                         *)
(* GuardHeld says how long execute_request keeps the guard of the pools    *)
(* that it takes before it looks for a connection.  As written it is TRUE: *)
(* the guard lives to the end of the function, and get_or_create_connection*)
(* waits for the lock its own task holds.  FALSE is the function with the  *)
(* guard dropped after cleanup_connection_pool, its last use: the rest of  *)
(* the pipeline is reached only so, and its safety is looked at in both.   *)
(* A cloned ConnectionHandle stands for the same connection; box_clone has *)
(* no implementation yet and panics.                                       *)
(*                                                                         *)
(* Sockets and TLS connections are trait objects: they succeed or fail as  *)
(* they like, but return.  The caches are those of the file, which hold    *)
(* nothing.  connect_to_ip never yields, so the timeout around it cannot   *)
(* fire; the one around the name resolution can.                           *)
(***************************************************************************)
EXTENDS AuthEngine, Sequences, FiniteSets

CONSTANTS
  Urls,            \* URLs that parse and have a host
  KeyOf,           \* URL -> key of its pool: host, port and scheme
  HostOf,          \* key -> host
  Targets,         \* URL -> URLs its server redirects to
  Secure,          \* keys of scheme https
  Limit,           \* rate_limit_per_host, which is set
  MaxRedirects,    \* RequestOptions.max_redirects
  MaxFetches,      \* fetches one task makes: bounds the runs
  GuardHeld

BadUrl == "BadUrl"     \* a URL that does not parse or has no host
NoTask == "NoTask"
NoConn == 0
Hosts  == {HostOf[k] : k \in Keys}

ASSUME PipelineAssumption ==
  /\ KeyOf \in [Urls -> Keys] /\ BadUrl \notin Urls
  /\ Targets \in [Urls -> SUBSET (Urls \cup {BadUrl})]
  /\ Secure \subseteq Keys
  /\ Limit \in Nat \ {0} /\ MaxRedirects \in Nat /\ MaxFetches \in Nat
  /\ GuardHeld \in BOOLEAN /\ NoTask \notin Tasks

(* A response as far as the pipeline tells them apart: "ok" is a 2xx,      *)
(* "moved" any other status below 400 without a location, "redirect" a 3xx *)
(* with one, "challenge" a 401 or 407 with its header, "error" the rest.   *)
Responses(u) ==
  [kind : {"ok", "moved", "error"}]
    \cup [kind : {"redirect"}, to : Targets[u]]
    \cup [kind : {"challenge"}, header : Offered]
NoResponse == [kind |-> "none"]

VARIABLES
  at,          \* where a task is in fetch and execute_request
  url,         \* current_url
  follow,      \* options.follow_redirects
  redirects,   \* fetch's redirects
  count,       \* redirect_count
  conn,        \* id of the connection execute_request works on
  resp,        \* the response in hand
  outcome,     \* how the last fetch of a task ended
  fetches,     \* fetches a task has made
  visited,     \* URLs the fetch has requested, in order
  poolsLock,   \* task that keeps the guard of connection_pools, or NoTask
  pools,       \* key -> its pooled connections
  permits,     \* host -> free permits of its semaphore
  metrics      \* total, successful and failed requests

fetchVars == <<url, follow, redirects, count, visited>>
poolVars  == <<poolsLock, pools>>
pvars == <<vars, at, url, follow, redirects, count, conn, resp,
           outcome, fetches, visited, poolsLock, pools, permits, metrics>>

PipelineInit ==
  /\ Init
  /\ at = [t \in Tasks |-> "idle"]
  /\ url = [t \in Tasks |-> BadUrl] /\ follow = [t \in Tasks |-> TRUE]
  /\ redirects = [t \in Tasks |-> << >>] /\ count = [t \in Tasks |-> 0]
  /\ visited = [t \in Tasks |-> << >>]
  /\ conn = [t \in Tasks |-> NoConn]
  /\ resp = [t \in Tasks |-> NoResponse]
  /\ outcome = [t \in Tasks |-> "none"] /\ fetches = [t \in Tasks |-> 0]
  /\ poolsLock = NoTask /\ pools = [k \in Keys |-> {}]
  /\ permits = [h \in Hosts |-> Limit]
  /\ metrics = [total |-> 0, successful |-> 0, failed |-> 0]

KeyNow(t) == KeyOf[url[t]]

(* execute_request returns: a guard it kept is dropped. *)
DropGuard(t) == poolsLock' = IF poolsLock = t THEN NoTask ELSE poolsLock

(* fetch returns, and its locals and those of execute_request are gone.    *)
(* The pooled connection stays as it is: nothing clears its in_use.        *)
Return(t, how) ==
  /\ at' = [at EXCEPT ![t] = "done"]
  /\ outcome' = [outcome EXCEPT ![t] = how]
  /\ url' = [url EXCEPT ![t] = BadUrl] /\ follow' = [follow EXCEPT ![t] = TRUE]
  /\ redirects' = [redirects EXCEPT ![t] = << >>]
  /\ count' = [count EXCEPT ![t] = 0]
  /\ visited' = [visited EXCEPT ![t] = << >>]
  /\ conn' = [conn EXCEPT ![t] = NoConn]
  /\ resp' = [resp EXCEPT ![t] = NoResponse]
  /\ DropGuard(t)
  /\ UNCHANGED <<fetches, pools>>

(* A `?` on the way: the error is returned, nothing cached or counted. *)
Fail(t) == Return(t, "error") /\ UNCHANGED <<permits, metrics>>

-----------------------------------------------------------------------------
(* fetch: the rate limit.  The permit is dropped with the statement that   *)
(* acquires it, before the first request.                                  *)

AcquireRateLimit(t, u, f) ==
  /\ at[t] \in {"idle", "done"} /\ fetches[t] < MaxFetches
  /\ u # BadUrl /\ permits[HostOf[KeyOf[u]]] > 0
  /\ permits' = [permits EXCEPT ![HostOf[KeyOf[u]]] = @ - 1]
  /\ fetches' = [fetches EXCEPT ![t] = @ + 1]
  /\ url' = [url EXCEPT ![t] = u] /\ follow' = [follow EXCEPT ![t] = f]
  /\ at' = [at EXCEPT ![t] = "permit"]
  /\ outcome' = [outcome EXCEPT ![t] = "none"]
  /\ UNCHANGED <<vars, redirects, count, visited, conn, resp, poolVars,
                 metrics>>

(* The URL is invalid, or the semaphore of its host has no permit left. *)
RateLimitRefuses(t, u) ==
  /\ at[t] \in {"idle", "done"} /\ fetches[t] < MaxFetches
  /\ u # BadUrl => permits[HostOf[KeyOf[u]]] = 0
  /\ fetches' = [fetches EXCEPT ![t] = @ + 1]
  /\ at' = [at EXCEPT ![t] = "done"]
  /\ outcome' = [outcome EXCEPT ![t] = "error"]
  /\ UNCHANGED <<vars, fetchVars, conn, resp, poolVars, permits, metrics>>

DropPermit(t) ==
  /\ at[t] = "permit"
  /\ permits' = [permits EXCEPT ![HostOf[KeyNow(t)]] = @ + 1]
  /\ at' = [at EXCEPT ![t] = "request"]
  /\ UNCHANGED <<vars, fetchVars, conn, resp, outcome, fetches, poolVars,
                 metrics>>

-----------------------------------------------------------------------------
(* execute_request: the connection. *)

(* A redirect led to a URL that does not parse. *)
RequestInvalid(t) ==
  /\ at[t] = "request" /\ url[t] = BadUrl
  /\ Fail(t)
  /\ UNCHANGED vars

(* Connections that are not in use and have been idle for five minutes are *)
(* dropped: time being left out, any of those not in use.                  *)
CleanupConnectionPool(pool) ==
  {pool \ idle : idle \in SUBSET {c \in pool : ~c.in_use}}

(* The pool of the key is there from now on, and cleaned up. *)
LockPools(t) ==
  /\ at[t] = "request" /\ url[t] # BadUrl /\ poolsLock = NoTask
  /\ poolsLock' = IF GuardHeld THEN t ELSE NoTask
  /\ \E pool \in CleanupConnectionPool(pools[KeyNow(t)]) :
       pools' = [pools EXCEPT ![KeyNow(t)] = pool]
  /\ visited' = [visited EXCEPT ![t] = Append(@, url[t])]
  /\ at' = [at EXCEPT ![t] = "find"]
  /\ UNCHANGED <<vars, url, follow, redirects, count, conn, resp,
                 outcome, fetches, permits, metrics>>

FindAnyConnection(t) ==   \* mutant: the test of in_use dropped
  /\ at[t] = "find" /\ poolsLock = NoTask
  /\ LET free == pools[KeyNow(t)]
     IN  IF free = {}
         THEN /\ at' = [at EXCEPT ![t] = "create"]
              /\ UNCHANGED <<conn, pools>>
         ELSE \E c \in free :
                /\ pools' = [pools EXCEPT ![KeyNow(t)] =
                               (@ \ {c}) \cup {[c EXCEPT !.in_use = TRUE]}]
                /\ conn' = [conn EXCEPT ![t] = c.id]
                /\ at' = [at EXCEPT ![t] = "resolve"]
  /\ UNCHANGED <<vars, fetchVars, resp, outcome, fetches, poolsLock,
                 permits, metrics>>

(* get_or_create_connection, first scope of the lock. *)
FindConnection(t) ==
  /\ at[t] = "find" /\ poolsLock = NoTask
  /\ LET free == {c \in pools[KeyNow(t)] : ~c.in_use}
     IN  IF free = {}
         THEN /\ at' = [at EXCEPT ![t] = "create"]
              /\ UNCHANGED <<conn, pools>>
         ELSE \E c \in free :
                /\ pools' = [pools EXCEPT ![KeyNow(t)] =
                               (@ \ {c}) \cup {[c EXCEPT !.in_use = TRUE]}]
                /\ conn' = [conn EXCEPT ![t] = c.id]
                /\ at' = [at EXCEPT ![t] = "resolve"]
  /\ UNCHANGED <<vars, fetchVars, resp, outcome, fetches, poolsLock,
                 permits, metrics>>

(* Its second scope: the new connection, in use, joins the pool.  Random   *)
(* ids of 64 bits are taken to be distinct.                                *)
FreshId(k) ==
  CHOOSE i \in 1 .. Cardinality(pools[k]) + 1 : \A c \in pools[k] : c.id # i

CreateConnection(t) ==
  /\ at[t] = "create" /\ poolsLock = NoTask
  /\ LET id == FreshId(KeyNow(t))
     IN  /\ pools' = [pools EXCEPT ![KeyNow(t)] =
                        @ \cup {[id |-> id, in_use |-> TRUE]}]
         /\ conn' = [conn EXCEPT ![t] = id]
  /\ at' = [at EXCEPT ![t] = "resolve"]
  /\ UNCHANGED <<vars, fetchVars, resp, outcome, fetches, poolsLock,
                 permits, metrics>>

(* The lookup succeeds (the cache has nothing), and an address accepts. *)
ResolveDns(t) ==
  /\ at[t] = "resolve"
  /\ at' = [at EXCEPT ![t] = "connect"]
  /\ UNCHANGED <<vars, fetchVars, conn, resp, outcome, fetches, poolVars,
                 permits, metrics>>

EstablishConnection(t) ==
  /\ at[t] = "connect"
  /\ at' = [at EXCEPT ![t] = IF KeyNow(t) \in Secure THEN "handshake" ELSE "send"]
  /\ UNCHANGED <<vars, fetchVars, conn, resp, outcome, fetches, poolVars,
                 permits, metrics>>

(* The lookup fails or takes longer than dns_timeout; every address        *)
(* refuses.                                                                *)
ResolveDnsFails(t) ==
  /\ at[t] = "resolve"
  /\ Fail(t)
  /\ UNCHANGED vars

ConnectFails(t) ==
  /\ at[t] = "connect"
  /\ Fail(t)
  /\ UNCHANGED vars

TlsHandshake(t) ==
  /\ at[t] = "handshake"
  /\ at' = [at EXCEPT ![t] = "send"]
  /\ UNCHANGED <<vars, fetchVars, conn, resp, outcome, fetches,
                 poolVars, permits, metrics>>

TlsHandshakeFails(t) ==
  /\ at[t] = "handshake"
  /\ Fail(t)
  /\ UNCHANGED vars

-----------------------------------------------------------------------------
(* execute_request: request, response, authentication retry. *)

SendHttpRequest(t) ==
  /\ at[t] = "send"
  /\ Send(t, KeyNow(t))
  /\ \E r \in Responses(url[t]) : resp' = [resp EXCEPT ![t] = r]
  /\ at' = [at EXCEPT ![t] = "observe"]
  /\ UNCHANGED <<fetchVars, conn, outcome, fetches, poolVars, permits,
                 metrics>>

(* send or recv fails, send is short, or the response does not parse. *)
SendHttpRequestFails(t) ==
  /\ at[t] = "send"
  /\ Fail(t)
  /\ UNCHANGED vars

Observe(t) ==
  /\ at[t] = "observe"
  /\ CASE resp[t].kind = "challenge" -> ObserveChallenge(t, resp[t].header)
       [] resp[t].kind = "ok"        -> ObserveSuccess(t)
       [] OTHER                      -> ObserveOther(t)
  /\ at' = [at EXCEPT ![t] = IF resp[t].kind = "challenge" THEN "build" ELSE "reply"]
  /\ UNCHANGED <<fetchVars, conn, resp, outcome, fetches, poolVars,
                 permits, metrics>>

BuildRetryHeader(t) ==
  /\ at[t] = "build"
  /\ BuildHeader(t)
  /\ at' = [at EXCEPT ![t] = "resend"]
  /\ UNCHANGED <<fetchVars, conn, resp, outcome, fetches, poolVars,
                 permits, metrics>>

(* No header: the 401 or 407 itself is the response. *)
NoRetryHeader(t) ==
  /\ at[t] = "build"
  /\ BuildRefused(t) \/ BuildUnsupported(t)
  /\ at' = [at EXCEPT ![t] = "reply"]
  /\ UNCHANGED <<fetchVars, conn, resp, outcome, fetches, poolVars,
                 permits, metrics>>

ResendAndObserve(t) ==   \* mutant: the second response observed like the first
  /\ at[t] = "resend" /\ pc[t] = "retrying"
  /\ pc' = [pc EXCEPT ![t] = "sent"]
  /\ \E r \in Responses(url[t]) : resp' = [resp EXCEPT ![t] = r]
  /\ at' = [at EXCEPT ![t] = "observe"]
  /\ UNCHANGED <<stateVars, key, challenge, ghostVars, fetchVars, conn, outcome,
                 fetches, poolVars, permits, metrics>>

(* Once more on the same connection; the new response is not observed. *)
ResendHttpRequest(t) ==
  /\ at[t] = "resend"
  /\ Resend(t)
  /\ \E r \in Responses(url[t]) : resp' = [resp EXCEPT ![t] = r]
  /\ at' = [at EXCEPT ![t] = "reply"]
  /\ UNCHANGED <<fetchVars, conn, outcome, fetches, poolVars, permits,
                 metrics>>

ResendFails(t) ==
  /\ at[t] = "resend"
  /\ Resend(t)
  /\ Fail(t)

-----------------------------------------------------------------------------
(* execute_request returns its response to fetch. *)

FollowRedirectFromFirst(t) ==   \* mutant: the first URL pushed as well
  /\ at[t] = "reply" /\ resp[t].kind = "redirect" /\ follow[t]
  /\ count[t] < MaxRedirects
  /\ redirects' = [redirects EXCEPT ![t] = Append(@, url[t])]
  /\ url' = [url EXCEPT ![t] = resp[t].to]
  /\ count' = [count EXCEPT ![t] = @ + 1]
  /\ at' = [at EXCEPT ![t] = "request"]
  /\ conn' = [conn EXCEPT ![t] = NoConn]
  /\ resp' = [resp EXCEPT ![t] = NoResponse]
  /\ DropGuard(t)
  /\ UNCHANGED <<vars, follow, outcome, fetches, visited, pools,
                 permits, metrics>>

(* A redirect: the next round of the loop, or MaxRetriesExceeded when      *)
(* redirect_count would pass max_redirects.                                *)
FollowRedirect(t) ==
  /\ at[t] = "reply" /\ resp[t].kind = "redirect" /\ follow[t]
  /\ count[t] < MaxRedirects
  /\ redirects' = [redirects EXCEPT ![t] =
                     IF count[t] > 0 THEN Append(@, url[t]) ELSE @]
  /\ url' = [url EXCEPT ![t] = resp[t].to]
  /\ count' = [count EXCEPT ![t] = @ + 1]
  /\ at' = [at EXCEPT ![t] = "request"]
  /\ conn' = [conn EXCEPT ![t] = NoConn]
  /\ resp' = [resp EXCEPT ![t] = NoResponse]
  /\ DropGuard(t)
  /\ UNCHANGED <<vars, follow, outcome, fetches, visited, pools,
                 permits, metrics>>

TooManyRedirects(t) ==
  /\ at[t] = "reply" /\ resp[t].kind = "redirect" /\ follow[t]
  /\ count[t] >= MaxRedirects
  /\ Fail(t)
  /\ UNCHANGED vars

(* follow_redirects is off: the redirect is returned, and not counted. *)
ReturnRedirect(t) ==
  /\ at[t] = "reply" /\ resp[t].kind = "redirect" /\ ~follow[t]
  /\ Return(t, "redirect")
  /\ UNCHANGED <<vars, permits, metrics>>

(* update_metrics, under the lock of the metrics. *)
UpdateMetrics(r) ==
  LET good == IF r.kind \in {"ok", "moved"} THEN 1 ELSE 0
  IN  metrics' = [total      |-> metrics.total + 1,
                  successful |-> metrics.successful + good,
                  failed     |-> metrics.failed + (1 - good)]

ReturnResponse(t) ==
  /\ at[t] = "reply" /\ resp[t].kind # "redirect"
  /\ UpdateMetrics(resp[t])
  /\ Return(t, "response")
  /\ UNCHANGED <<vars, permits>>

-----------------------------------------------------------------------------
(* What a fetch does once it has begun. *)
Step(t) ==
  \/ DropPermit(t)
  \/ RequestInvalid(t) \/ LockPools(t) \/ FindConnection(t) \/ CreateConnection(t)
  \/ ResolveDns(t) \/ ResolveDnsFails(t)
  \/ EstablishConnection(t) \/ ConnectFails(t)
  \/ TlsHandshake(t) \/ TlsHandshakeFails(t)
  \/ SendHttpRequest(t) \/ SendHttpRequestFails(t)
  \/ Observe(t) \/ BuildRetryHeader(t) \/ NoRetryHeader(t)
  \/ ResendHttpRequest(t) \/ ResendFails(t)
  \/ FollowRedirect(t) \/ TooManyRedirects(t) \/ ReturnRedirect(t) \/ ReturnResponse(t)

PipelineNext ==
  \E t \in Tasks :
    \/ \E u \in Urls, f \in BOOLEAN : AcquireRateLimit(t, u, f)
    \/ \E u \in Urls \cup {BadUrl} : RateLimitRefuses(t, u)
    \/ Step(t)

PipelineSpec == PipelineInit /\ [][PipelineNext]_pvars

(* Every task that has begun a fetch is scheduled again and again, and the *)
(* calls it makes on sockets return.                                       *)
FairPipelineSpec == PipelineSpec /\ \A t \in Tasks : WF_pvars(Step(t))

-----------------------------------------------------------------------------
(* Properties. *)

Working == {"resolve", "connect", "handshake", "send", "observe", "build",
            "resend", "reply"}

(* Two requests never work on one connection, although they look for it    *)
(* under one scope of the lock and add it to the pool under another: the   *)
(* bytes of a request, and an authentication that belongs to the           *)
(* connection, are never mixed with another's.                             *)
HandleExclusive ==
  \A s, t \in Tasks :
    s # t /\ at[s] \in Working /\ at[t] \in Working
      => <<KeyNow(s), conn[s]>> # <<KeyNow(t), conn[t]>>

(* The redirects of a response that is about to be returned are the URLs   *)
(* requested between the first, which is its url, and the last, which is   *)
(* its final_url, in the order in which they were requested.               *)
RedirectTrail ==
  \A t \in Tasks :
    at[t] = "reply" /\ resp[t].kind # "redirect" =>
      /\ url[t] = visited[t][Len(visited[t])]
      /\ redirects[t] = SubSeq(visited[t], 2, Len(visited[t]) - 1)

(* Every fetch returns: servers that redirect for ever, addresses that     *)
(* refuse and challenges that have no answer included.                     *)
FetchReturns == \A t \in Tasks : at[t] # "idle" ~> at[t] = "done"
=============================================================================
