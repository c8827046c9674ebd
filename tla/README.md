# z-net: specification and verification

TLA+ modules that model the core of z-net, TLC configurations that check them
on small instances, and TLAPS proofs of what matters most for every instance.
`PROJECT.json` is the index: components, runs, mutants, the map from
definitions to source lines, findings, hazards and theorems.

    tlc -workers 2 -config NetEngine.cfg NetEngine     # a run
    tlapm BodyRingProofs.tla                           # a proof

## 1. The system

z-net is a networking stack for browsers. A Rust engine (`src/engine/src`)
owns sockets, TLS, QUIC and the protocol helpers and exports a C interface
(`net_*`, `znet_*`); Zig modules (`src/src/z_*`) wrap it and add the browser
services; `src/deployment` operates it. The host (a browser process) makes the
calls; nothing in the engine runs by itself.

| Component | State it keeps | Operations | Hard behaviour |
|---|---|---|---|
| Body ring (`z_body_ring.zig`, `lib.rs` `BodyRingDescriptor`) | shared buffer, `head`, `tail`, `is_closed` | reserve, fill, commit; the reader's find, copy, release | two processes, no lock, cursors only |
| Engine connections (`lib.rs` 205-660) | `connections`, `is_paused`, poller registry, `body_rings`, `conn_body_rings` | `net_connect`, `net_read`, `net_write`, `net_close`, `net_poll`, ring register / unregister / bind | backpressure against edge-triggered readiness while peer and reader move |
| Engine TLS (`lib.rs` 402-616) | one rustls connection per TCP connection to port 443 | the TLS branches of `net_read` / `net_write` | requests written during the handshake, partial writes, reads that rustls takes in part, end of stream |
| Standalone TLS (`lib.rs` 142-203, 857-1118, `z_tls/tls.zig`) | `tls_states` | `net_tls_create`, `_read`, `_write`, `_close`, `_verify_result` | loops over a blocking socket |
| HTTP/3 transport (`lib.rs` 657-781, 1164-1259) | `quic_endpoints`, `quic_conns` | `net_http3_connect`, `_drive`, `_close` | lost, repeated, reordered datagrams; timers that run only inside a call |
| Authentication (`protocols/auth.rs`) | `AuthState` per host, port and scheme | `observe`, `build_retry_header` | concurrent requests that share a key |
| Pipeline (`z_pipeline/pipeline.rs`) | connection pools, semaphores per host, metrics; each fetch its URL, redirects and connection | `fetch`, `execute_request`, `get_or_create_connection` and the calls they make | async tasks on shared pools, a lock that is not re-entrant, servers that redirect for ever, retries |
| Proxy selection and PAC (`protocols/proxy.rs`, `z_proxy`) | none between calls; the caller's buffers | `znet_pac_evaluate`, `znet_proxy_parse_first`, `znet_proxy_discover_env` | loops over text from outside, backtracking, buffer edges, two parsers for one format |
| Decompression (`z_compression/compression.zig`, `protocols/compression.rs`) | decoder state, position in the chunk | `feed`, `finish`, `Sink.write` | a ring drained while it is filled; errors half way |
| WebTransport registry (`protocols/webtransport.rs`) | sessions, one datagram queue | create, queue, close, drain (opening a stream only counts) | counts outside the mutex, pushes inside it |
| WebSocket (`z_websocket`) | pool of connections, `url_to_connection`, per connection its state and the message being assembled; listeners | `connect`, `disconnect`, listeners, `processIncomingData`, `cleanup` | several connections for one URL over time; control frames inside messages; reads that end anywhere in the stream |
| Event loop, service workers, storage, cache, DNS, QUIC in Zig, policy, security, prioritization, monitoring, deployment | see `PROJECT.json` | | planned, section 8 |

How they interact: `net_read` and `Sink.write` are the two producers of a body
ring, whose reader lives in another process; `net_read` pauses a connection by
taking it off the poller and `net_poll` resumes it by the fill of its ring; the
TLS branches sit between `net_read` / `net_write` and the same socket; the
pipeline's requests share the states of the authentication engine by key, and
what a PAC script returns is parsed into the hop through which a request goes.

What makes each part correct, in a sentence: the ring delivers the body in
order and no byte is touched by both sides at once; a pause is undone and loses
no readiness event; TLS delivers requests in order, nothing in the clear, and
hands out nothing from behind a gap; a handle means a verified session; a driven
QUIC connection ends its handshake whatever the network loses; a request is
refused the authentication retry only for another's sake and retried once;
fetches never share a connection and return; a PAC evaluation ends, with a hop
that is a rule of its result; a decompressed body is a prefix of the plaintext
and complete when it is closed; datagrams keep their order within a session; a
WebSocket listener hears its own peer's fragments in order, and the pool's entry
for a URL is current. Where the code falls short of these, section 5 says how.

## 2. Modules and how they correspond to the code

* **`BodyRing`** - variables `head`, `tail` and the slots are the descriptor's;
  the producer's locals (what `net_read` loaded before it computed its slices)
  are variables too, so that the reader can move between load and commit.
  `Reserve`, `Fill`, `Commit` are the producer (`net_read` 453-471,
  `Sink.write`, `commitWrite`), one slot at a time; `Find`, `CopyOut`,
  `Release` the external reader. **`ByteQueue`** is the abstract
  specification, a bounded FIFO queue; `BodyRing` implements it.
* **`NetEngine`** - connections, poller and backpressure. `net_read` is two
  steps (`NetReadRing` publishes, `NetReadWatermark` compares with 95%) and
  `NetEngine::poll` is `PollEnter`, one `PollVisit` per binding, and `PollReturn`
  or `PollFails`. `PollVisit` clears `is_paused` whether or not the poller takes
  the connection back, as the code does with the result of `register` dropped;
  `refused` remembers the connections it did not take back.
  `PeerSend` and `Consume` are the kernel and the ring's reader. A ring is its
  number of unreleased bytes here: `BodyRing` proves that this number is all
  the two sides have to agree on.
* **`Rustls`** - the rustls `ClientConnection` as a record of queues
  (external), for a TLS 1.3 handshake; **`TlsWire`** adds the server and the
  records in flight. `ReadTls(c, recs, m, trusted)` is the one call of `read_tls`
  that the engine makes per socket read, with its count ignored: rustls gets the
  first `m` records, any number, and the rest is gone (`lost`); the stream is
  then `torn`, and the next record fails. A full plaintext buffer (`PlainBuf`)
  makes `read_tls` refuse, with the same result (`NetReadFull`, `TlsReadFull`).
  **`EngineTls`** is a non-blocking socket with a bounded send buffer,
  **`StandaloneTls`** a blocking one, where each turn of the loops in
  `net_tls_create` and `net_tls_read` is a step. `EngineTls` has all three paths
  of `net_read` and `net_write`: `named` says whether the host is a server name
  at all (else the connection has no `ClientConnection` and goes through
  `NetWritePlain`, `NetReadPlain`), and `BindBodyRing` may put the ring path
  (`NetReadRing`) in front of TLS at any time; `raw` is what was then taken off
  the socket undecrypted. `VerifyResult` of `StandaloneTls` is
  `net_tls_verify_result`. `MCTls` puts the two surfaces, which share no state,
  into one run.
* **`Http3`** - `net_http3_connect`, `_drive` (receive one datagram; then timers
  and sending) and `_close`. quinn-proto is external: its handshake, its timers
  and its transmit queue. The root store given to it is empty (`lib.rs:733`), so
  the server's flight ends every handshake in `failed`: no other outcome is in
  the model because the code can reach none. `drive` polls no endpoint events.
* **`AuthEngine`** - `observe` and `build_retry_header`, each atomic under the
  mutex of the states map, called by concurrent requests. `ParseChallenge` and
  `BuildAuthResponse` say which challenges have an answer, and which. Two history
  variables: `rivals` of a request are the others that got a header for its key
  since its own challenge, `tries` how often it was sent again.
* **`Pipeline`** - EXTENDS `AuthEngine`, whose actions it takes its
  authentication steps from. A fetch is a task: `AcquireRateLimit` and
  `DropPermit`, then per round `LockPools`, `FindConnection` or
  `CreateConnection` (the two scopes of the lock), `ResolveDns`,
  `EstablishConnection`, `TlsHandshake`, `SendHttpRequest`, `Observe`,
  `BuildRetryHeader`, `ResendHttpRequest`, each with its failure, and
  `FollowRedirect` or one of the ways to return. `GuardHeld` is TRUE for the
  code as written, in which no fetch gets past `FindConnection`, and FALSE for
  the code with the guard of line 252 dropped after its last use at line 260:
  the rest of the pipeline can be looked at only so. Liveness is checked for the
  code as written alone, and fails; safety is proved for both.
* **`Glob`** - `glob_match`, one action per branch of its loop, with `Matches`
  as the meaning of a pattern: `Begins` says, for each rest of the pattern,
  where in the text what it matches to the end can begin. **`Proxy`** EXTENDS
  it: `evaluate_minimal` on scripts that are sequences of tokens, one action per
  branch, the write into the buffer, then the loop of `znet_proxy_parse_first`
  on what the buffer holds. `Landings` is where the code takes a block to begin:
  blanks before an `if` are counted twice, and how many characters there are is
  left open, so any later place is possible. `ScanReturn` and `ScanReturnBare`
  are the two branches for a return, quoted or not. `Semicolons`, `PartAt` and
  `Known` say what the parts of a rule string are without the loop that splits
  it.
* **`Decompression`** - `DecompressingStream.feed` / `finish`, the decoders and
  the loop of `Sink.write`. Plaintext is a sequence of positions, so that loss,
  repetition and disorder all show. `DecodeGzip(n, k)` takes `n` units in and hands
  `k` of the plaintext it has by then out: it may take all input and hold back
  output. `Finish` closes the ring whatever was fed and whether or not a feed
  failed; a caller whose feed failed feeds no more.
* **`WebTransport`** - the registry's operations; the count in the session's box
  and the push under the mutex are separate steps, and `max_sessions` is a
  parameter of each call. `MCTransport` puts it and `Http3` into one run.
* **`WebSocket`** - the manager and its pool. `connect` is `ConnectReuse` or
  `ConnectNew`, by what `createConnection` finds, with the handshake (which only
  sets OPEN) in the same step. The peer's frames are a stream: `Read` takes any
  number of them off it and may end inside one. `ProcessDataFrame` and its
  siblings handle the first frame of what was read, the rest is dropped;
  `DecodeFails` is a read without a whole frame, and after a cut inside a frame
  the bytes decode to whatever they look like (`Junk`, `InvalidOpcode`).
  `Cleanup` removes every connection whose last frame is too long ago. A message
  is the sequence of its fragments; `wire`, `talking`, `msgs` are the peer's,
  `heard` and `settled` record what became of each.
* `MC*` modules add symmetry sets, bounds, or a choice between two surfaces for
  TLC; `*Proofs` modules hold the theorems, `TlsProofs` for both TLS surfaces,
  `PipelineProofs` for `AuthEngine` and `Pipeline`, `ProxyProofs` for `Glob` and
  `Proxy`.

In every module a definition commented `mutant:` is a changed copy of the
action after it, with a fault that this code could plausibly have; it is used
only to see that the property listed with it in `PROJECT.json` notices.

## 3. What the runs check

| Run | Shows |
|---|---|
| `body_ring` | The body arrives in order through a ring of 4 bytes lapped two and a half times, without a data race, under every interleaving; the ring implements the queue. |
| `engine` | A host that opens, closes, binds, registers and unregisters, with an empty ring of its own for each connection, and a poller whose `register` may fail: `is_paused` and the poller disagree only on a connection the poller refused (`PausedIffOffPoller`), `poll` reaches every paused connection (`PausedIsVisited`), a full ring is paused (`FullRingIsPaused`), a wakeup is lost only with such a refusal (`NoLostWakeup`), every pause ends (`PausedResumes`), every byte leaves the socket of a connection that was not refused (`SocketDrained`). |
| `tls` | Both surfaces. Engine: requests reach the server in order through every path (`RequestsInOrder`); every answer is in one place and in order, also when a ring is bound in the middle of a session, and only a read that tears the stream loses any (`AnswersInOnePlace`); nothing leaves before the chain is verified unless the host is no server name (`NothingBeforeVerified`); an accepted request is answered, if the host also calls `net_write` with no bytes while rustls has output, unless the stream was torn, a ring bound or the server closed (`AcceptedIsAnswered`). Standalone: a handle, and the verdict Accepted, mean a verified, finished handshake (`HandleMeansVerified`); requests follow the client's Finished, in order (`TlsRequestsInOrder`); create returns unless its read tore the flight, and both calls return once the server has closed (`CallsReturn`). |
| `tls_read` | *Violation*: `net_tls_read` does not return with the plaintext it has decrypted (`ReadExposesPlaintext`). |
| `pipeline` | Two fetches at once: `HandleExclusive` (no connection is worked on by two), `RefusedForARival` (a request is refused its retry only when another request of the key got a header after this one's challenge), `OneRetryPerRequest`, `RedirectTrail`. |
| `pipeline_guard` | *Violation*: with the guard as written no fetch returns. |
| `proxy` | `GlobExact`, `StopsShortIndented`, `HopIsOneRule`, `EvaluateReturns`, for every pattern of up to 4 of `a b * ?` on every text of up to 4 characters, scripts of up to three statements, and rule strings of up to 3 parts in 4 sizes of buffer. |
| `decompress` | `RingIsPrefix`, and `AcceptedIsAccounted`: for identity, gzip and deflate the ring lacks nothing of what was fed but the output the decoder still holds; `feed` returns for every coding. |
| `decompress_stateless` | *Violation*: brotli and zstd bodies larger than one output buffer are cut short and closed as complete. |
| `transport` | A driven handshake ends in spite of three losses (`DrivenHandshakeEnds`); WebTransport: order and counts of datagrams per session (`DatagramsInOrder`), `max_sessions` is never exceeded (`TypeOK`). |
| `websocket` | Two connections for one URL with connects, disconnects, reads that end anywhere, time and cleanup in any order: `UrlNamesNewest`, `ClosingIsFinal`; `FragmentsInOrder` for fragmented messages with control frames between and pieces missing; `SilentIsRemoved`. |
| `websocket_frames` | *Violation*: a message in a frame behind the first of a read is neither heard nor refused (`NoMessageForgotten`). |

Runs with `CHECK_DEADLOCK FALSE` end because the bounded input (requests,
datagrams, bytes) is used up.

### Bounds and why they are enough

* Ring: capacity 4, 10 bytes: both wrap-around cases of the slice arithmetic,
  full, empty, and cursors beyond twice the capacity. The proofs cover the rest.
* Engine: two connections, so that one closes or moves while the other is paused.
  Capacity 2 puts the 95% and 50% marks at
  different fills (pause at 2, resume at 0); 3 bytes pause a connection, let it
  resume and leave it something to read. A capacity of 1 is excluded: section 5.
* TLS: 6 requests through a send buffer of 2 records and a plaintext buffer of 2
  answers fill every queue of the path at once, tear the stream anywhere and leave
  answers behind the gap; requests fall before, during and after the handshake. Both
  verdicts of the root store are explored: today it is empty
  (`RootCertStore::empty()`, `lib.rs:183` and 260), so only FALSE happens; the
  comments announce a store with roots.
* Pipeline: 2 fetches on 2 keys of one host with 1 permit, so that pools are
  shared or not and the limiter refuses; the two URLs redirect to each other and
  to an invalid one, with 4 redirects allowed, so a trail has an order and the
  bound is reached from both; one challenge that has an answer and one that has
  none. Since nothing clears `in_use`, the branch of `FindConnection` that
  reuses a connection, and the clean-up, find nothing to take: that is the code,
  and the mutant without the test of `in_use` shows what the property rests on.
  The safety properties are proved for any number of fetches, keys and
  redirects.
* Proxy: three statements put every kind of statement before and after every
  other, with nested, empty and missing blocks; patterns of four characters hold
  two stars with something between and behind them; three parts put a bad or
  unknown rule before, behind and between good ones; buffers are empty, one
  byte, too small and large enough.
* Decompression: 5 input units, ratio 2, output buffer 4, ring 3: a chunk larger
  than the output buffer, plaintext larger than the ring, every cutting into
  chunks.
* HTTP/3: one connection and three losses, enough to lose each of the datagrams
  of a handshake (hello, flight, close) while another is repeated.
* WebTransport: 3 sessions with 2 datagrams each.
* WebSocket: one URL and two connections, so that a closing connection and its
  successor are in the pool together; 2 messages in 2 frames and one cut inside a
  frame (3 frames in `websocket_frames`, without cuts, for a message in fragments
  with another frame in the same read). The proof of `FragmentsInOrder` covers
  any number.

### Fairness and why the code justifies it

* `NetEngine`: the host keeps calling `net_poll` and reads after each event
  until `net_read` fails (the only use the edge-triggered poller allows); a call
  in progress goes on; a wait that may fail (EINTR) does not fail for ever (strong
  fairness of `PollReturn`); the reader drains its ring. Peers owe nothing.
* `EngineTls`, `StandaloneTls`: a call in progress goes on, the host keeps
  reading, the server answers; nobody has to write another request or close. A
  host that pumps is one kind of host (`pumps`); the code obliges nobody to, see
  section 5.
* `Pipeline` (`pipeline_guard` only): a fetch that has begun is scheduled again
  and again (an async task on an executor) and the socket calls it makes return:
  they are trait objects with a `set_timeout`. No fairness for starting fetches.
* `Proxy`: the calls are loops of one thread, which goes on.
* `Http3`: the host drives its connections again and again, a drive ends, time
  passes, and the server receives a datagram that is sent again and again
  (strong fairness: the network loses finitely many).
* `WebSocket`: the host calls `cleanup` again and again and time passes; peers and
  listeners owe nothing.
* `Decompression`: a `feed` in progress goes on; the reader owes nothing.

## 4. What is proved

* **`BodyRingProofs`** - for every capacity and body length: `RingInvariant`;
  the cursors never cross and are at most one buffer apart
  (`CursorsNeverCross`, hence no unsigned subtraction underflows); the body is
  received in order (`BodyDeliveredInOrder`); no slot is written and read at
  once (`NeverADataRace`); the ring implements `ByteQueue`
  (`RingImplementsQueue`). The inductive invariant adds to the properties what
  the two sides know: the producer's stale copy of `tail` is behind the real
  one, its reservation lies in the free part, the reader's window lies in the
  published part, and every published slot holds the byte of its position.
  Assumption: capacity is a positive natural number.
* **`NetEngineProofs`** - for every number of connections, rings and bytes, any
  capacity above 1, any timeout and any host, with a poller that may refuse:
  `PauseMatchesPoller`, `PausedIsReached`. `EngineInv` adds that ids are fresh,
  that only open connections are paused, that the bytes in a socket were sent,
  and that the ring `net_read` has just filled is still bound when it reaches
  the watermark: the last is what makes the pause reachable for `poll`. For a
  host that gives each connection an empty ring of its own (`Disciplined`, as in
  the `engine` run), also `FullMeansPaused` and `WakeupsAreKept`.
  `DisciplineInv` adds that no two connections share a ring or a descriptor
  (`RingsAreOwn`), lets `net_read` be between publishing and its check of the
  watermark (`FullOrReading`), and keeps for every connection with bytes in its
  socket that the poller did not refuse one who will look (`WakeupPending`).
* **`TlsProofs`** - for any number of requests, any send and plaintext buffer,
  any verdict of the root store, and any part of a read taken by rustls. Engine
  TLS: `EngineRequestsInOrder`, `EngineAnswersInOnePlace`,
  `EngineNothingBeforeVerified`. `EngineInv` says which records can be in which
  queue at which point of the handshake, and that what the server has received,
  what is on the wire, what rustls has encrypted and what it keeps for after the
  handshake are, one behind the other, the requests 1 to `written`; the same,
  from the other end, for the answers with the host, in rustls, lost, in the
  ring and in the socket. That they are in this order rests on the stream being
  torn as soon as anything is lost: behind a gap rustls accepts nothing, so what
  comes later is lost too. Standalone TLS: `StandaloneHandleMeansVerified`,
  `StandaloneRequestsInOrder`, from `HandleInv`, the same chain without a ring,
  that a request is behind the client's Finished in every queue unless the
  server is past it, and that a handle is given out after the handshake only.
  What `process_new_packets` makes of a whole queue (`ProcessAll`) is proved by
  induction on its length.
* **`PipelineProofs`** - for any number of tasks, keys, URLs, redirects and
  permits, with the guard of the pools held, as written, or dropped:
  `ConnectionsAreExclusive`, `RedirectsAreTheTrail`, `RefusalsHaveARival`,
  `RetriesAreSingle`, `AuthEngineIsReady` (the guards of `AuthEngine` never hold
  the pipeline up, so no property holds because a request is blocked) and
  `NoConnectionIsReused`. For the retries, `AuthInv` counts for each key the
  headers handed out since its last challenge, and keeps for each challenged
  request, with the flag up, one that got a header after it was challenged.
  `PipelineInv` adds that a connection at work is marked in the pool of its key,
  that the URL of a request is the last of its trail, and where the engine's
  record of each request stands; every action is first shown to be one of a few shapes (a request
  advances, a fetch finishes, ...), and each part of the invariant is proved for
  the shapes.
* **`ProxyProofs`** - for every script, pattern, text, rule string and buffer:
  `PatternsAreExact`, `ShortStopsAreIndented`, `TheHopIsOneRule`. `glob_match`:
  the pattern matches if the rest of it does from here, or with more given to
  the last star (`HereOrBacktrack`); that a star before the last need not be
  tried again follows from `SinceStar`, the piece between the last star and `p`
  having no star in it. The interpreter: `FindBody` cuts out a body whose braces
  balance, so every brace in it has its partner (`EvalInv`, with lemmas on the
  depth of nesting). The rule string: it is split up to a semicolon, and `found`
  is what a part before it makes, or nothing when none is known (`HopInv`). The
  assumption on the calls says what their fields are.
* **`DecompressionProofs`** - for any body, any cutting into chunks, any ratio, output
  buffer and ring, for identity, gzip and deflate: `RingHoldsAPrefix`,
  `NothingAcceptedIsLost`. `DecodeInv` ties the decoder's position, the position in
  the chunk, what it has handed out and the plaintext still to place together, also
  inside `Sink.write`.
* **`WebSocketProofs`** - for any number of URLs, connections and frames and any
  timeout: `UrlEntriesAreCurrent`, `ClosingNeverReopens`. `PoolInv` adds to
  `UrlNamesNewest` that ids in the pool are below `next_connection_id`, which
  makes a new connection newer than every other. For any number of messages and
  fragments and any reads: `FragmentsAreInOrder`. `MailInv` says of each connection
  that the frame numbers grow along what was heard, what is being assembled and what
  is on the wire, one behind the other, and that all of it is its own peer's.
* **`WebTransportProofs`** - `RegistryIsTyped` and `DatagramsStayInOrder` for any
  number of sessions. `QueueInv` adds that the count already includes a datagram whose
  push is under way.

Every safety invariant, action property and refinement that a passing run checks
is a theorem. Left to TLC are the liveness properties (`SocketDrained`,
`PausedResumes`, `AcceptedIsAnswered`, `CallsReturn`, `EvaluateReturns`,
`FeedReturns`, `DrivenHandshakeEnds`, `SilentIsRemoved`): the prover has neither
fairness nor ENABLED. Where a proof needs induction over data (`ProcessAll`,
`Begins`, depths of nesting) it is made with a set in the place of a predicate
(`SetInduction`, from the least element of a set of natural numbers), as the
library's theorems with an operator parameter cannot be used. No module uses a
RECURSIVE operator.

## 5. Findings

Each is a disagreement between the code and what it says of itself; the four
with a run are quoted in `PROJECT.json`.

* `decompress_stateless`, `compression.zig:284` - the wrapper reports output as
  input consumed.
* `pipeline_guard`, `pipeline.rs:351` - `execute_request` still holds the guard
  of the pools (252) when `get_or_create_connection` locks them again.
* `tls_read`, `lib.rs:962` - the loop of `net_tls_read` over a blocking stream is
  left only on WouldBlock, which such a stream does not report, or with an error:
  the success that the doc at 932 describes is never reached.
* `websocket_frames`, `websocket_manager.zig:357` - of the frames in one piece of
  data only the first is processed, the rest is dropped.

Seen while modelling, without a run of their own:

* `lib.rs:294-299`: `poll` drops the result of `register` and clears `is_paused`
  all the same: a connection the poller does not take back is neither paused nor
  registered, no later turn of the loop looks at it, and its bytes raise no event.
* `lib.rs:512` (and 902, 967): `read_tls` is called once for up to 16 KiB and takes
  about 4096 bytes; the count is ignored and the rest of the read is gone. A server
  flight or an answer above that, in one read, tears the stream: the next record
  fails, and `net_tls_create` waits for the rest of a flight that will not come.
  When the plaintext buffer of rustls is full, `read_tls` takes nothing and the whole
  read is gone.
* `lib.rs:588`: only `net_write` calls `write_tls`, so a request accepted during
  the handshake stays queued until the host writes again (506-518 read only). A
  host that does not call `net_write` with no bytes waits for ever: the premise
  `pumps` of `AcceptedIsAnswered` names what the code leaves to it.
* `lib.rs:285-311`: `net_poll` with a negative timeout looks at the rings once,
  before it waits; with its only connection paused it never returns.
* `lib.rs:455`: a connection bound to a ring that is already full fails every
  `net_read` before the watermark test, so it is never paused and no `poll`
  resumes it. The host's part in `NetEngine` is to bind empty rings, one per
  connection.
* `lib.rs:293`: with a capacity of 1 the low watermark is 0 and a paused connection
  is never resumed; the assumption on `Capacity` excludes it.
* `lib.rs:509`: at end of stream `net_read` fails before it hands out plaintext
  that is already decrypted; `AnswersInOnePlace` then finds it in rustls, for good.
* `lib.rs:733`: the QUIC configuration has an empty root store, so every HTTP/3
  handshake fails at the server's flight.
* `lib.rs:1248`: the CONNECTION_CLOSE that `net_http3_close` queues is dropped
  with the connection, unsent, against the comment on that line.
* `lib.rs:404`: a host that is no valid server name gets a plain connection to
  port 443; `lib.rs:445`: a ring bound to a TLS connection receives ciphertext.
* `lib.rs:281`: TCP and QUIC handles both count from 1.
* `auth.rs:59-60` says a connection is never retried more than once; every
  challenge clears the flag (305, 316). The flag is per key: a request may be
  refused because another used the retry, even one that answered another
  challenge than the latest (`RefusedForARival` says no more than that there was one).
* `compression.zig:76`: `Sink.write` returns Full with part of its data
  committed (at 100%, the comment says 95%) and does not say how much, so a caller
  that feeds the chunk again repeats that part. `compression.zig:377`: `finish` closes
  the ring whatever was fed, after a failed feed, and with output still in an inflate
  that had taken all of the input (162-166).
* `webtransport.rs:80`: the cap counts sessions ever created; `webtransport.rs:163`
  says payloads are copied, the pointer is.
* `websocket_protocol.zig:194`: a frame cut across two reads is lost: the first
  read fails and is not kept, the second is decoded from inside the frame. The
  extended lengths are read in native byte order (172-179).
* `websocket_protocol.zig:696`: removing a connection removes the entry of its
  URL even when a newer connection owns it, so the next `connect` makes a second
  open connection for the URL.
* `websocket_protocol.zig:117`: `encode` appends no length byte for payloads
  under 126 bytes; its test expects a round trip. A received close is not
  answered and CLOSED is never assigned; `max_connections_per_origin` is stored
  and never consulted; the ping task carries the text "ping", which its callback
  parses as a number and gives up.
* `socks5.zig:65`: the greeting has four bytes and announces one method: without
  credentials one stray byte precedes the request.
* `cache.zig`: entries are written in native byte order and read as big-endian.
* `pipeline.rs`: nothing sets a connection's `in_use` back (355, 373), so no
  connection is used twice or cleaned up, and the pool grows; the rate limiter's
  permit is dropped at the end of the statement that acquires it (194), and the
  hosts of redirects are not limited; `box_clone` panics (766-780); a request that
  ends in an error is not counted; `https` requests go through `socket.send`
  (463), not the TLS connection; header names keep their case (520) while
  `location` and `www-authenticate` are looked up in lower case; an NTLM exchange
  takes two rounds and one retry is made; `connect_to_ip` never yields, so the
  timeout around it cannot fire, and `recv` has none. `pool_key` is used after
  it was moved (263, 305) and `try_acquire_owned` is called on a reference
  (614): the file does not compile as it is.
* `proxy.rs:101` says the first rule is parsed, the loop keeps the last;
  `proxy.rs:152` says the interpreter mirrors the Zig one, which stops at the
  first return (`pac.zig:135` tests it), while this one goes on and keeps the
  last: no property takes a side. An `if` behind blanks makes the evaluation
  give up, run on from another place, or abort the process (212) where 71-73
  promise -1; `isPlainHostName` and `shExpMatch` test the text of their
  arguments (252, 266), and an `if (...)` as JavaScript requires is never true;
  `znet_pac_evaluate` cuts a result that does not fit where
  `znet_proxy_discover_env` refuses (93, 60). `pac.zig:108` says `*` stops at
  `/`; neither matcher does.

## 6. Hazards

`PROJECT.json` lists the hazards at their lines with the properties that catch
them. They come from five places: shared cursors (body ring), decisions taken
on a level that is already history (watermarks, `poll` before its wait),
partial progress (TLS flush, `Sink.write`, handshake loops), state shared by key
or by registry (authentication, connection pools, WebTransport, the WebSocket
pool), and loops over text from outside (PAC scripts, patterns, rule strings).
Four have no property: a host that leaves the discipline of the `engine` run
(`lib.rs:291`), plaintext left in rustls at end of stream (`lib.rs:509`), the return
that counts in a PAC script (`proxy.rs:206`) and the close that is never sent
(`lib.rs:1248`). In each the code does the same in every behaviour; section 5
describes it.

## 7. Not modelled

Getters and formatters (versions, certificates, metrics), header parsing,
configuration files, dashboards; the contents of tokens and records; OCSP and
privacy DNS (stubs); WebTransport streams, WebSocket pings and ping tasks, which
change nothing that is read; the Zig WebTransport session API, whose callees do not
exist. Memory reclamation (`Box::from_raw`, `deinit`) is assumed to be called
once per handle by the host. Of the pipeline, durations and the caches (which
hold nothing); of the proxy, the Zig configuration, SOCKS5 and CONNECT. The Zig
services of section 8 keep state of their own and are not modelled yet.

## 8. Plan

1. *Services with their own state machines*: service worker lifecycle, registry
   and background sync; event loop task queues and background tasks.
2. *Bounded stores*: HTTP cache and service worker cache (insertion, expiry,
   eviction against their byte counters), storage quota and transactions, DNS
   and policy decision caches.
3. *Transport*: QUIC streams and flow control, prioritization tree, connection
   pool of `z_performance`, the SOCKS5 exchange and the CONNECT tunnel.
4. *Operations*: rolling update with rollback, backup and recovery with crashes
   between their steps, health state transitions.
5. *Composition*: an engine module over `NetEngine` and `Http3` with the shared
   handle numbers; the fetch path (service worker, cache, pipeline).
6. *Proofs*: every safety property of the present modules is proved (section 4).
   Next are the steps of the liveness arguments that need no fairness (what decreases
   with every round of `glob_match` and of `evaluate_minimal`), and, with the
   modules of 1-4, the capacity invariants of the stores and a cache and a pool as
   implementations of an abstract bounded map.
