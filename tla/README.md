# A TLA+ model of catcher

catcher is a client library for HTTP, server-sent events (SSE) and WebSocket.
Its core is a set of Rust crates; TypeScript, browser, Dart, UniFFI and N-API
packages wrap the core or implement the same ideas again. What makes it hard is
not any single request but what happens *around* requests: connections die and
come back while the user keeps sending, networks change while requests and
lookups are in flight, requests are cancelled anywhere on their way, and a
circuit breaker, a concurrency limit, a DNS cache and a table of pending
requests are shared by all of them.

This directory holds specifications of those parts, TLC configurations that
check them on small instances, and TLAPS proofs. File names below are relative
to `src/packages/`.

* `tlc -workers 2 -config X.cfg M` runs one configuration of module `M`
  (`PROJECT.json` lists the pairs);
* `tlapm M.tla` checks the proofs of a module `M` whose name ends in `Proofs`
  (`PROJECT.json` lists the theorems).

## The system and its parts

| Part | State | Operations | Interacts with |
|---|---|---|---|
| WebSocket connection manager (`catcher-ws/src/transport/ws_client.rs`, `ws/reconnect.rs`) | the socket, `current_url`, attempt count, `race_endpoints`, `skip_backoff`, `buffered_commands` | select loop, network change, backoff loop, drain, replay; `WsHandle` sends Text, Binary, Close, NetworkChanged | an unbounded command channel from every `WsHandle`, an event channel to the user, endpoint racer, heartbeat |
| Endpoint racer (`ws/multi_endpoint.rs`) | the tasks of one race | race, abort the losers | connection manager |
| Heartbeat (`ws/heartbeat.rs`) | last pong, missed pongs, RTT samples | ping, pong, check | connection manager |
| Circuit breaker (`catcher-http/src/resilience/circuit_breaker.rs`) | state, three counters, `opened_at_ms` | `before_request`, `on_success`, `on_failure`, `reset` | every request, network change |
| HTTP transport (`catcher-http/src/transport/http_client.rs`) | client, global cancel token, `pending_requests`, `network_generation` | `execute`, `execute_with_token`, `execute_stream`, `network_changed`, `cancel_all`, `cancel_request` | breaker, queue, metrics, DNS |
| Priority queue (`scheduler/priority_queue.rs`) | two channels, a semaphore | submit, worker | HTTP transport |
| Retry (`resilience/retry.rs`, `backoff.rs`, `transport/retry_middleware.rs`) | the attempts of two nested loops, with the resend after a 421 between them, retry counters | send, retry, give up | HTTP transport, metrics |
| Adaptive timeout (`resilience/timeout.rs`) | sliding window of latencies, cached percentile and statistics, one dirty flag | record, `timeout_ms`, `snapshot` | HTTP transport, under a mutex |
| Network quality (`observability/network_quality.rs`, `ffi/quality_ffi.rs`) | a shared evaluator, a table of subscriptions | evaluate, history, subscribe, unsubscribe | host language |
| SSE client (`sse/client.rs`, `sse/router.rs`) | `ready_state`, `last_event_id`, attempt count | background loop, `close`, drop | server, owner's channel |
| SSE stream (`sse/stream.rs`) | chunk buffer | `poll_next` | HTTP transport |
| DNS resolver (`catcher-dns/src/lib.rs`) | cache, `refreshing`, `generation`, resolver | `resolve_zero_port`, refresh task, `clear_cache`, `network_changed` | HTTP transport, hickory, moka |
| C interface (`catcher-core/src/handle_registry.rs`, `*_ffi.rs`) | handle tables, cancelled marks | create, callbacks, destroy | host language |
| Node and UniFFI bindings (`catcher-napi-http`, `catcher-napi-ws`, `catcher-uniffi`) | the handle or task of an object, one worker for synchronous calls | connect, send, close, drop, observers | host language |
| Other implementations | - | - | see "Not modelled" |

Correctness, part by part: what the user handed over is sent once, in order, or
its loss is visible (WebSocket); the breaker opens and closes for the right
reasons and never for good (breaker); permits, metrics and the pending table
stay in step with the requests whichever way they end (HTTP); reconnects are
bounded, stop on close, and neither repeat nor skip events (SSE); answers from
before a network change do not survive it (DNS); no callback after destroy and
no lock held across a wait (FFI).

The hazards behind these properties, each at the line where it bites, are the
`hazards` of `PROJECT.json`.

## The modules

| Module | Models | Remarks |
|---|---|---|
| `WsContract` | what a user of a WebSocket connection may rely on | abstract specification |
| `WsConnection` | the connection manager | implements `WsContract` |
| `WsConnectionProofs` | proofs about `WsConnection` | |
| `Breaker` | the state of `CircuitBreaker` and each method as a step | composed by the next and by `HttpTransport` |
| `CircuitBreaker` | the breaker with callers, cancellations, `reset` and the clock | |
| `CircuitBreakerProofs` | proofs about `CircuitBreaker` | |
| `HttpTransport` | concurrent requests with breaker, queue or semaphore, cancellation, network change and the 421 retry | composes `Breaker` |
| `HttpTransportProofs` | proofs about `HttpTransport` | |
| `Retry` | the retry middleware, `execute` with its resend after a 421, and `retry_with_backoff`, one around the other; the errors between them, the counters | |
| `RttWindow` | the sliding window of round trips and its statistics, with a reference definition of the percentile | operators |
| `AdaptiveTimeout`, `Quality`, `Heartbeat` | the three users of such a window | compose `RttWindow` |
| `RetryProofs` | proofs about `Retry`, and about `RttWindow` and its users | the assumptions and the invariants are apart |
| `SseClient` | the reconnecting SSE client, a server and an owner | |
| `SseStream` | a response body, cut into chunks, decoded and split into lines | with a reference definition of the lines |
| `DnsCache` | the DNS cache of one hostname across network changes | |
| `DnsCacheProofs` | proofs about `DnsCache` | |
| `HandleRegistry` | the table behind every handle | composed by the next three |
| `HttpFfi` | calls through the C and the Node interface of HTTP | |
| `HttpFfiProofs` | proofs about `HttpFfi` | |
| `SseBinding` | a stream or a client through the C and the Node interface of SSE | composes `SseStream` |
| `SseClientProofs` | proofs about `SseClient` and about `SseBinding` | two specifications without common state |
| `WsBinding` | WebSocket clients through the C, Node and UniFFI interfaces | |
| `AuxRuntime` | the synchronous calls of the UniFFI binding on their one worker | |
| `WsBindingProofs` | proofs about `WsBinding` and about `AuxRuntime` | two specifications without common state |
| `MCRtt`, `MCSse` | the three users of `RttWindow`, and `SseClient` with `SseBinding`, for one run each | a behaviour takes the steps of one of them, since they share no state |
| other `MC...` | some of the modules above for TLC, with symmetry sets, bounds or values of constants | |

**Steps.** A step ends at an await, and between two accesses to shared state
that no lock joins. `CircuitBreaker::reset` releases its mutex before it clears
the counters and is two steps; `cancel_all` takes two locks and is two steps;
`network_changed` is four (generation, breaker, build, install); the comparison
of the generation and `on_failure` are two; a callback that tests a mark and
then calls the host is two.

Two steps join accesses that this rule would part, to keep the models small.
`ResetCounters` is the three stores at the end of `reset`
(`circuit_breaker.rs:116-118`). `ServeStale` is the `get` of a stale entry, the
load of the generation, the insertion into `refreshing` and the spawn
(`catcher-dns/src/lib.rs:383-395`). Neither hides anything from the properties:
no store of `reset` depends on another, and a refresh whose generation is old or
whose marker a change has meanwhile removed is also what a change right after
the spawn leaves. With a step for each store, or for the `get`, the load and the
insertion, all properties of `breaker` and `dns` hold within the same bounds
(369,306 and 8,384,746 states).

**Mutants.** A definition under a comment that begins with `Mutant:` is a
deliberately wrong variant of a definition that follows it. No specification
uses it; it records a plausible mistake that one of the properties catches
(`mutants` in `PROJECT.json`).

### WsConnection

The command channel is the sequence of all commands ever accepted (`log`) with a
read position (`head`), so a command is its position, and properties can relate
what was accepted to what was sent. `pc` is the place of the manager task:
`Connected` is the select loop, `Drain` the merging of commands after a network
change, `NetConnecting`/`NetReplay` the immediate reconnect, `Retry`, `Backoff`,
`BackoffDrain`, `Connecting`, `Replay` the backoff loop. `buffered` and
`replayed` are `buffered_commands` and the progress of a replay. The history
variables `event`, `error`, `session`, `fate`, `tries` and `netChanged` are read
by no action.

Abstracted: payloads (a message can only differ in whether it can be encoded),
delays, the handshake (it succeeds or fails), the tasks of one endpoint race
(any raced endpoint may win), the heartbeat's clock (missed pongs are counted as
in the code; when a check is due is free, `Heartbeat` has the times).

`WsContract` speaks of one socket: a replay that fails half way keeps the whole
buffer, so a message may reach the server on two sockets. At-most-once holds per
socket and not across sockets, and the contract does not claim more.

### Breaker and CircuitBreaker

`age` is `now_millis() - opened_at_ms` up to `ResetTimeout`; the subtraction is
of unsigned readings of the system clock, so setting the clock back past
`opened_at_ms` wraps and looks like a long time (`ClockBack`). The count of
half-open requests stops at the bound `ProbeCap`: from `MaxProbes` on all values
are alike, and the wrap of the `u32` after 2^32 rejections is left out.

Callers may be cancelled, resets and clock steps may come at any time, in every
run. The history flags `lost` (a probe was cancelled), `hasty` (a failure opened
the breaker between the steps of a reset), `disturbed` (a reset ended in a later
episode) and `wrapped` (the clock was set back past the opening) let the
properties say which disturbance excuses what.

### HttpTransport

Each request goes through `idle, called, begun, admitted, waiting, running,
finishing, failing, renewing, done`. `mode` is the concurrency control that
`new()` chose; it is fixed at the start and all three are explored in one run.
With the queue the exchange runs in a task of its own (`task`), which a
cancellation of the request does not end. `network_changed` can be in progress
for the user and for a request that got a 421 at the same time (`changer`).
Initially the breaker is closed, or half-open after a cancelled probe: with two
requests this is what makes admitted and rejected probes happen.

Abstracted: the exchange itself (`ok`, `error`, 421; what is inside it is
`Retry` and `AdaptiveTimeout`), request priorities and the queue capacity of
1024, `execute_stream` (`HttpFfi`), and the DNS part of `network_changed`
(`DnsCache`). A breaker is assumed to be configured.

### Retry

A request is in the outer loop (`attempt`), in the first or second run of
`execute` (`run`), in the middleware (`past` retries), or done. A send ends in a
response, a status 5xx, 408 or 429, or a transport error; the breaker may reject
a run before it is sent. What the loops see of each other is the category of the
error: one that the middleware has retried comes back wrapped as
`RetryExhausted` and is final, while a 5xx that survives the middleware comes
back as a plain, retryable `HttpError`. A first run that ends with a 421 is
recorded like any other; then `execute` rebuilds the client, which may fail
(`RebuildFails`), counts a retry and runs the request again (`RunAgain`), with
the middleware's retries anew and without the 421 leaving a trace in the error.
`hidden` counts the sends that no error tells of. `wraps` has the attempts of
each `RetryExhausted` around an error, the outermost first.

Delays are left out but for their number: backon's builders give `MaxTimes` of
them. A metrics snapshot takes two steps, since the counters are loaded one by
one; `late` counts the requests recorded in between. A request that is dropped,
or cancelled in the queue, may leave a task behind that goes on sending: that
task is `HttpTransport`'s, and here a request ends with its caller.

### RttWindow, AdaptiveTimeout, Quality, Heartbeat

`RttWindow` has the window, the percentile by sorting, the statistics, and
`IsP90`, which says what the percentile is without computing it (`MCRtt`
compares the two for short windows, as an assumption that TLC evaluates;
`PercentileCorrect` proves them equal for all). Sorting is by counting: the
place of a sample is the number of those that are not after it, which needs no
recursion and gives the sequence that `sort_unstable` gives. The users share no
state; `MCRtt` composes them, and a behaviour chooses one of the four parts
(`part`) and takes its steps only.

* `AdaptiveTimeout`: requests take their timeout and record their latency under
  one mutex, the host configures and reads. A configuration with `min > max` or
  without room for a sample panics under the lock and poisons it.
* `Quality`: evaluations wait for the lock of the shared evaluator, or, for the
  history, find it busy. A subscription is a task with its own evaluator; the
  table knows it by its address, which the allocator may give out again.
* `Heartbeat`: time passes in steps; pings are in flight until the peer answers,
  in order, or never. `pings` counts those since the last pong.

### SseClient, SseStream

In `SseClient` the server's stream is events 1, 2, ..., each an `id:` line and a
content line, in one order or the other (`idFirst`, fixed at the start). A
request continues after its `Last-Event-ID`. A response may end cleanly, within
a line, with an error, or be a 204. `close()` is two steps, the signal and the
state. Delays, and the `retry:` lines that set them, are left out.

`SseStream` has the bytes: a letter, the prefix `id:` taken as one, the two line
ends, and the halves of one character of two bytes. `Chunk` is `poll_next` on a
chunk: `Decode` is `from_utf8_lossy` of that chunk alone, in which a half of a
character becomes the replacement character, and `ProcessBuffer` reads the
result character by character. What the lines of a text are is stated without
it, by the places of the line feeds: `LineAt` is the line that ends at a place,
`Content` the places where a line of content ends, `Rank` which of them a place
is, and `LastIdOf` the id of the last id line. `ReadText` is the body as one
text.

### DnsCache

One hostname. An answer is represented by the resolver that gave it and, as
history, by the generation in which its lookup began. `try_get_with` of moka is
modelled from its use: callers that miss share one lookup, and one of them takes
over when its owner gives up. Host mapping is constant, hickory's own cache and
`stale_on_error` are left out, and one `network_changed` runs at a time.

### HandleRegistry, HttpFfi, SseBinding, WsBinding

A handle is an id that is never used twice; an object that was looked up lives
on whatever becomes of its entry. `binding` is the interface in use, fixed at
the start, and all of them are explored in one run.

* `HttpFfi`: each call has its kind (without id, with id, stream, unsupported
  method), the client it found, the token it took, and the event it is about to
  report. The bound is one call: calls of one client affect each other through
  the tokens, which `CancelAll` and `Destroy` move on at any time, and through
  the lock of the adaptive timeout, which `Poison` stands for, the panic of any
  other call. `AdaptiveTimeout` and `HttpTransport` have the rest.
* `WsBinding`: the task that connects and forwards events, the connection
  reduced to its start, events and end, and the host, whose commands are
  accepted or refused. `inside` is a destroy that
  is called in a callback.
* `SseBinding`: the forwarding task holds the client's mutex while it waits for
  a line; the host's calls queue for it, in order, as tokio's mutex does.

### AuxRuntime

`block_on_aux_thread` spawns a future on a runtime with one worker and blocks
the caller. A poll is a step when the worker is free; an SSE observer keeps the
worker while it runs, and `evaluate_quality` keeps the lock of the evaluator
while it waits. `parent` is the observer in which a call was made.

## What the runs check

| Run | Bounds | Shows |
|---|---|---|
| `ws_reconnect` | 2 endpoints, 2 attempts, 4 commands | `NoForgottenMessage`, `RetryBudget`, `EndpointChosen`, `CloseIsFinal`, `LossEndsConnection`, the refinement `ImplementsContract`, and, with fairness, `ShutdownCompletes` and `MessagesSettle` |
| `ws_binding` | 2 clients, 2 events each, 3 bindings | `DestroyedIsSilent`: no callback after a C destroy, those of a running poll after a UniFFI drop, commands in one race only; with fairness `DestroyReturns` and `ReleasedEnds`: what is destroyed, dropped or closed ends |
| `breaker` | 3 callers, thresholds 2 and 2, cancellations, resets, clock steps | `SlotsSuffice` (a half-open episode has its slots and no more, and can still decide), `OpenEarned`, `CloseEarned`, `CoolDown`, and, with fairness, `HalfOpenEnds` |
| `breaker_wedged` | as above | *violated:* `HalfOpenAlwaysEnds` |
| `http` | 2 requests, 3 modes, 1 permit, 1 user network change, 1 `cancel_all` | `PermitsConserved`, `AccountsRight` (metrics and breaker), `PendingAccurate`, `OnlyExposedCancelled` |
| `retry` | one request with up to 2 inner and 3 outer attempts, 1 delay of backon, a 421 in each operation; two requests with 1 inner attempt and 3 operations together, 2 while a snapshot is taken | `SendBudget`, `AttemptsTold` (errors, hook, counters, snapshot) |
| `retry_nested` | 1 request, 1 inner and 2 outer attempts | *violated:* `NeverNested` |
| `rtt` | windows of 2 or 3 samples, 2 requests, 2 evaluations, 2 subscribers at 2 addresses, 3 missed pongs | `TimeoutServes`, `LevelsCurrent`, `UnsubscribeEnds`, `SilenceJudged` |
| `sse` | the client: 3 events, 2 retries, 2 closes, both line orders; the binding: 5 bytes in any chunks, 3 lines of a client, 2 calls of the host | `ConnectBudget`, `StopsSoon`, `DeliveryByLineOrder`; `ChunksInvisible`, `HostTold`, `WaitsForOneLine`; with fairness `HostReleased` |
| `dns` | 2 callers, 2 refreshes, 2 network changes | `OldLookupLeaves`, `NothingLeftBehind` |
| `http_ffi` | 1 call of each kind, 2 clients, 2 chunks, 1 `cancel_all` | `CallsSettled`, `LateAtMostOnce`; with fairness `CancelledEnds` |
| `uniffi` | 3 calls, 1 line | `WorkerShared` (the worker is with a call whose observer runs, the lock with one that measures); with fairness `AnsweredReturns` |

A property that a run checks is often a conjunction of named parts, each stated
and commented on its own (`AttemptsTold` is `AttemptsReported`,
`RetriesCounted`, `HookMatchesRetries` and `SnapshotHonest`). The types of a
module, `TypeOK`, are a part of one of its invariants. The safety properties are
also proved, for all values of the constants; see "What is proved".

The bounds. Four commands are enough for a message before and a message after a
Close or a network change with a second one behind it; two attempts let one fail
after a partial replay and another succeed; two endpoints tell the winner of the
old network from another. The breaker's thresholds are above one so that
off-by-one mistakes show, and there is one more caller than an episode admits.
Two requests and one permit make one wait for the other; one request has an id
(`catcher_http_execute_with_id`) and can be cancelled by it, the other comes
through `execute` and retries on 421, which brings a second, overlapping network
change. Three outer attempts exceed backon's delays, two inner ones let the
loops multiply, and two requests let one count while a snapshot of the other is
taken. The books of a request do not depend on another's, so the limits are at
their largest for one alone (`Few` in `MCRetry`). Windows of two and three samples let a sample leave and a
cached value be that of an older window; up to nine samples the percentile is
the greatest one, so `PercentileRight` compares the computation with `IsP90` for
all windows of up to eleven; two addresses and two subscribers let one be freed
in the place of the other (chains of three, where a wrong free makes the next
one wrong, are beyond the run and in the theorem `UnsubscribeAlwaysEnds`).
Three missed pongs with a pong timeout between one and two intervals let either
criterion end the connection. Three events let a reconnect repeat or skip
one in the middle; five bytes hold two lines with a line end of two characters,
or a character that a chunk boundary cuts between two lines. Two refreshes and
two network changes let a task of an earlier generation end while one of a later
generation runs. Two clients tell a handle's own client from another, and let a
destroy be called in the callback of another client. Three calls are one whose
observer makes the second while the third waits.

Symmetry is used for the DNS callers and tasks and for the requests of `retry`,
in runs without liveness.
Deadlock is checked wherever callers go on for ever or an explicit step stands
for the end (`Rest` in `MCSse`, for a host whose calls have all returned); it is
not in `retry`, `rtt`, `http_ffi`, `ws_binding` and `uniffi`, where a host makes
a bounded number of calls and then stops. What has to go on there is stated as a liveness property.

**Fairness.** Nothing is assumed of users, hosts, servers and the network.

* `WsConnection`: weak fairness of the manager's own steps. tokio polls the task
  when a command, a timer or the socket is ready, and the handshake and send
  timeouts (15 s and 10 s by default) end every other await.
* `CircuitBreaker`: time passes, requests keep coming, a `reset` that began
  ends, and every admitted request ends, by a report or by a cancellation: the
  response timeout sees to it.
* `HttpFfi`, `WsBinding`, `SseBinding`: weak fairness of the library's own tasks
  and of a call of the host that is running (a thread is not stopped for ever);
  callbacks return, unless they wait for the library.
* `AuxRuntime`: strong fairness of the poll of each future that is ready. The
  worker is free again and again and takes the ready futures in turn, so weak
  fairness would be less than it does.

## Differences from the documentation

`breaker_wedged` ends in a counterexample, `PROJECT.json` quotes the lines:
half-open slots are not given back by cancelled probes; once they are used up
every request is rejected and nothing but a reset leads out of half-open.
`retry_nested` ends in another: `retry_with_backoff` wraps whatever error ends
it after more than one attempt (`retry.rs:94`), also a `RetryExhausted` that its
last operation has returned, which the comment at `retry.rs:10-11` rules out.
The test at 185 has an operation whose first error is a `RetryExhausted`.
`Reported` takes such an error for what it is, two counts.

The others are visible in the models and are written into the properties as they
are, or are described here.

WebSocket:

* When the attempts are used up the task ends after a Reconnecting event with no
  further event (`ws_client.rs:1259`, against
  `docs/user-manual/websocket.md:254`).
* A message whose send fails ends the connection and is not sent again
  (`ws_client.rs:901`, against the comment at 778). `LossEndsConnection` states
  exactly this loss and no other.
* A NetworkChanged that arrives during the last connect attempt is dropped with
  the channel when the attempts run out (`ws_client.rs:1248`, against 143-146).
* The select is biased to commands: a steady stream of sends starves the
  heartbeat and the reads (`ws_client.rs:884`).
* With the default interval of 30 s and `pong_timeout_ms` of 10 s one missing
  pong ends the connection although `max_missed_pongs` is 3
  (`ws/heartbeat.rs:59`, `docs/user-manual/websocket.md:473` and 490).
  `GivenUpEarned` names both criteria.
* A pong is measured from the last ping, whichever it answers, and a second one
  gives a sample of 0 (`ws_client.rs:1018`): `RoundTripNotLonger`.
* `catcher_ws_destroy` in a callback waits for the lock under which the callback
  runs (`ffi/ws_ffi.rs:91`), and every later destroy waits as well:
  `DestroyReturns` excludes this case.
* After destroy the handle is to be "not found" (`ffi/ws_ffi.rs:96`); a task
  that tested the mark before destroy set it makes its entry afterwards, and
  commands are accepted until its next event (`ffi/ws_ffi.rs:130`):
  `RefusedAfterDestroy` allows this race and no other.
* `close` while the client still connects finds no handle and is lost
  (`catcher-napi-ws/src/lib.rs:153`): `CloseEnds` is about a close that finds
  one.
* Dropping a UniFFI client aborts its task without waiting: a poll that runs may
  deliver every queued event afterwards (`catcher-uniffi/src/lib.rs:523`,
  against the comment at 518).

HTTP:

* A half-open episode admits `half_open_max_requests + 1` requests
  (`circuit_breaker.rs:50`), although the setting is the greatest number of
  probes by its comment (`catcher-core/src/types/resilience.rs:79`);
  `HalfOpenBound` says so.
* The result of a request that began before the breaker opened counts as that of
  a probe when it comes in a half-open episode (`circuit_breaker.rs:77`): such a
  success can close the breaker, such a failure opens it again. `CloseEarned`
  counts the successes that are reported, whoever reports them.
* With a `success_threshold` above `half_open_max_requests + 1` every probe
  succeeds and the breaker stays half-open for ever. The configuration that
  `docs/arch-rs/09-ffi.md:201-203` shows, 3 and 1, is such a one; the defaults,
  2 and 5, are not. `CanDecide` and `HalfOpenEnds` are about the others.
* A failure between the two steps of `reset` opens the breaker on the old count
  (`circuit_breaker.rs:115`); a clock set back ends the cool-down at once
  (line 48). `OpenEarned` and `CoolDown` name these cases.
* A network change between the comparison of the generation and `on_failure`
  lets a failure of the old network count in the new one (`http_client.rs:481`,
  against the comment at 42-43).
* With the queue a cancelled request is recorded twice, counts as a failure for
  the breaker, and its task goes on executing with its permit
  (`http_client.rs:402`, `priority_queue.rs:51`); without the queue its entry
  stays in `pending_requests` (`http_client.rs:433`). `RecordedOnce`,
  `CancelNotAFailure` and `PendingAccurate` name these cases and exclude all
  others.
* Of two overlapping network changes the one that built its client first may
  install it last (`http_client.rs:194`).
* The queue's worker spawns a task for each request at once: priorities are
  lost, the semaphore serves in the order of arrival (`priority_queue.rs:51`).
* The comment at `retry.rs:9-12` wants the outer loop not to retry what the
  middleware has retried; a status 5xx is retried by both, because the last
  response is turned into a plain error (`http_client.rs:836`), and the error
  reports the outer attempts only. `SendBudget` and `AttemptsReported` count
  these sends apart. A 421 is sent again by `execute` without the error telling
  of it, and doubles what the loops may send (`http_client.rs:336-349`):
  `SendBudget` says by how much. `http_retries` counts this second run before
  the breaker has admitted it, so also one that is rejected
  (`http_client.rs:345`): `RetriesCounted`. `on_retry` is called once too often if more attempts are
  allowed than backon has delays: `HookMatchesRetries`.
* A snapshot of the metrics may show a success rate above 1
  (`metrics.rs:105`): by `SnapshotHonest` it shows no more successes than it shows
  requests and were recorded while it was taken.
* `timeout_ms` clears the dirty flag that `snapshot` needs: the statistics are
  then those of an older window (`timeout.rs:58`). Requests that time out record
  no latency. A configuration with `min > max` (`timeout.rs:63`) or an empty
  window panics under the lock, and every later request of the client with it
  (`http_client.rs:375`, 465).
* A stream whose request fails before the response gives no event at all
  (`http_client.rs:622`, against 562), and its entry is never removed:
  `AnsweredOnce` and `EntriesOfCalls` name both.
* The callback tests the mark and then calls the host, so one callback may come
  after destroy has returned (`ffi/http_ffi.rs:143`, against 60-63; the same in
  `ffi/sse_ffi.rs:103`): `LateAtMostOnce`, `LateOnlyIfCalling`.
* `cancel_request` of the Node client never finds anything: its requests are not
  registered (`catcher-napi-http/src/client.rs:226`).
* `catcher_quality_subscribe` calls `tokio::spawn` on the caller's thread, which
  has no runtime unless it belongs to one (`ffi/quality_ffi.rs:136`); the model
  begins with a caller that has one. A second unsubscribe of an address that has
  been given out again ends the new subscription (`quality_ffi.rs:157`), whose
  host may then end a third one's with its own first call; and the abort is not
  joined (`network_quality.rs:215`): `FreedByOwner`, `LateOnce`.
* An SSE observer of the UniFFI binding that makes any synchronous call blocks
  the only worker for good, and the constructor returns only when the stream has
  ended (`catcher-uniffi/src/lib.rs:566`): `NestedNeverRuns`,
  `ConnectReturnsAtTheEnd`.

SSE:

* After a 204 the client waits and connects again (`sse/client.rs:236`, against
  the comment at 233).
* Against a server that writes the id before the content, a connection that
  breaks between the two lines loses the event (`sse/client.rs:270`);
  `NoEventSkipped` is claimed for the other order only. `NoDuplicates` is the
  converse.
* The SSE task overwrites `Closed` with `Connecting` or `Open` after `close()`
  has returned (`sse/client.rs:80`); `StopsSoon` bounds what follows.
* A character of several bytes that is cut by a chunk boundary is replaced
  (`sse/stream.rs:131`, `sse/client.rs:255`); `ChunksInvisible` says that
  nothing else is.
* `ready_state`, `close` and `destroy` wait while the forwarding task waits for
  a line under the lock (`ffi/sse_ffi.rs:255`), as long as the server says
  nothing: `OpsReturn`. The C client reports `open` before any connection.

DNS:

* A lookup that begins between `clear_cache` and the new resolver leaves an
  answer of the old resolver in the new cache (`catcher-dns/src/lib.rs:349`,
  against 298-299).
* A refresh compares the generation before it inserts; a change in between lets
  the old answer into the new cache (`catcher-dns/src/lib.rs:399`).
  `OldLookupLeaves` is about callers' lookups.
* `stale_on_error` reads an entry that the cache has already dropped, because
  its time to live is the sum of both lifetimes. Not modelled.

## What is proved

Every safety property that a passing run checks is a theorem of TLAPS: it holds
for every number of endpoints, attempts, commands, callers, requests, clients,
calls, hosts, events, bytes and samples, and for every threshold and limit that
the named assumptions of the modules allow. The assumptions say that
counts are naturals, that thresholds, limits and windows are positive where the
code makes them so, that what the code counts is finite, that the bound of a
capped count lies beyond the limit it is compared with, and that the names of
places and roles (`"user"`, `"task"`, `"nobody"`, `Nobody`, `None`) are not
members of the sets they are told apart from. TLC evaluates them on every run.

A proof finds an invariant that is inductive, shows with one lemma per conjunct
that every action keeps it, and derives the properties. None of the properties
is inductive alone; what each invariant adds is the argument.

`WsConnectionProofs`: `TypeCorrect`, `Inductive`, `NothingForgotten`,
`BoundedRetries`, `EndpointChoice`, `CloseFinal`, `LossEnds` are the safety
properties of the run `ws_reconnect`, and `Refinement` says that `WsConnection`
implements `WsContract`. That a socket carries commands in order needs the
buffer to be sorted and to lie below `head` (`BufferOK`), and what a replay has
sent to be older than what it still has to send (`SessionOK`). That nothing is
sent after a Close needs a taken Close to be the last command taken (`FateOK`).
The retry budget needs to know at which places the attempt count runs ahead of
the connects and at which behind (`CountOK`), the order of events the last event
at each place (`SeenOK`). The refinement maps each action to a step of
`WsContract` or to stuttering under the invariant.

`CircuitBreakerProofs`: `TypeCorrect`, `Inductive`, `ProbesSuffice`,
`OpensOnFailures`, `ClosesOnSuccesses`, `StaysOpen`, with cancellations, resets
and clock steps at any time. The failure count is below the threshold in a
closed breaker except between the steps of a reset (`FailuresOK`); an episode's
admissions are counted but for one and its success count holds no success of
another episode (`EpisodeOK`); outside a reset the failure count is at most the
run of failures (`StreakOK`); a clock that has not wrapped is never ahead of the
time since the opening (`AgeOK`). That an episode can always decide, the state
that `HalfOpenEnds` needs at each step, rests on a count: without a cancellation
or a reset, each admitted request is running or is one of the successes
(`SlotsOK`), so that when none runs and no slot is left, `half_open_max_requests
+ 1` have succeeded.

`HttpTransportProofs`: `PermitsNeverLeak`, `AccountsAlwaysRight`,
`TableAccurate`, `CancelsOnlyTheirs`. A task is in the queue for a request that
waits or was cancelled while it waited (`TaskOK`), so that the permits of
requests and those of tasks that outlive them can be counted together; what the
metrics were told follows from how far a request is (`RecordsOK`); an entry of
the pending table is that of a request from its call to the end of its execution
(`PendingOK`); who sees a cancelled token was there when it was cancelled
(`ExposedOK`). The cardinality of the holders of permits is followed from step
to step.

`RetryProofs`, on `Retry`: `LoopsAddUp`, `AttemptsAlwaysTold`. For each request,
how many operations were run, with a second run in each at most, and how many
runs sent something (`AttemptsOK`), which sends belong to which run and which are
hidden (`SendsOK`), that no run sends more than the middleware allows
(`VolumeOK`), what is in the error (`WrapsOK`) and how often the hook was called
(`HookOK`). The first bound of `SendBudget` follows from `SendsOK`, since each
second run adds one send and hides one; the product from `VolumeOK`, since there
are at most twice as many runs as operations. For all requests together, the
shared counter is the number of retries one by one (`RetriesOK`, over a set of
pairs, since a sum over requests is a recursion), a success is counted after its
request, and the requests that a snapshot has missed are late (`SnapshotOK`).

`RetryProofs`, on round trips:

* `PercentileCorrect`: the element that the three users of the window pick is
  the 90th percentile, for windows of every length. Ranks are injective because
  the order is total, hence all places are taken, and the samples up to the
  place are as many as the place says.
* `LevelsAlwaysCurrent`, `UnsubscribeAlwaysEnds` on `Quality`: the lock is held
  by the evaluation that measures and the others stand in the queue once each
  (`EvaluatorOK`), a task remembers the level it told last (`LevelsOK`), the
  table has the addresses of the subscriptions that nobody has ended and no two
  share one (`AddressesOK`), who ended a subscription has called unsubscribe for
  it (`FreedOK`), and an ended one calls back once more at most (`AbortOK`).
* `TimeoutAlwaysServes` on `AdaptiveTimeout`: the properties with the shape of
  the record are inductive, given `PercentileCorrect`.
* `SilenceAlwaysJudged` on `Heartbeat`: of the pings since the last pong all but
  the last are counted as missed (`PingsOK`), and no ping under way is younger
  than the last one sent (`AgesOK`), so that no sample is too long.

`SseClientProofs`, on `SseClient`: `RequestsBounded`, `CloseStopsSoon`,
`DeliveryAcrossReconnects`. Each request but the one under way has been counted
by an attempt (`BudgetOK`); a signal of `close()` stays in the channel until the
loop is left (`SignalsOK`); a late request is the last (`LateOK`); with the id
first, what was given is at or before the last event id (`OrderOK`), with the
content first, everything up to the last event id was given (`ResumeOK`).

`SseClientProofs`, on `SseBinding`: `HostAlwaysTold`, `OneLineAtMost`. The queue
of the lock has each call that waits once (`WaitersOK`); a call that has waited
for a line stands before the task, and the task does not hold the lock
(`WaitedOK`); an event is in hand exactly at the places between taking it up and
putting it down (`TaskOK`); after a late callback the task is where it finds the
mark (`CallbackOK`).

`ChunksNeverShow`, in the same module, is about the bytes: what a stream yields
does not depend on how its body was cut, for bodies of any length.

* The invariant (`TextOK`): there is a text with line ends, id prefixes and
  carriage returns where the body has them, the body itself unless a boundary
  cut a character, and the stream has read that text (`Reads`): its lines are
  those of the text's `Content` in order, its id is `LastIdOf` the text, its
  buffer is what follows the last line feed.
* Appending a character to a text leaves the lines before it as they are
  (`LineStays`, `ContentGrows`, `RanksGrow`, `LastIdGrows`), and `ProcessChar`
  does to what was read what the character does to the text (`ReadsChar`).
* A chunk is as many such steps as it has characters (`ReadsBuffer`). The
  induction theorems of the library cannot be used here, since they take an
  operator as a parameter. `LeastNumber` (a set of naturals that is not empty has
  a least element) takes their place: the least prefix of the chunk after which
  `Reads` failed would follow one after which it held.
* Decoding a chunk changes no line end, no prefix and no carriage return, and
  nothing at all when no boundary cuts a character (`DecodeOf`); texts that agree
  on these places have the same kinds of lines (`KindsAgree`, `ContentAgrees`).

`DnsCacheProofs`: `OldAnswersLeave`, `NobodyLeavesAMarker`. The caller that
resolves runs the one lookup of `try_get_with`, which began in that caller's
generation (`LookupOK`).

`HttpFfiProofs`: `OneLateCallback`, `CallsAlwaysSettled`. A handle leads to the
client of its own number until destroy has removed it, and is marked before
anything else happens to it (`HandlesOK`); a call has the client of its handle
and an entry only for a reason, and what its host has got follows from where its
task is (`CallOK`).

`WsBindingProofs`, on `WsBinding`: `DestroyedStaysSilent`. A marked client makes
no callback, and if its entry is made all the same the task had looked at the
marks before (`MarkOK`); only such an entry outlives destroy (`StrayOK`); a
dropped client's task has ended or was running (`DropOK`). On `AuxRuntime`:
`WorkerAlwaysShared`. An observer that was called has the worker, and a call
made by one has not started (`WorkerOK`); the lock is with a call that is under
way and the queue has those that wait, once each (`LockOK`, `QueueOK`), so that
neither the worker nor the lock is with a call that does not use it.

Only model-checked: the liveness properties (`ShutdownCompletes`,
`MessagesSettle`, `DestroyReturns`, `ReleasedEnds`, `HalfOpenEnds`,
`HostReleased`, `CancelledEnds`, `AnsweredReturns`). Reasoning under fairness is
beyond this prover.

Some proof attempts changed the models. `FreedByOwner` used to say that a
subscription is freed by its own host or by one that unsubscribes a second time;
the invariant did not close, and three hosts refute it: the one whose
subscription was freed by a second call frees another's with its first. The
percentile used `SortSeq`, of which the prover knows nothing; `Ascending` has
replaced it. The stream used folds over sequences, which the prover cannot
unfold; `Decode` is now a function of the place, `ProcessBuffer` a recursive
function, and the reference definition of the lines speaks of places. The run
reaches the same states as before. Writing down why a half-open episode decides
showed the condition on `success_threshold` that `CanDecide` names.

## Not modelled

* Encoding and compression of WebSocket messages, TLS, pinning, multipart
  bodies, proxy detection: byte formats and construction of library objects,
  without state of their own.
* The tasks inside one endpoint race: the race returns the first success and
  aborts the rest, and `WsConnection` allows each outcome.
* The two priorities and the capacity of the request queue. The worker hands on
  requests as they come, so that the priorities decide nothing but the order of
  spawning; `HttpTransport` has the tasks and the permits.
* Conversions in the bindings between configurations, responses, events and
  JSON, msgpack or objects.
* TypeScript, browser and Dart packages: implementations of the same ideas on
  another language's event loop, or a layer over the C interface.
* Nameserver configuration and host mapping of the DNS resolver (constant),
  `stale_on_error`.
* Counters of the metrics that nothing increments. Test support.

## Plan

Done: everything above. Next:

1. What the liveness properties rest on as theorems, as `CanDecide` is for
   `HalfOpenEnds`: for each step that has fairness, what it does to the measure
   that it lowers.
2. `EndpointRacer` and `PriorityQueue` as modules of their own, and the
   TypeScript and browser clients where they differ from the core.
