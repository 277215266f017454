# Verification of the convex-go client

TLA+ models of the library part of this repository, checked with TLC on small
instances, and theorems about them checked by TLAPS. The Go code is the
reference; `PROJECT.json` maps every definition to the lines it models.

## The system and its parts

| Part | Code | State | Model |
|---|---|---|---|
| Sync state machine | `baseclient/client_state.go`, `client_receive.go`, `optimistic_updates.go` | query set, subscribers, outgoing queue, tracked requests, identity, results and their optimistic overlay | `BaseClient`, `RequestPromises` |
| Connection loop | `internal/syncclient/websocket_manager*.go` | phase of `Run`, the connection and its writer, flush requests, results channel | `SyncManager` (goroutines and channels), `SyncSession` (with the whole state machine) |
| Sync server | outside the repository | its query set, identity, executed requests | external, in `SyncSession` |
| Subscription client | `subscription_client.go`, `subscription_handles.go` | subscriptions, watchers, their channels, latest snapshot, the pump | `WebSocketClient` |
| Connection state | `internal/syncclient/connection_state.go`, `client_connection_state.go` | phase, counters, subscribers, observers | `ConnectionState`, `ClientFacade` |
| Facade | `client_facade.go` | lazily created realtime client, the identity kept twice | `ClientFacade` |
| HTTP client | `client_http.go`, `client_options.go` | mutation queue token, identity, requests in progress | `HttpClient` |
| Values | `internal/core/value.go` | none (pure) | `Values` |
| Paths, canonical queries | `internal/core/path.go`, `baseclient/canonical.go` | none (pure) | `FunctionPaths` |
| Wire protocol | `internal/syncprotocol` | none (pure) | `SyncProtocol` |
| Function results, HTTP replies | `internal/core/function_result.go`, `client_http.go` | none (pure) | `Codec` |
| Code generator, tools, examples | `internal/codegen`, `cmd`, `examples` | none | not modelled |

How they interact: the application calls the facade, which sends over HTTP or
creates a subscription client. That client calls the manager, which calls the
state machine under one lock. The manager's loop drains the machine's `outgoing`
queue to the server, feeds server messages to `ReceiveMessage`, and calls
`RestartForReconnect` after a lost connection. What is hard is in the seams:
what was in flight when a connection dropped, answers and transitions in either
order, replay of what has already been done, snapshots published out of order,
a flush whose answer is lost, a client installed while its identity changes.
`PROJECT.json` lists these hazards with the lines where they bite.

## Modules

**`BaseClient`** models `baseclient.Client`: one variable per field of the struct
(with the source's names) and one action per exported operation that changes
state; `ReceiveMessage` is one action per kind of message. The `sent*` variables
observe what was taken from the queue since the last restart, and
`receiveFailed` / `restartFailed` observe the last error returned. The data is
abstract: a (path, arguments) pair is a *spelling*, and `Canonical` gives its
token; a query value is a set of marks, so that one can tell whose writes it
shows; an optimistic callback adds a mark to the value it reads, sets a value,
hides the result, or fails when there is no value. The server of this module
(`Receive`) may send anything: any versions, any modification, any response to
any request. What holds here needs no assumption on the server.

**`RequestPromises`** is what a client promises about requests, without queue,
memory or replay: a mutation succeeds only with a snapshot that contains it,
all the mutations in a snapshot succeed together, an action ends with its
response or with its connection, and an outcome may be forgotten but never
changes. `BaseClient` implements it under the mapping `Promise`: pending
requests are the tracked ones, committed are those with a response, outcomes are
the two bounded memories, the snapshot is the timestamp of `remoteVersion`.

**`SyncSession`** extends `BaseClient` with the loop of `Manager.Run`, two FIFO
channels and a server. A connection may drop at any step with all that is in
flight; a restart may fail in the auth callback; a dial, or the Connect message,
may fail. The writer writes only on a flush request: every connection starts with
one, and a call of the application may make another or never do so
(`RequestFlush`). A writer that is serving a request when its connection is lost
may take one more message, from the queue that was rebuilt in the meantime
(`OldWriterPops`); `taken` observes what went that way. A server that then meets
a base version it does not have falls silent (`ServerRefuses`). The server is modelled from what the client sends and expects: it
executes a mutation once and repeats its answer when it is replayed, its
transitions show one snapshot that is never older than the timestamp named in
Connect, and a transition follows every mutation response (`srv.owed`). The last
point matters: the client completes a mutation only on a transition received
*after* the response, so without that promise a replayed one could wait for ever.

**`SyncManager`** and **`WebSocketClient`** turn the same loop inside out: there
the state machine is reduced to what the plumbing can lose (the items the client
stands for, the queue, a counter of result snapshots), and the plumbing is the
subject. Every goroutine is a process: `Run`, the writer of the connection, the
writer of the *previous* connection (which `runConnection` does not wait for),
the pump, and the application's callers. Each step ends at a lock or channel
operation, so that a snapshot read outside a lock, a handle locked across a
flush, or a full channel is visible. Deadlines are a choice at every wait, and
dials, reads and writes may fail any number of times.

**`ClientFacade`** composes `HttpClient` and `ConnectionState` under
`convex.Client`. Callers run scripts of `SetAuth`, `SetAdminAuth`, `ClearAuth`,
`SetAuthCallback`, `Subscribe`, `Mutation`, observers and `Close`, interleaved at
lock boundaries. An identity is a token and whom an admin key acts as: HTTP encodes
the first of the attributes it is given, the realtime client parses them all and
skips, silently, those that do not identify a user. A realtime client is reduced to an identity, a connection state
and a life. The history variables `agreed`, `closeAlone` and `calm` record
whether calls have overlapped that the code does not promise to order; the
properties name them as their exceptions. `forwardConnectionState` and the
application's callback are one step: the callback is taken to return at once.

**`Values`**, **`FunctionPaths`** and **`SyncProtocol`** are operators without
state. Words have `ByteCount` bytes of `ByteSize` values and floats are bit
patterns, so sign, width, minus zero, NaN and infinities keep their roles at a
smaller scale. A path is a sequence of segments, a segment a sequence of words
between its dots. What the code repeats for each field of each message is one
table of field rules. **`Codec`** sends values, queries and messages through
encoder and decoder, compares the tokens of subscriptions, and lets arbitrary JSON
arrive; `MCCodec` enumerates the inputs.

The `MC` modules give the constants values for TLC. The `*Proofs` modules hold
the proofs. A definition that stands before another one under a longer name
(`InstallKeepsBoth` before `Install`), or is marked "Mutant", is a plausible bug;
`PROJECT.json` names one for every property, and the property catches it.

## Runs

| Run | Shows |
|---|---|
| `base_queries` | Reference counting is exact; the queue is a gapless version chain that leads the server to exactly the active queries. |
| `base_requests` | Every pending request is on its way exactly once; actions are never sent again; the memory of completed requests is consistent at its limit; the client implements `RequestPromises`. |
| `base_overlay` | Results exist only for active queries and are the server's results under exactly the pending updates. |
| `session_queries` | Across two losses the server sees no version it does not expect and ends with the client's queries and identity, but for what an old writer took. |
| `session_snapshot` | Results are one server snapshot, and show every completed mutation, also on the next connection. |
| `session_requests` | Mutations are executed in order, actions at most once, and repeated answers do not stop `Run`. |
| `session_liveness` | Every request gets an outcome, and results converge to the server's values, unless a message is stuck. |
| `session_eviction` | A finding (below): expected to be violated. |
| `realtime` | Nothing the client stands for gets lost between the queue and the connection; an acknowledged flush is true; channels keep the newest published result; a transition repairs what racing publishers left behind; flushes are answered; `Close` releases everybody. |
| `facade` | One turn for HTTP mutations; HTTP and realtime use one identity; no realtime client leaks; `realtime()` hands out the installed client; observers follow it. |
| `facade_logout` | A finding (below): expected to be violated. |
| `codec` | Values, queries and messages arrive as what was sent, and failures as failures, with the exceptions the properties name; two subscriptions have one token exactly if they mean the same query. |

### What the properties had to concede

Most statements hold as one would wish. Some hold only with an exception, and the
exception is part of the statement:

- `ResultsAreOverlay`: `Subscribe` replays no update. A query that is subscribed
  while a mutation that sets it is pending is loading until the next transition.
- `OnTheWay`, `FlushIsTrue`, and of the session properties `NoProtocolError`,
  `ServerAgrees`, `SnapshotConsistent`, `ReadYourWrites`, `MutationsInOrder`,
  `RequestsComplete` and `ResultsConverge`: the writer of a lost connection can
  still take a message from the rebuilt queue (`websocket_manager_runtime.go:126`).
  What it took is missing until the next restart: a query is not evaluated, a
  mutation is executed late, and a version chain with a link missing makes the
  server reject what follows.
- `RequestsComplete`, `ResultsConverge`: a message whose flush was given up stays
  in the queue until somebody asks for a flush again or the connection is lost.
- `FlushesAnswered`: not on a network that never settles. Besides, a flush request handed to a connection that ends by a read
  error may never be answered; and if the writer fails while its channel is
  full, the loop can block forwarding a request (`Wedged`). A caller without a
  deadline then waits until the client is closed, which `CloseReleasesAll` covers.
- `TransitionHeals`: `publishLatest` is given a snapshot read outside its lock, so
  an older one can replace a newer one until the next transition.
- `CloseReleasesAll`: a `Subscribe` or `WatchAll` that registers after a
  concurrent `Close` writes to a nil map; the caller panics, and counts as released.
- `RealtimeUsable`, `ObserversFollow`: not for calls a `Close` runs beside.
- `ResultsAreOverlay` also says nothing of a state whose pending updates cannot be
  replayed, because a callback fails on what it reads.
- `IdentitiesAgree`: not for identity calls that overlap with each other or with the
  creation of a client, not after an empty token, a failed flush of
  `SetAuthCallback`, or `WithAuth` after `WithAdminAuth` (the facade clears the
  other option, the HTTP client does not); and not for acting-as attributes that
  lack what identifies a user or that follow a nil (`client_options.go:276-296`):
  the key then acts as different users over HTTP and over the realtime connection.
- `ValuesSurvive`, `QueriesKeepTheirMeaning`: a nil map is null in one encoding and an
  empty object in another; a string that is not UTF-8 is repaired only by the text; a
  struct that embeds an `Int64` or `Bytes` gives an object with a `$` key that no
  decoder accepts; a `json.Number` that spells NaN has a value and no text; integers,
  bytes and special floats pass the check that arguments encode to an object.
- `MessagesSurvive`: a timestamp beyond the signed range, an event that is not JSON and
  a claim that cannot be marshalled keep a message from being sent. Of the values in a
  message it is assumed that they encode, as every value that was read does.
- `FailuresStayFailures`: over sync, a failure with an empty message and no data
  is taken for a success.

### Findings

`session_eviction`: `DuplicateResponsesIgnored` states what the test
`TestRequestManagerIgnoresDuplicateMutationResponseAfterCompletion` says, that a
duplicate response after completion is ignored. A mutation that was answered,
replayed after a reconnect, and then completed together with more mutations than
the retention limit holds has been evicted when its second answer comes: the
answer is an "invalid mutation request id" and `Run` stops. The run uses a limit
of 1 and two mutations; with the limit of the code it takes 1024 others that
complete between the first mutation's completion and its repeated answer.
`session_requests` shows that below the limit `Run` goes on.

`facade_logout`: `LogoutIsComplete` states what `docs/RECIPES.md` says of
`ClearAuthContext`. `realtime()` copies the identity, creates a client and
installs it without looking at the identity again; a logout in between finds no
client, returns nil, and the client is installed with the old identity.

## Bounds and why they are enough

- `base_*`: two query ids let a query be dropped and subscribed again under a new
  id; three spellings of two queries make subscribers share one. Two or three
  requests give every order of mutation and action; a retention limit of 1 makes
  eviction happen; two timestamps separate "before" from "at" a mutation's. Each
  run bounds what it does not ask about to nothing. The overlay run has one
  query: a callback that reads one query to write another is outside the model.
- `session_*`: two lost connections (one where the state space demands it) allow a
  loss during recovery, and two old writers. `session_queries` has two query ids,
  two changes of identity and no requests: an identity that is set and cleared
  again, with a loss between any two steps. `session_requests` has two requests
  without optimistic updates and one query.
- `realtime`: two callers, one whose context may end, seven scenarios of calls that
  meet; channels of capacity 1 so that they fill up; up to two transitions, so that
  one can leave an old snapshot behind and the next repair it. Failures are not
  bounded. One writer at a time outlives its connection.
- `facade`: two callers, nine scenes of options and scripts, three realtime clients (two that
  race and one after a `Close`), two changes of connection state per client.
- `codec`: words of two bytes of four values, floats with two bits of exponent and
  one of mantissa, nesting up to two levels, every field of a message missing,
  null, right or wrong. The token of every query is compared with that of one query
  of each meaning, and so with that of every other.

The base runs check for deadlock. The others do not: the application's calls and
the failures are bounded, so the system may come to rest. Versions, ids and
timestamps of the state machine are unbounded integers; the wraparound of the
code's uint32 after four billion changes on one client is not modelled there. In the
codec, integers have their width.

## Fairness

`session_liveness` assumes weak fairness of the writer once it has a flush request,
the reader, a restart that succeeds, the connection being established, and the
server's two steps. Goroutines are scheduled, and `Run` retries for ever. Of the
world it is assumed that a dial succeeds in the end, that a connection that is up
carries messages, that the server answers, and that an auth callback that is asked
again and again returns a token eventually. Nothing is assumed of the application
(it need not ask for a flush), of old writers or of losses.

`realtime` assumes that every goroutine that can take a step of its own eventually
takes one: the loop, the writers, the pump and each caller; and that a dial and a
write return, with success or with an error (`DialStep`, `WriterStep`). No dial need
ever succeed, and a connection may be lost, stay up or stay silent: no message need
arrive and no read error either. Nothing is assumed of deadlines. A `select` with
several ready cases may choose any of them.

## Proofs

All theorems hold for every value of the constants that satisfies the named
assumptions. For `BaseClient` (any number of queries, spellings, subscribers,
requests, identities and versions, any retention limit; bounds are naturals, the
sentinels are distinct from the identities, `Canonical` is a function):

- `TypeInvariant` and `SubscriptionsInvariant`. Neither is inductive alone:
  `Unsubscribe` looks up tables that agree only by the bookkeeping, and counting
  subscribers needs them to be a finite set of existing ids. Their conjunction
  `TypeAndSubscriptions` is inductive, with one lemma per action.
- `ActionsNeverResentInvariant`: a new request id is larger than every id sent or
  queued, a restart queues no action, and a message that is taken leaves the queue.
- `VersionChainsInvariant`: the queue restricted to one kind of message is a chain
  from the last version sent to the current one (`Chain`); a chain is closed under
  appending a link, taking the first message and joining two chains.
- `QuerySetAgreementInvariant`: the property is not inductive, because an active
  query might be queued twice to be added; `Agreement` says it is queued once,
  by positions, and that a removed one has a removal behind its last addition.
- `PendingRequestsInvariant`: `Underway` says of each tracked request that it is
  sent and not queued, or queued at exactly one place and not sent; only after a
  failed restart may a mutation be neither. The restart
  needs that the replay order is strict and lists exactly the pending mutations.
- `CompletedMemoryInvariant` and `RequestsImplemented`, together, from
  `RequestRecords`: the records of completed requests agree, no request is both
  pending and completed, and only a mutation that succeeded waits with a result. Cutting a memory to its limit drops what was evicted and nothing else,
  and keeps the newest (`RetainedMemory`). Each action is then a step of
  `RequestPromises` or a stutter: the refinement is proved, not only checked.

For `ClientFacade` (any callers, scripts and clients; `none` is no client):

- `MutationTurnsInvariant`, from `Turns`: only a queued call waits for the token,
  and the server has not run the function of a call still in progress, the one
  that is retried included.
- `NoLeakedClientsInvariant`, from `Owned`: a client that is alive is installed or
  in the hands of a call that will install it or close it.

Only model-checked: liveness (out of the prover's reach); the overlay and the codec
(recursive functions, whose results need induction over data); the order of
replay as the server sees it, `IdentitiesAgree`, `ObserversFollow`, and all of
`SyncSession`, `SyncManager` and `WebSocketClient`.

## Not modelled

- Code generator, maintenance tools and examples: offline programs without state.
- Options, typed references, aliases and wrappers: they set fields or rename types.
- URLs, headers, bodies and logging; backoff and inactivity times, which are
  choices here. Read-only views (`QueryResults.Get`, `Iter`).
- Decoding into typed Go targets by reflection; only the untyped results are kept.
- Callbacks of the application that call back into the client. A connection-state
  callback runs on the goroutine of `Run` and an auth callback under the manager's
  lock, so one that waits for the client waits for itself; nothing remains to check.
