# Verification of the agent trace gateway

The gateway proxies LLM API traffic and leaves one trace record per turn. This
directory holds TLA+ models of the parts of it that carry state and run
concurrently, TLC configurations that check them on small instances, and TLAPS
proofs. `PROJECT.json` lists runs, properties, the source lines of every
definition, the hazards the properties are for, and the theorems.

    tlc -workers 2 -config Turn.cfg MCRequestTurn     # one run
    tlapm ExportPoolProofs.tla                        # the proofs of a module

## The system

| component | state | operations | talks to |
|---|---|---|---|
| proxy hooks and owned relay (`src/lib.rs`) | a `Ctx` per request | request and response hooks, relay, detached drain, `logging` | pingora, the upstream, all below |
| capture cap (`trace/capture.rs`) | one atomic | `drain_capture`, `bound`, `set_max` | relay, reload |
| trace store (`trace/store.rs`) | bounded deque, byte count, drop counter | `push`, `set_caps`, `snapshot_bounded` | logging, control endpoints, reload |
| exporter pool (`trace/export.rs`) | bounded channel, batch, semaphore, target, client, counters | `submit`, batch, flush, resize, swap target, shutdown | logging, reload, the OTLP collector |
| prefix stitcher (`trace/prefix.rs`) | table of chains, clocks, nonce, counters | `assign`, `set_limits` | logging, reload |
| config store (`config_store.rs`) | snapshot, generation, pinned structural values | `load`, `reload`, SIGHUP service, `HotApply` | every component with a hot value |
| gauges and histograms (`lib.rs`, `metrics.rs`) | relaxed atomics | enter, head, exit, observe, render | every request, the metrics endpoint |
| SSE engine (`engine.rs`) | accumulator and retained tail | feed, finish, whole-body pass | relay, logging |
| WebSocket turns (`openai/live.rs`) | two frame parsers, one turn | push, client frame, server frame | proxy hooks, store, exporter |
| protocol descriptors, session resolution, harness identification, usage | none (pure) | parse a request or response | logging |
| control endpoints (`lib.rs`) | none of their own | health, metrics, pages of records | gauges, store, exporter |
| command line entry (`bin/gateway.rs`) | none | load the file, build everything, exit on a bad one | config store |
| record types, tooling | none | serialise | operator |

Requests run concurrently on the server's runtime. The exporter has its own
runtime with one batcher task and up to `export.max_inflight` flush tasks. The
reload service is one task. Hot values are read through separate atomics and
locks, so a reload is visible to requests piece by piece. What is hard: the
moments a client may disconnect, a drain racing its deadline, a panic in a
flush, pool resizing under load, out-of-order times at the stitcher's lock,
reloads between any two steps, a crash or restart in the middle of one, limits at
their boundary, and counters that are read one by one while they move.

## Modules and the code they stand for

Every definition that models code is listed in `PROJECT.json` with its source
lines. A module's history variables are marked as such in its `VARIABLES`;
they record what the properties speak of. A definition that stands right before
another one and that nothing uses (`BoundaryAfterLine` before `LastFrameBoundary`)
is a faulty form of it: with the faulty form in place the run named in
`PROJECT.json` must fail.

How the modules are put together:

- `TurnSink` and `SessionMap` are abstract specifications. `ExportPool` implements
  the first and `PrefixStitcher` the second, checked as properties of their runs and
  proved for every instance.
- `Recording` extends `RequestGauges` and instantiates `TurnSink`: the request path
  is composed with what the exporter promises, not with its details.
- `Serving` extends `ConfigStore`: requests served during reloads and restarts.
- `Attribution` extends `UpstreamTarget` and `HeaderEvidence`; `ReplyAtRest` extends
  `SseEngine`.
- A module `XProofs` extends `X` and holds its theorems. `RequestTurnProofs` extends
  `Attribution` too, and `StreamProofs` extends `SseEngine` and `WsTurn`, the two
  parsers of streams that are cut anywhere; specifications that are proved about in
  one module have names of their own (`SseSpec`, `AttributionSpec`) and no variable in
  common. `DataInduction` holds the induction lemmas the others rest on.

### ExportPool, ExportPoolProofs — `src/trace/export.rs`

State: the bounded channel (`queue`), the batcher (`bpc`, `buf`, `batch`), the
semaphore (`avail`), the shrink still owed (`pendingForget`), the pending width
change (`semaDelta`), the flush tasks (`pool`, each with its batch and its place
in the booking bracket), the target and client cells, and the health counters.
`submit` is two steps (the load of `enabled`, then `try_send`); `apply_target` is
five, one for each shared cell it writes; an iteration of `export_loop` is a
receive or a tick, the swap of the delta, the forgetting of permits, the loads of
target and client, and the dispatch; a flush is a completion, a failure or a
panic, then the drop of its booking, then the release of its permit. Channel
closure, the drain of channel and partial batch, and the join of the pool follow
the shutdown branch. `targetGen` and a client's number tell which reload they
come from.

`TurnSink` is what this promises the request path: a record handed over is held or
lost at once and counted, and what is held is booked exactly once. The refinement
maps the set of held records to the channel, the buffer, the batch and the flushes
that have not booked.

### PrefixStitcher, SessionMap, PrefixStitcherProofs — `src/trace/prefix.rs`

State: the chain table, the last sweep, the two limits, the nonce. `assign` is
split at its lock: a thread reads the clock, queues, and then runs lookup, expiry
and match, which end in an extension, a breakpoint or a miss. A miss reads the capacity
once (`bound`) and runs the eviction loop, which removes one chain per step, any of the
least recently used ones, and tests the size of the table before each; then the chain
is inserted. `found` remembers the table and the counter that the loop began with. `set_limits` stores capacity and ttl in two steps
outside the lock. A restart empties the table, starts the nonces again and takes a
new salt.

`SessionMap` has no table, clock, limit or restart: a session is one trajectory of
one key, it grows by extension while it is open, it may be closed at any time, a
closed one never reopens, and ids are never reissued. The open sessions are those of
the chains in the table.

### RequestTurn, RequestTurnProofs — hooks, `relay()`, the drain and `logging()` of `src/lib.rs`; `trace/capture.rs`

One request, its path, kind of response and status chosen at the start. Actions
are `request_filter`, the relay's connection, the write of the response head, each
chunk with its write to the client, the drain with its deadline, the end of the
stream, and `logging`, which makes the record; and for requests that are not
relayed the hooks pingora calls and the session errors it reports. The capture
cap may be reloaded between two chunks.

### ConfigStore, Serving, ServingProofs — `src/config_store.rs`, `src/config.rs`, `HotApply` and `relay_target` in `src/lib.rs`, `bin/gateway.rs`

State: the file, the snapshot cell, the structural values pinned at start, the
pending signal, the value each component runs with. The reload service takes a
signal, loads and validates the file, merges, stores the snapshot, and re-seeds
the components one by one. Requests keep the snapshot they took. The process may end
at any point and is started from whatever the file then holds; a bad file, or a
signal before the handler is installed, leaves it down.

`Serving` adds the relay's cached client: a request resolves the upstream of its own
snapshot, looks the cache up under its lock, builds a client with the lock released
and stores it over whatever another request stored meanwhile.

### TraceStore, TraceStoreProofs — `src/trace/store.rs`, the records endpoint of `src/lib.rs`

State: deque, running byte count, drop counter, budgets; a client with the pages it
has fetched. The eviction loop of `push` is a step per record under the lock;
`set_caps` changes the budgets; the client pages back from the newest record with
`limit` and `offset` while pushes go on.

### RequestGauges, Recording, RecordingProofs — `src/lib.rs`, `src/metrics.rs`

State: the gauges and one stage histogram; every relaxed atomic access of a
request and of a scrape is a step. The four histograms are of one type and share
no state, so one stands for all. `Recording` continues a request after it left the
gauges: the turn is counted, its record stored and submitted; connections store and
submit from their frames. Health and metrics read the exporter's counters, then
`turns_total`, then the histograms.

### SseEngine, ReplyAtRest, StreamProofs — `src/engine.rs`, `usage.rs`, the protocol descriptors

State: the accumulator and the retained tail. A chunk of any length is fed, or
the stream ends; the whole-body pass is the reference. Tool calls follow the three
protocols' shapes, usage objects are merged as `merge_usage` does. `ReplyAtRest` reads
one reply as a whole body with each protocol's extractors, and gives the streams an
upstream may send for the same reply.

### WsTurn, StreamProofs — `openai/live.rs` and the body filters of `src/lib.rs`

State: the bytes in transit in each direction, the two parsers with their
buffers, the turn, the records. A filter call takes any prefix of what is in
transit, parses, and applies every frame it completes. A frame's header has the
length of its form and of its mask.

### Attribution, UpstreamTarget, HeaderEvidence, RequestTurnProofs — `atg-protocol`, `atg-harness`, `trace/unpack.rs`, `config.rs`, `request_filter`, `upstream_peer`, `relay_target` and `logging()` of `src/lib.rs`

A request is routed (answered by the gateway, relayed or pumped) by one action and
read by `logging` in another. The descriptor tables, path detection, harness
identification, the four sources of a session in their order, the credential and the
stitching scope are operators. `UpstreamTarget` has the parsing of the upstream and
the two code paths that turn it into an address, a TLS name and a Host header;
`HeaderEvidence` the collection of headers under its four bounds.

## What the runs check

| run | question | answer |
|---|---|---|
| `export_pool` | Does the pool implement the sink? Is every accepted record held or counted once, do permits add up, is the gauge right, does a batch use a client as new as its target, does shutdown ship everything? Is every accepted record booked in the end; does the pool reach its configured width? | yes, in every interleaving of two records, a one-slot channel, batches of up to two, widths 1 and 2, and two reloads; the last two under the fairness below |
| `stitch` | Does the stitcher implement the session map; does an issued session belong to one trajectory; is an expired chain never extended; when the table grows, is it within its capacity, and have the rounds of the eviction loop removed no more than they must and the least recently used? | yes, with two threads whose times reach the lock out of order, a reload of the limits, also between two rounds of the loop, and a restart. That an expired chain is not extended is close to the guard of the lookup; it is checked because the sweep seems to make that guard redundant, and does not |
| `turn` | Are the bytes of the response captured or counted as dropped; is a stream parsed whole; which teardowns mark the record of a turn; is a failed relay recorded; is truncation told; does a drain end? | yes, for every kind of request, every moment of a disconnect, two reloads of the cap. A delivered response is never marked as failed; one that broke off is marked unless the session error carries the idle context, see `turn_idle`. A failed relay is recorded if its path matched exactly: a loose match is recorded for a 2xx alone, by design |
| `turn_window` | Has a drain that timed out had its window? | **no**, see findings |
| `turn_idle` | Is a response that broke off in its body never recorded as a clean turn? | **no**, see findings |
| `config` | Is the list of keys that need a restart exact; do the components follow the snapshot; is a relayed request sent to the upstream of its own snapshot; is a signal served? | yes, with edits, torn files, crashes and restarts between any two steps |
| `store` | Is the byte count that of the records, does a push drop no more than it must, does a client that pages through the records miss none that was there? | yes, for empty, small and oversized records, changes of the budgets, and pushes between pages |
| `gauges` | Are the gauges exact between steps, is the high-water mark the largest value seen, how far off can a scrape be, do health and metrics ever show more records booked than turns? | exact; a scrape is off by at most the requests observed while it runs; never, but for the records of connections |
| `sse` | Does the incremental parse give what the whole-stream parse gives, wherever the body is cut? Is less than one frame retained? Are tool calls and usage complete? Does a reply leave the same record streamed and at rest? | yes, on every body of five bytes, every three frames of each protocol, and every reply of up to two blocks that runs to its end. A responses stream always ends in `response.completed` here: of a reply cut short, for one by its token limit, the record of the stream has no usage (`usage_frames` reads that event alone) and an error, where the record of the whole body has its usage |
| `ws` | Does each response leave its own record, does a capped parser keep within its cap? | yes, with both directions cut anywhere; the endpoints send unfragmented text frames only |
| `attribution` | Does the session depend on who the sender is taken for; does a base URL change the protocol; do relay and pump reach the same target; is the header evidence within its bounds and its drop count exact? | no, but for the sources that only an identified harness mounts, which come last and never displace another; no; yes but for base paths and IPv6 literals, exactly; yes |
| `attribution_scope` | Are turns stitched only with turns of the same credential? | **no**, see findings |

### Bounds

The bounds make the interesting cases happen. `ExportPool`: a channel of one slot
fills; a batch of two fills and also stays partial; widths 1 and 2 with two
reloads give a shrink with both permits held, and a reload on top of one not yet
taken by the batcher. `PrefixStitcher`: three keys over a capacity of 1 or 2
evict, and one operation evicts two of them after a shrink; a ttl of 1 or 2 in a clock of
three values expires and does not; histories `<<>>`, `<<a>>`, `<<b>>` extend and diverge. `RequestTurn`: five bytes in chunks of
one or two against caps of 1 and 3 place the cap inside, before and after a chunk
and inside a character. `ConfigStore`: edits, signals and a restart are few but enough
to put an edit and a signal inside a reload that a second one follows, and a restart
inside that; two of the components stand for the four, as each is seeded on its own;
two upstreams under one SNI name make two requests race for the cache with keys that
differ only in the address. `TraceStore`: records of size 0, 1 and 3 under byte
budgets of 2 and 4 fit together, evict several, and exceed the budget alone; pages
of 0, 1 and 2 records run into the end, into each other and into a push.
`Recording`: two requests, one of them a connection; a scrape meets both at every
place. `SseEngine`: five bytes hold a frame, its delimiter in each form and a split
character; two calls of two arguments interleave in every order. `WsTurn`: two turns,
payloads within and above the cap, each of the three length forms, with `Short` and
`Medium` standing for 125 and 65535. `Attribution`: three segments hold each endpoint
with a segment before or after it; headers that fit after one that did not.
Symmetry is used only in a safety run, over sets whose members no action tells
apart (keys and threads).

`CHECK_DEADLOCK FALSE` stands where the system may stop: a response that has been
parsed, a connection with nothing in transit, a request that has been logged, a
clock at its bound, a process that is down and out of restarts.

### Fairness

- `export_pool`: weak fairness of a producer that has begun `submit`, of a reload
  that has begun `apply_target`, of the batcher, and of the flushes. Producers and
  reload are synchronous code; the batcher and the flushes are tasks of a runtime
  that polls every woken task, the batcher's wait has a timeout, and the client's
  request timeout of 5 s ends every post.
- `turn`: weak fairness of the drain's timer and of the branch that takes it, and
  of `logging`, which pingora calls for every request. Nothing is assumed of the
  upstream: it may hang.
- `config`: weak fairness of the reload service's task, a task of the server's
  runtime, while the process is up. Nothing is assumed of editors, signals, restarts
  and requests.

## What is proved

The runs explore one small instance; the theorems hold for every value of the
constants that the named assumptions of the modules allow. These say what the code
guarantees of its settings (positive widths, capacities, caps, ttls and budgets),
that what is counted is finite (records, keys, requests) and that the bounds of the
models are numbers. The bounds on reloads, restarts, pushes, signals and time are
constants too: the theorems hold for all of them. No other hypothesis is used, with
one exception: two theorems about the exporter assume `~StderrMayFail`, as a panic
while a failure is reported books the batch twice.

| module | theorems | for every |
|---|---|---|
| `ExportPoolProofs` | `TypeCorrect`, `OnePlaceHolds`, `PermitsAccounted`, `NeverWedged`, `ClientFresh`, `GaugeExact`, `ShutdownComplete`; `SinkImplemented` and `Conserved` under `~StderrMayFail` | set of records, queue capacity, batch size, set of widths, number of reloads |
| `PrefixStitcherProofs` | `OneTrajectory`, `NeverExtendsExpired`, `EvictsExactly`, `Implements` | set of keys, histories, threads, capacities, ttls, number of reloads and restarts |
| `RequestTurnProofs` (`RequestTurn`) | `TypeCorrect`, `AllBytesAccounted`, `ParsedWhole`, `Classified`, `FailureRecorded`, `TruncationMarkedTrue` | length of the response, set of chunk lengths and caps, place of the character boundaries, number of reloads |
| `RequestTurnProofs` (`Attribution`) | `ExtractionAlwaysIgnoresAttribution`, `BaseUrlAlwaysIrrelevant`, `TargetsAlwaysAgree`, `EvidenceAlwaysExact` | path and base path of any length, set of mounts, host, port and SNI, sequence of headers, value of the four bounds |
| `ServingProofs` | `ServingTyped`, `ReportsExactly`, `ComponentsCarrySnapshot`, `PinnedToOwnUpstream` | set of keys and files, order of seeding, set of requests, table of resolutions |
| `TraceStoreProofs` | `StoreTyped`, `HoldsExactly`, `PullsEverything`, `PushKeepsMost` | set of record sizes, budgets and page sizes |
| `RecordingProofs` | `GaugesTyped`, `GaugesAlwaysExact`, `HighWaterAlwaysExact`, `ScrapeBounded`, `BookedNeverAhead` | set of requests, any of them upgraded, number of buckets |
| `StreamProofs` (`SseEngine`) | `DrainAlwaysEqualsWhole`, `TailAlwaysOneFrame`, `ToolsAlwaysAssembled`, `UsageAlwaysComplete` | body of any length and content, protocol, cut into chunks, point where the stream breaks off |
| `StreamProofs` (`WsTurn`) | `BuffersAlwaysBounded`, `TurnsAlwaysPaired` | cap, set of payload lengths, length forms, number of turns and events, cut of both directions into chunks |

`PROJECT.json` says which run checks the property a theorem states.

The safety properties are not inductive. What each proof adds to them:

- `ExportPool`: `OnePlace` and `HeldWasOffered`, without which a step that moves a
  record could merge it with a copy of itself and no count would be preserved;
  `PermitInv`, the permits that exist, less what is owed and plus what is queued, are
  the width, up to the gap of a reload between its last two steps, and both the width
  the batcher has seen and the one it is about to see are at least one; `ClientInv`,
  the client lags the target only under the lock; `ShutdownInv`, what is empty at each
  place of the shutdown branch. The refinement maps what is held to the channel, the
  buffer, the batch and the flushes that have not booked; each group of steps is a
  step of the sink or a stutter, and `Conserved` is that of the sink.
- `PrefixStitcher`: `SessionInv` holds `LockInv` (one thread inside the lock, a key
  about to be inserted is not in the table), that the chain in the table is the latest
  history of its session, `NonceInv` (ids of this process stay below the nonce, those
  of earlier ones have other salts), and `EvictInv`, the invariant of the eviction loop:
  what it has kept is as it found it and no staler than what it has removed, which is
  counted, and each removal was from a full table. `EvictsExactly` is what is left of
  that when the loop ends, and that nothing but an insertion makes the table grow. The
  refinement follows action by action: a sweep, a miss and a round of the loop close
  sessions, an insertion opens one, an extension or a breakpoint is what it says.
- `RequestTurn`: `CaptureInv`, what the capture buffer and the accumulator hold while
  a client lives and after it left, and `EndInv`, how a request can have ended.
  `RecordInv` is then what `logging` makes of such a state; it is proved of that one
  step, as no record exists before it.
- `ConfigStore` and `Serving`: `ComponentsFollow` says nothing while the hook runs, so
  `HookInv` says what it has done so far. `RelayPinned` needs that the cached client
  is that of its key or plain (`CacheInv`), and that a request which builds with the
  lock released looked up an entry of its own upstream (`LookupInv`).
- `TraceStore`: the deque is a suffix of what was pushed, the byte count the sum of
  its sizes; `PushInv` says that every longer suffix of the deque the push found was
  too big, `PullInv` that what a client has yet to be served lies beyond its offset.
- `Recording`: `PeakInv` (the largest value is stored, or some request that saw it has
  yet to store it); `ScrapeInv`, what a scrape has added up is at most the partial sum
  of the buckets now; `TurnInv`, an exporter's counters and what it holds add up to
  what it was offered, a record is offered after its turn was counted, and a scrape has
  read no more than there now is.
- `WsTurn`, the buffers: both wires and buffers carry bytes; a round of the parser's
  loop stops it with a bounded buffer or takes at least two bytes, so the loop has
  stopped when its rounds are over.
- `WsTurn`, the turns: `PairInv` has three parts. `Carries`: a buffer and the wire
  behind it are together the whole frames of some messages, and the buffer holds less
  than the first of them. `Sayings` and `Asking`: what the endpoints know; the client
  asks again only when nothing of the server's last response is on its way. `Flow`: the
  events in the open turn followed by those on their way are the events of the last
  response the server began, and every record is that of its request. That it is
  inductive rests on three lemmas: without a cap the rounds of the parser's loop take
  exactly the frames that are complete, each of its own length form (`ParseFrames`);
  the messages whose last byte is among those that pass are exactly the ones taken
  (`PassedCount`); and one message keeps `Flow`, whether it ends a response (`FlowDone`)
  or not (`FlowMore`).
- `SseEngine`: `DrainInv`, the bytes received are a consumed part followed by the tail,
  the consumed part is empty or ends with a blank line, no frame ends inside the tail,
  and the accumulator is that of the consumed part alone. That it is enough is a lemma
  about the parser: the frames of a body that is cut behind a blank line are those of
  its two parts. It rests on three inductions: decoding does not straddle a line feed,
  the state of the frame collector after a blank line is that of a fresh one but for
  its output, and feeding two sequences of frames is feeding their concatenation.
  `ToolsAssembled` and `UsageComplete` are then proved of one pass over any sequence
  of frames, frame by frame: the calls reported and the one still pending are those of
  the opening frames so far with the arguments that followed them, and every bucket
  has the count of the last frame that reported it.
- `Attribution`: `ReadInv`, what was made of the request is a function of it; the rest
  is about that function. The session: three of the four sources do not see the user
  agent, and the fourth comes last. The base path: the segments of two paths put
  together are those of the one and then of the other, a path without a sub-resource
  matches an endpoint exactly when it ends with it, and no two endpoints end alike.
  The target: case by case over scheme, port and SNI. The evidence: an invariant of
  the loop over the headers (`Gathered`), by induction over their number.

Each conjunct has a lemma for the initial states and one per action or group of
actions, and the theorems follow by `PTL`. Cardinalities are handled with the theorems
of `FiniteSetTheorems`. The library's induction theorems take an operator as their
parameter, which the provers cannot instantiate. `DataInduction` states induction over
sets instead: from the well-foundedness of `<`, a nonempty set of naturals has a least
member, and a set that holds zero and is closed under successor is all of them. With
it recursive functions have the values they should: the partial sums of a sequence
(`Bytes` of the store), the rounds of a parser, the text decoded, the frames collected
and fed, the segments of a path and the headers kept. The models write these loops as
recursive functions for that reason.

Only model-checked:

- liveness (`EveryRecordBooked`, `WidthConverges`, `DrainEnds`, `HangupServed`), which
  the prover does not do;
- `RestEqualsStream`: it compares the engine with extractors over the streams an
  upstream may send for a reply, which `ReplyAtRest` enumerates up to two blocks; for
  chat it rests on `SortSeq`, which sorts by a choice among permutations.

## Findings

Each is a run that checks what the repository says of the code and finds it violated.

- **No drain window at the response head** (`turn_window`). When the write of the
  response head to the client fails, the relay marks the client dead without
  opening the drain window; the unset deadline counts as now, so a stream without
  a chunk at hand is abandoned and recorded as timed out.
- **A reset client leaves a clean record** (`turn_idle`). While pingora pumps a
  response, its probe of the client's read half reports a reset as a read error with
  the context "during HTTP idle state". `classify_session_error` takes that text for
  the teardown of a delivered response whatever `response_complete` says, so a client
  that resets the connection in the middle of the body leaves a turn that is neither
  cancelled nor failed, and an error status is not recorded either. The comments say
  the context "cannot fire on a truncated response" and that a mid-body disconnect
  must not classify as idle, as "truncated responses would launder into clean turns".
  What a probe reports is taken from the comment in `relay()` that cites pingora's
  source. The relay itself is not affected: it cancels such a turn. `Classified`
  proves that this is the only way a truncated response goes unmarked.
- **Stitching scope is not the credential** (`attribution_scope`). The scope is the
  authorization header. Anthropic requests that authenticate with `x-api-key` have
  the empty scope and share chains across keys.

Other behaviour met while modelling that a reader may not expect. The models have
it, and no property contradicts it:

- a panic while a failure is reported on stderr books the batch a second time;
- the inflight gauge exceeds `export.max_inflight` for a while after a shrink;
- records refused because export is disabled are counted nowhere;
- a chain found expired on lookup is not counted as expired;
- a relayed turn cancelled before its response is recorded as an error, a pumped
  one that is not a stream is not recorded at all;
- `turns_total` counts before it is known whether a record is made;
- the cap raised in the middle of a drain leaves a hole in what is captured, and a
  capture over the cap gets its truncation marker twice;
- requests see the new snapshot before the components are re-seeded;
- a single record larger than `store.max_bytes` is kept;
- a scrape may show a finite bucket above `+Inf`;
- `metadata.user_id` as an object with a blank `session_id` yields a blank session
  that wins over the headers; in the other forms a blank id is none;
- anything may follow `count_tokens` in a loosely matched path;
- texts of several blocks are joined by line breaks in a whole body and run together
  in a stream; an anthropic call without arguments is `{}` in the one and empty in
  the other;
- a SIGHUP before the reload service has installed its handler ends the process;
- when building a pinned client fails, the plain client is cached under the pinned
  key and serves later requests of it; the cache is keyed on name and resolved
  address, so a change of DNS builds a new client;
- the relay cannot reach an IPv6 upstream that it does not pin, nor pin a name that is
  an IPv6 literal, as its URL lacks the brackets; only the relay keeps a base path of
  the upstream;
- a bare IPv6 upstream `fe80::1` is read as host `fe80:` and port 1;
- an endpoint whose credentials have a `%` shortly before a character of several bytes
  can make `percent_decode` slice inside the character and panic;
- `turns_total` does not count the records of connections, so exported records may
  exceed it; `turns_with_session`, read later, may exceed the `turns_total` read
  before it in the same scrape;
- a repeated response header keeps only its last value when relayed; a repeated
  request header gives the evidence two entries under one key;
- a record of a connection starts at the start of the connection, not of its turn, and
  is matched to its request by order alone: a response the server starts by itself is
  recorded without a request, or under one that crossed it.

## Abstractions

SHA-256 has no collisions. Response bytes are positions. Time is abstracted to
the order in which deadlines and events may occur. Pingora is external: a hook is
called as its documentation and the code's use of it say, and an error after the
response, a reset in the middle of its body included, carries the idle text the
code looks for (`turn_idle` shows what follows). Finished flushes leave the
`JoinSet` when they end; when the loop reaps them is not observable. One reload
runs at a time, as the service is one task. `.max(1)` clamps of validated values
are not modelled. A blank mount is an absent one where the reader trims. Hosts
resolve, in `Serving` to any of their entries or not at all. Relaxed atomics are
interleaved in program order: the loads of a scrape and the increments of a turn are
not reordered, as on x86-64; `BookedWithinTurns` relies on it. A reply's arguments
are a JSON object with at least one member.

## Not modelled

The OTLP document and the HTTP client: a record is mapped to attributes field by
field, with no state; the text of metrics, health and records; the TOML reader and
the text of each validation rule (the file is the only source of settings, and an
unknown key rejects it); readers of user input, model name and end user; WebSocket
masking keys, and responses the server starts by itself; the `config check`
and key fingerprint commands; deployment and performance tools.

## Plan

What is left is to prove of `ReplyAtRest` that the engine reads back an anthropic
stream of any number of blocks.
