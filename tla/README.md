# A verification project for total5

total5 is a web framework in Rust: a hand-written HTTP/1.x server with TLS,
keep-alive, graceful shutdown and websockets (`src/src/server.rs`), and on top
of it routing, AUTH, middleware, schemas, file-backed collections,
configuration and statistics (`src/src/lib.rs`, `storage.rs`,
`statistics.rs`). This directory holds TLA+ models of it, the TLC
configurations that check them, and proofs checked by TLAPS.

Paths below are those of the repository (`src/src/...`); line numbers refer to
the commit the models were written from. `PROJECT.json` maps every definition
to its lines and lists every hazard at the line where it bites.

    tlc -workers 2 -config Server.cfg MCServer.tla        # and so on
    tlapm ServerProof.tla                               # and the other seven *Proof modules

## 1. Inventory

### 1.1 Server lifecycle (`server.rs` 548-678, `lib.rs` 1125-1190)

*State:* the listener, a `JoinSet` of connection tasks, a `watch` channel for
the shutdown signal, the shutdown future of the caller.
*Operations:* `serve` and `serve_tls` select between the shutdown future,
`accept` and `join_next`; after the break they send the signal, drain the
JoinSet for at most `graceful_shutdown_timeout`, then `shutdown()` (abort all
and wait). An accept error returns at once, which drops the JoinSet and with it
aborts every task.
*Hard:* shutdown is one actor, each connection another; the signal can come at
any await of any connection; tasks that never look at it must be aborted.
*Correct when:* `Ok` means that no connection task is left; no connection is
opened after the signal; the server ends whatever clients do.

### 1.2 HTTP connection loop (`server.rs` 451-546)

*State:* a buffered stream, its shutdown receiver, the request in hand.
*Operations:* read a request under the read timeout in a biased select with the
signal; run the handler under the handler timeout; decide from version,
`Connection` header and signal whether the connection goes on; write under the
write timeout; then loop, close or turn into a websocket. With TLS the
handshake comes first, under the read timeout, and does not watch the signal.
*Hard:* the look at the signal that chooses `Connection: close`, the write, and
the look that ends the loop are separated by awaits.
*Correct when:* the end that follows a response was announced by it; a task that
ends well has answered what it read; shutdown does not cut a response short.

### 1.3 HTTP request reader and response writer (`server.rs` 105-441)

*State:* the byte buffer of a connection. *Operations:* headers up to a limit,
a body by `Content-Length` or in chunks with trailers, leaving over-read bytes
for the next request. *Hard:* the input arrives in arbitrary pieces, requests
are pipelined, limits apply to prefixes. *Correct when:* the result does not
depend on how the bytes were split, and the buffer is left at the next request.

### 1.4 WebSocket frame loop (`server.rs` 846-1031, 1182-1198)

*State:* the fragments of a message being assembled and their opcode; a bounded
channel to the handler (`incoming`) and one from it (`outgoing`), 32 each.
*Operations:* select between a message to write and `read_ws_frame`; reassemble,
answer pings, echo a close, refuse what the protocol forbids.
*Hard:* the select drops the read in the middle of a frame; `incoming.send` is
awaited outside the select; the end of the handler races its last messages.
*Correct when:* the handler receives the client's messages, whole, in order and
none invented; limits hold across fragments; a normal close comes last and
after all messages; nobody waits for ever.

### 1.5 WebSocket upgrade, registry and broadcast (`lib.rs` 1460-1611, 3217-3301)

*State:* the registry `ws_connections` of outgoing senders by id, the counter
`stats.websocket_connections`, one detached task per handler.
*Operations:* register, count, spawn, answer 101; the task runs the handler,
then unregisters, then uncounts; `broadcast_text` clones all senders under the
lock and awaits each send in turn. *Hard:* registry, counter, handler and loop
end at different moments in different tasks; a panic skips the clean-up; a
broadcast holds senders of connections that have left, and waits for the
slowest client. *Correct when:* counter and registry agree between updates; a
connection closes normally only when nobody can send to it; a broadcast ends.

### 1.6 WebSocket compression (`server.rs` 1033-1060)

Pure functions over one message. The output buffers of `compress_vec` and
`decompress_vec` are bounded by their capacity: a short message is truncated
when deflated, a repetitive one when inflated. *Correct when:* what one side
deflates the other inflates to the same bytes.

### 1.7 WebSocket client (`server.rs` 691-845, 1062-1180)

*State:* a stream and a negotiated protocol. *Operations:* connect and
handshake, send_text, receive, close. `receive` answers pings and skips pongs.
*Correct when:* it interoperates with 1.4.

### 1.8 Dispatcher, AUTH, middleware (`lib.rs` 1278-1460, 3554-3770)

*State:* immutable routes; per-request context. *Operations:* limit, upgrade,
OPTIONS, API endpoints, first matching route, static files; AUTH, middleware,
handler in this order. *Hard:* `handler_timeout` drops the dispatch anywhere.
*Correct when:* no handler runs without its AUTH, and a dropped dispatch leaves
the counters balanced.

### 1.9 Statistics and limiter (`statistics.rs`)

*State:* relaxed atomic counters and a map from address to a 60-second window.
*Operations:* count, snapshot, limit. *Hard:* counters are read one at a time;
`pending` must fall on every exit, cancellation included; a window restarts
from its first request. *Correct when:* `pending` is the number of dispatches in
flight, requests are accounted for once, an address gets at most `limit`
requests in a window.

### 1.10 DATA collections (`storage.rs` 1-108)

*State:* one JSON file per collection. *Operations:* `insert`, `update`,
`remove` each load the file, change the rows and write the whole file; `find`
and `read` load it. *Hard:* no lock, several awaits per operation, `fs::write`
truncates first and goes on when the handler that called it is dropped.
*Correct when:* every operation that reported success is visible, the file
always parses, a crash loses nothing that was reported.

### 1.11 FileStorage (`storage.rs` 117-186)

*State:* one file per UUID. *Operations:* save, read, stat, remove.
*Correct when:* an id that was handed out reads back what was saved.

### 1.12 Configuration (`lib.rs` 250-310, 697-800)

*State:* a map of values, a cache of generated values on disk. *Operations:*
load defaults, file and environment; generate and remember; reload.
*Correct when:* a generated value survives restarts and reloads; a reload that
fails changes nothing.

### 1.13 Response shaping (`lib.rs` 1282-1311, 1340-1458, 1614-1864, `server.rs` 410-449, 508-532)

*State:* none but the configuration; a response passes through `finalize_cors`,
`apply_byte_range`, the compression of `finalize_http_response`, `finalize_head`
and `write_response`, each of which sets or drops a part of it. Notices (403,
429, 503) are made outside that path. *Hard:* the order of the steps, two places
that compute a length, bodies at the limits of a range, and clients and caches
that act upon the head. *Correct when:* the head says what follows it, as far as the handler left that to
the server, a range
is answered with the bytes it names, HEAD says what GET sends, and a cache that
heeds `Vary` hands nothing to the wrong client.

### 1.14 Routing (`lib.rs` 847-1014, 1360-1516, 1866-1901, 2826-2916, 3936-4009)

*State:* the routes in the order of registration, the API endpoints by base in a
`HashMap`, the websockets, `$api`. *Operations:* `route`, `route_compat`,
`group`, `websocket`; the search for whom a request reaches. *Hard:* slashes may
be written in many ways, patterns overlap, registration, search and OPTIONS
compare paths each in its own way, and websockets, API and routes are searched one
after the other. *Correct when:* a request reaches the first registration that
asks for it among those that are searched for it, and OPTIONS lists what is reached.

### 1.15 Validation and actions (`lib.rs` 2287-2728, 3125-3180, 4329-4480)

*State:* none kept; schema strings are parsed to rules. *Operations:* gather the
input of an action from body, path, query and form; validate; transform; hand it
on to another action. *Hard:* the parser of schema strings looks for limits and
enumerations in the whole text of a field; path and query are checked apart from
the input that the action gets; what was transformed is validated again.
*Correct when:* an input is let through exactly if it is what the schema says.

### 1.16 The rest

Multipart forms (a pure function over a complete body); PostgreSQL access (an
external library) and the SQL text builder; lifecycle hooks (sequential, before
the server starts); build discovery and macros (build time); path and string
utilities. `types.rs` and `globals.rs` are not in the module tree and are never
compiled.

### 1.17 How the parts interact

    caller --shutdown future--> serve/serve_tls --watch--> connection tasks
    serve/serve_tls <--JoinSet (join, abort)-- connection tasks
    connection task --Request--> dispatcher --Response (+ WebSocketSession)-->
    websocket_loop <==incoming / outgoing channels==> handler task
    handler task --registry (mutex)--> outgoing channels of all connections
    handlers --files--> collections, storage, configuration

## 2. The modules

| module | models | composed with |
|---|---|---|
| `GracefulDrain` | what any server that drains promises (abstract) | |
| `Server` | 1.1 and 1.2: accept loop, signal, tasks, await points | implements `GracefulDrain` |
| `ServerProof` | proofs about `Server` | extends `Server`, `TLAPS` |
| `WsLoop` | 1.4: one loop, its client, its handler, both channels | |
| `WsLoopProof` | proofs about `WsLoop` | extends `WsLoop`, `TLAPS` |
| `WsHub` | 1.5: several loops and handlers, registry, counter, broadcast | an abstraction of 1.4's loop |
| `WsHubProof` | proofs about `WsHub` | extends `WsHub`, `TLAPS` |
| `Collection` | what a collection of documents promises (abstract) | |
| `DataStore` | 1.10: the operations of `Data` on one file | implements `Collection` while calm |
| `DataStoreProof` | proofs about `DataStore`, the refinement among them | extends `DataStore`, `TLAPS` |
| `RequestReader` | 1.3: the reader, and a reference for what it reads | |
| `RequestReaderProof` | proofs about `RequestReader` | extends `RequestReader`, `TLAPS` |
| `Dispatch` | 1.8 and 1.9: counters, limiter, routing, AUTH, middleware | its caller's deadline is `Cancel` |
| `DispatchProof` | proofs about `Dispatch` and about `Routing` | extends `Dispatch`, `Routing`, `TLAPS` |
| `ConfigLoad` | 1.12: load and reload, the cache of generated values | |
| `ConfigLoadProof` | proofs about `ConfigLoad` | extends `ConfigLoad`, `TLAPS` |
| `Response` | 1.13: one exchange, its client and a cache | takes what `Dispatch` answers, and the 503 of `Server` |
| `ResponseProof` | proofs about `Response` | extends `Response`, `TLAPS` |
| `Routing` | 1.14: registrations, and whom every request reaches | gives `Dispatch` its routes |
| `Actions` | 1.15: schema strings, validation, the input of actions | runs inside a handler of `Dispatch` |
| `MC...` | instances for TLC | |

### 2.1 Server

`server` is the position in `serve`; `phase[c]` the await point of a
connection's task; each action is what may end that await. `interrupt` is the
shutdown future, `signal` the watch channel (`dropped` when `serve` fails and
its sender goes away: `changed()` returns an error then, with the same effect on
the select, but `*shutdown.borrow()` stays false, so a response written then
does not announce a close), `tasks` the JoinSet. A request is its version and
the tokens of its `Connection` header, the data `request_keep_alive` looks at.
`ReplyTo` computes header and fate together, as the code does from one
`draining`; `own` is the `Connection` header that the response brings along, from
the handler or, with a websocket, from the upgrade. The code overwrites it when the
connection ends or the request is of HTTP/1.0, and leaves it alone otherwise, so a
handler may announce an end that does not come; of all it may say, only "close"
is told apart from nothing. `phase = "poll"` stands between the poll of the signal and that of
the reader inside one select, so that a request can be read after the signal
and only then. `received`, `answered`, `late` and `outcome` are history.

Time is abstract: a timeout may fire whenever its await is pending. `Abort` may
happen at any await of an aborted task, or later. `JoinSet::shutdown` waits for
the tasks it aborts, hence `server = "aborting"` until `tasks = {}`; after an
accept error nobody waits.

### 2.2 GracefulDrain

Connections are none, idle, busy or gone. After the stop none is opened, each
begins at most one more request, and "over" is reported only when none is left.
The refinement maps the five positions of `serve` to `service` (`ServiceOf`)
and the thirteen phases to four (`ConnOf`).

### 2.3 WsLoop

A frame is two units of the byte stream, head and rest. `pos` is what was taken
from the socket, `held` the unit that lives in the pending read future only:
`DropRead` (the other branch of the select won) forgets it, and what follows is
then read out of step (`ReadGarbage`: any frame at all, because the payload of a
frame may look like any header). Bytes over-read by the HTTP reader are the
prefix of the same stream and need no state. `Handle` is the match of
`websocket_loop` in the order of the code: what `read_ws_frame` refuses, RSV1
misuse, then opcode by opcode. A message is the sequence of the pieces it was
assembled from, so that "whole, in order, none invented" is comparing numbers.

Abstractions: `read_ws_frame` refuses a bad frame once it has its header, the
model once the whole frame is there; the write of one frame is atomic (it is
awaited inside the branch, outside the select); opcode "reserved" stands for
3-7; `valid = FALSE` is a payload with a byte that is never UTF-8, in whatever
fragment; inflating may fail or succeed with the same payload (1.6).

A `plan` is drawn in `Init` and never changes: the kinds of frames the client
has, how many of them and of the handler's messages there are, and whether a
frame may arrive in two parts. It bounds the environment and stands for no code;
one run can so cover many kinds of whole frames and few kinds of split ones.

### 2.4 WsHub

Messages are counted, not named. `task[c]` is the spawned task of the handler,
`targets[c]` the senders a broadcast has still to serve, in the arbitrary order
of a hash map (`SetToSeqs`), `loop[c]` the loop, `stalled[c]` a client that
stopped reading: a write to it never completes, as there is no write timeout in
`websocket_loop`. That goes for the close frame, too: `CloseNormally` and
`ClientCloses` (an answer to the client's close frame, or a refusal) lead to
"closing", and only `Closed` ends the loop. `Deliver` waits for room in `incoming`.
`Held` is when the outgoing channel has a sender: registry,
context, or a broadcast. `Cut` gathers all ways the loop ends with nothing to be
written: an error of the stream, its timeouts, a failed 101 response or an abort.

`Stuck(d)` names the two ways in which a loop may be held for ever: its client reads
no more, or it waits to deliver to its own handler, which does not receive.
`HeldUp(c, d)` is a broadcast of `c` that waits for room at such a loop, its own
one not excepted.

### 2.5 DataStore and Collection

`phase[c]` is the await a caller stands at: `load` (the whole file), `dir`
(`create_dir_all`), `open` and `write` (the two halves of `fs::write`, which runs
in a thread of its own). `body[c]` is the whole file as it will be. `Drop` is the
handler's deadline: what has only been awaited is forgotten, a write goes on
without its caller (`gone`) and lands later. `Crash` keeps the file and nothing
else. A torn file is known by its size only: it does not parse, and a writer
with a shorter body leaves the end of a longer one behind it (`Overlay`).

`Collection` is an atomic collection: an operation takes effect once, between
its call and its answer. `DataStore` implements it while `calm`: no change was
called while another was under way, and none was cut by a crash or a failed
write. Reads may overlap anything; they fail when they meet a torn file, as the
abstract `Fail` allows. `README.md:180` of the repository says that there is no
locking and no recovery, so what happens after the calm is no finding;
`TornHasCause` says what it takes to get a file that does not parse: a write
under way, a cut one, or two that overlapped.

### 2.6 RequestReader

The stream is a sequence of units, a CRLF, a request line, a header line, a
chunk size, an extension or two bytes of content, and all limits count units.
`base` is where the buffer starts, `got` where it ends, `cursor` and `end` are
the locals of the code; `Read` brings one to `Chunk` units, never more than the
code asks for (`Room`). `Reference` reads the whole stream unit by unit, with no
buffer and no search, and `ReadsWhatWasSent` compares the two after every read:
the requests returned, the positions of their bodies, the place where the next
one starts, and the error. Requests with CRLFs and request lines as content, or
in chunks, make a reader that loses its place visible.

The one thing that depends on how the stream is cut is a chunk line or trailer
longer than the header limit: `read_until` looks for the line end before it
looks at the limit, so the line passes when its end comes with the piece that
exceeds the limit. The reference marks such streams (`long`).

### 2.7 Dispatch

`phase[d]` is the await a dispatch stands at: AUTH, each middleware, the handler
(`upgrade` for a websocket, which awaits nothing), a static file; `routing` is
what runs before them without an await. `Block`, `Throttle` and `Admit` are the
head of `dispatch`, in its order: requests are counted, the blacklist comes
before the limiter, and the `PendingRequest` guard is made last. `Vanish` is the
guard when a deadline, an abort or a panic drops the future at an await;
`Answer` counts the class of the response too. `Replies` is what handlers,
AUTH and middlewares may answer with.

`limits` is the map of the limiter: `Live` is its `retain`, `Opened` its entry.
It is behind one mutex, so a request counts in one step. The second
comparison in `request_limit_exceeded` (the window is over) never holds behind
the `retain`; `Opened` keeps it as the code has it.

A route compares its flag with what AUTH found and then runs the middleware; an
API endpoint and a websocket compare theirs behind the middleware, with the user
that is set by then. Middlewares may set or clear the user, hence `byAuth`.

Left out: the counters of bytes, of routes and of websockets (1.5), the
`timeouts` counter (it counts responses that the connection loop makes itself,
after the future of the dispatcher was dropped, so it stays zero), and snapshots,
which load the relaxed counters one at a time and promise no more.

### 2.8 ConfigLoad

A load is one thread that reads files line by line: `todo` is what is left of
the chain of `load_config`, `lines` what is left of the file, `cache` the map of
`config.json` as `load_total_config_with_cache` holds it. The steps are kept
apart because a crash may come between any two, and because a file may configure
the directory in which the next one looks. A `config.json` that does not parse
is treated by the code as one that is absent, so `Truncate` leaves the empty map.
A first load that fails ends the application (`convention` returns the error);
a reload that fails leaves what it had loaded.

Values are numbers: `serial` counts those that were generated, zero is a value
written in a file. `origin` is the directory whose `config.json` has supplied a
value; `given` are, by directory, the values of loads that succeeded, `since`
those since the last edit. Both are forgotten when the write of `config.json` is
cut. Left out: the environment and `.env`, special names and typed values, other
directories than that of the databases (a plugin directory that moves), and the
`CONF` snapshot, which follows the configuration at the end of each file.

### 2.9 Response

A body is an interval of the bytes the handler made, a response the few parts of
its head that the steps look at. `Cors`, `Ranged`, `Compressed`, `WithoutBody`
and `Written` are the five steps, `Finalized` their order in
`finalize_http_response`. Requests are drawn with their method, range, gzip and
origin; resources are what a handler (or the static files) answers, with
whatever head it has set: a `length` of its own goes out as it is, unless
compression drops it or a range replaces it, and an informational status gets
none from the writer. A range has parts that are absent, numbers, or not
numbers (`parse` fails, or a u64 overflows). `Ranged` keeps the code's
`saturating_sub`, and `Bytes::slice` panics behind the end of the body: status 0,
after which the connection is gone.

The client reads behind the head what HTTP tells it to (`Expected`); `slack` is
what is on the stream beyond that. Exchanges share only their place in the
stream, so one is followed, and one more of a cache that stores a 200 answer to
a GET and selects by `Vary`. The size of a compressed body is a constant.
Left out: cookies, `ETag`, `Last-Modified` and other names that no step looks at;
`Cache-Control`, which would only make the cache store less; CORS headers that a
handler sets itself; `Accept-Encoding` with weights: the code looks for the word, so
`gzip;q=0`, which refuses gzip, is `gzip` here as it is there.

### 2.10 Routing

A path is a sequence of words and slashes, so that empty segments, doubled and
trailing slashes are there to be told apart. `Joined` is `join_route_paths`,
`Matches` is `match_native_path`, `Resolved` is `resolve_api_base` with `$api`,
which may change between two registrations. `routes` and `sockets` are searched
in order; `api` is a map whose order is not known. `Reached` is the order of
`dispatch_inner`: an upgrade finds websockets only, POST to a base of the API the
API, anything else the routes. `log` is history: what was registered, with the
group it was registered in, or, for an endpoint, the base it got. Requests are not steps: after
every registration the properties ask for every path, method and offer of
subprotocols whom it would reach. The constants `RouteArgs` and `SocketArgs` are the
arguments of registrations, `Routes` and `Sockets` of `Dispatch` a configuration
that came of them, and `RoutingInit`, `RoutingNext` and `RoutingSpec` have names of
their own, so that `DispatchProof` may extend both modules. Left out: percent
encoding of parameters, the AUTH flags (2.7), and that a group drops the flag of its
routes.

### 2.11 Actions

A schema is the tree its string spells; `RulesOf` is what the parser makes of
that string, `Fits` and `Meets` what the string says. They differ where the
parser looks beyond the field at hand: `FirstLimit` and `FirstBraces` find the
first parenthesis and the first brace in the whole text of a descriptor, and
`Barred` is an enumeration as the parser wants it, with a bar between its values. A string
is known by what the code asks of it (its length, its number, its formats, its
cases): the function `Texts`. `Call` is a route's action, `Forward` the action
calling another of the same schema with what it got. Left out: rules that are
built by calls (`min`, `custom`), schema references, and the scanners of the
formats themselves.

## 3. The runs

| run | checks | shows |
|---|---|---|
| `server` | two connections, two requests each, TLS | types; `NoOrphanTask`, `CloseIsAnnounced`, `GracefulEndAnswersAll`, `AtMostOneLateRequest`; the refinement `IsGracefulDrain`; `ShutdownCompletes`, `DrainConverges` |
| `wsloop` | every sequence of 3 whole frames of 15 kinds; every 2 of 4 kinds that arrive in parts | `DeliveredUnlessCut`: reassembly against a reference; `MessageBounded`; `WritesWhatItOwes`: pongs, the handler's messages before a normal close, nothing after it; `SendHeldByDeliveryOnly`: liveness of sends |
| `wshub` | two connections, broadcasts, panics, a client that stalls, one that fills its channel | `CountTracksRegistry`, `NormalCloseIsFinal`; `BroadcastCompletes`, `ReturnClosesConnection` |
| `datastore` | two callers, 4 operations of 8 kinds | refinement of an atomic collection while calm; `TornHasCause` |
| `requestreader` | 486 streams, pieces of 1 to 4 units | `ReadsWhatWasSent`: the reader against the reference, limits included |
| `dispatch` | two dispatches, 4 requests of 14 kinds, 3 addresses | `PendingCounts` and `Accounted` under every way to end; `WindowsBounded`, `RefusedWhenFull`; `FlagsHold` |
| `configload` | 4 loads, 2 edits of 6 projects | `GivenStays` over restarts, reloads, edits and crashes; `DirIsConfigured` |
| `response` | 12 configurations, 94 requests, 88 resources | `RangesExact`, `LengthsTrue`, `CacheKeepsApart` |
| `routing` | every two registrations, in 4 groups, 3 values of `$api` | `ServedAsRegistered`, `HiddenByTwinOnly` for 9 paths |
| `actions` | 174 sets of options against 145 calls | `AcceptedAsWritten`, `ForwardedUnchanged`, `CheckedPathArrives` |
| `wsloop_cut_read` | violation of `DeliveredInOrder` | finding 1 |
| `configload_reload` | violation of `GeneratedPersists` | finding 2 |

*Bounds.* `server`: two connections (a property relates a connection to the
server, and two let one be drained while another is served), two requests each
(one before, one after the signal), all five request kinds, handlers that set
`Connection: close` and handlers that do not, TLS on (its phases
include those without TLS; the proofs cover both). `wsloop`: channels of
capacity 1. Three whole frames are a message of three fragments, with a control
frame in place of one of them, and one message of the handler; the limit of 200
bytes is passed by three fragments of 100 and by one frame of 201. Two frames in
parts and two messages are a read that is cut, what is then read out of step,
and a handler that waits for room. `wshub`: two connections with capacity 1 and one
call each; one client sends two messages, so that the second finds `incoming` full
and its loop waits for its handler, and the other client may stall: enough for a
broadcast each way, for one to a full queue, and for one that waits for a loop which
waits for the same handler. `datastore`: two callers give every
overlap of two operations; four operations are a document written, two changes
that overlap, and one that meets the result. `requestreader`: heads of at most 7
units and bodies of at most 3, with streams on both sides of each limit; a
request that is well formed in front of each stream, so that the second starts
with what the first left in the buffer. `dispatch`: a limit of one in a window of
two ticks, so that a window is filled, refuses, is over and is followed by
another within three ticks; one blacklisted address beside two others. The two
dispatches are symmetric, which is sound here: the run checks no liveness.
`configload`: two directories and two names, one plugin; the projects put a
generated value in one file, in two, in front of and behind a directory, in an
overlay, under a fixed value, and in front of a malformed line; four loads let
two processes load twice, with an edit between any two. `response`: bodies of 0,
1, 3 and 4 bytes, where more than 3 are compressed, and ranges with every pair of
parts out of none, no number, 0, 1, 2 and 5, so that a range begins and ends in,
at and behind a body; lengths of handlers that are true, too short and too long; one
exchange and the cache's, since exchanges share nothing else (the proofs are for
any sizes). `routing`: two registrations,
because a property is about one route and what stands before it or beside it;
four groups, each with slashes of its own, and 9 paths that reach each
pattern, miss it by a segment, or differ by slashes; a route and a base of the API
share a path. `actions`: every kind of
field with and without limits and enumerations, alone, in an array, in an object
and in rows of objects, against every type of value, with strings that are
numbers, JSON, NaN, too long, in the wrong case, or (a sharp s) of another length and
case each time the case is changed; enumerations of one value and of two; one call
and one hand-over.

`CHECK_DEADLOCK FALSE` throughout: a server that has stopped, a connection that
is refused, a loop whose client has sent its frames and whose handler is gone,
callers whose calls are used up, an exchange that is over and an action that was
refused have really ended. `routing` is checked for deadlock: `$api` may always
change.

*Mutants.* Each property has a mutation of the code that TLC must catch; the
`_Name` operators beside the originals.

### 3.1 Fairness

`ServerFairness`: the loop of `serve` is polled when a branch of its select is
ready (`Break`, `Reap`), the drain has a timer (`DrainTimeout`), `Stopped`
waits for nothing else, and an aborted task ends at its next await. The last
assumes that handlers yield: tokio cannot abort one that blocks its thread.
`TimerFairness`: every await of a connection is under a timeout, except
`websocket_loop`. `DrainConverges` assumes nothing else: not the client, not
the handler, not the abort. In `WsLoop` and `WsHub`, loops and waiting handlers
are polled; `Receive`, `Send`, `Return` and everything the client does carry no
fairness. `WsLoop` assumes that the client reads what is written to it; `WsHub`
does not, and says `Stuck` where that matters. The fairness is weak and on a loop as
a whole: `tokio::select!` picks at random among its ready branches, and a client
sends finitely many frames in the model, so that what waits in `outgoing` has its
turn. The read timeout of the loop is never relied on.

## 4. What does not hold

1. **A half-read frame is lost when the handler sends** (`server.rs` 866-881).
   `read_ws_frame` is not cancel-safe and is one branch of a select without a
   pinned future. `wsloop_cut_read` shows the shortest case: the head of a frame
   is read, a message is written, and the rest of the frame is taken for a
   frame. `DeliveredUnlessCut` shows that this is the only cause.
2. **A reload generates values anew** (`lib.rs` 708, 766): `reload_config` keeps
   the paths of the last load. When `config` sets `$dirdatabases`, its own
   generated values were remembered in the directory of the beginning; the
   reload looks in the configured one, finds none, and generates others. A
   restart gives the old ones again. `README.md:306` says that they persist.
   `GivenStays` shows that the directory is the only reason.

The following are built into properties as their exceptions, each shown by its
run to be the only one:

- *Handler and loop may wait for each other* (`server.rs` 903, 916): the loop
  waits for room in `incoming` and does not write; the handler waits for room in
  `outgoing` and does not receive. The read timeout is not running then.
  `SendHeldByDeliveryOnly`: a send is stuck in no other way. A broadcast that waits for
  such a loop, or for that of a client which reads no more, waits with it for ever:
  `BroadcastCompletes` and `ReturnClosesConnection` show that nothing else holds one.
- *A handler may say close where the server does not* (`server.rs` 515-524,
  `lib.rs:3391`): its own `Connection` header stays on a response that is not the
  last. `CloseIsAnnounced`: only then does a response say close for nothing. The
  property says nothing of idle connections, which the signal ends without notice
  (`server.rs:480`): their last response need not have said close.
- *A notice answers HEAD with a body* (`server.rs:510`, `lib.rs` 1295, 1307): 503,
  403 and 429 are made outside `finalize_http_response`. This is against the
  repository's own record, `today.md:54`, which ticks off "Implement native HEAD body
  suppression". `OutOfStepHasCause`, a part of `LengthsTrue`, has it as its first
  cause: the client of a keep-alive connection takes the notice for the next head.
- *Bytes that a client does not expect* come, beside those notices, from a handler that
  gives a body to 1xx, 204 or 304, or announces another `Content-Length` than that of
  its body: `Response::header` takes any value and `write_response` passes it on.
  Nothing else leaves a client out of step.
- *An informational status is given a length for HEAD alone* (`server.rs:415` against
  `finalize_head`). `HeadSaysWhatGetSends`: HEAD says what GET sends otherwise.
- *A base of the API hides the POST routes of its path* (`lib.rs:1360`), in whatever
  order they were registered. `ServedAsRegistered`: nothing else comes before the
  first route that asks for a request.
- *A suffix range of an empty body panics* (`lib.rs` 1820, 1839): it becomes 0-0,
  and `Bytes::slice` fails. `RangesExact`: no other range does.
- *Two spellings of an API base hide each other* (`lib.rs:1362`): `/a` and `/a/`
  are two keys of a `HashMap` and equal as paths, so which endpoints answer
  depends on the order of the map. `HiddenByTwinOnly`: an endpoint is not found
  for no other reason.
- *Limits and enumerations inside the brackets of an array* (`lib.rs:4453`) are
  taken for those of the array: `[String(1)]` limits the number of elements, and
  an enumeration lets no array pass. *An enumeration of one value* is none to
  `parse_enum_values` (`lib.rs:4470`), which looks for a bar: `{a}` is an object then,
  and `string{a}` any string. `AcceptedAsWritten`: nothing else is read otherwise than
  it is written.
- *NaN becomes null* when a number is transformed (`lib.rs:2695`), and a schema
  that requires it refuses what it made itself; so it does with a JSON text of
  another type, and with an enumeration whose values the transformation never
  makes. *A change of case may go on*: `capitalize_words` (`lib.rs:4107`) makes `SSa`
  of a sharp s and an a, and `Ssa` of that, and what it makes may be longer than the
  limit. `ForwardedUnchanged`: nothing else is changed, or refused, by being
  handed on.
- *A body takes the place of a checked parameter* (`lib.rs:3128`): the schema of the
  path is asked about the path, and a name in the body hides that of the path in
  the input. `CheckedPathArrives`: neither query nor form does.

Noted while modelling, without a property: `gzip;q=0` is taken for an offer of gzip
(`lib.rs:1648`); text in fragments is not checked for
UTF-8 (`server.rs` 892-907 against 913, `today.md:21`; `Continue` in `WsLoop`
delivers it); an HTTP/1.0 upgrade is answered 101 with `Connection: keep-alive`
in place of `Upgrade` (`server.rs:521`); a reply that a handler sends before it
returns is dropped when a frame arrives before the queue is drained
(`server.rs:903`: `incoming.send` fails, and the loop returns with no close
frame; `NormalCloseFlushes` shows that all messages are written otherwise); an
application made by `convention_dev` loads the release overlay when it reloads,
because the defaults replace `debug` (`lib.rs:767`); a panicking handler leaves
its registry entry and its count behind (`lib.rs:1577`; `CountTracksRegistry`
shows that the two leak together); handlers of websockets are detached and
outlive `serve`.

## 5. What is proved

In `ServerProof`, for every set of connections, every set of requests, every
bound and with or without TLS, from the assumptions `TlsAssumption`,
`RequestsAssumption` and `MaxRequestsAssumption` of `Server`:

| theorem | states |
|---|---|
| `Invariance` | `Spec => []IInv` |
| `Typed`, `OrphanFree`, `CloseAnnounced`, `AnswersAll`, `OneLateRequest` | the five invariants of run `server` |
| `ImplementsGracefulDrain` | `Spec => IsGracefulDrain`, the refinement |

`IInv` is the conjunction of five parts, because no property is inductive alone:

- `TasksOwned`: a running task is in the JoinSet, and the JoinSet is empty when
  `serve` has returned. `NoOrphanTask` says nothing of the JoinSet.
- `RequestsCounted`: one request is unanswered in `handle` and `write`, none
  elsewhere while the task runs. Without it `answered <= MaxRequests` is lost
  at `WriteDone` and `GracefulEndAnswersAll` at each way to end well.
- `LateCounted`: the signal is up exactly when the loop was left, and a
  connection that had its late request never polls its reader again.
- `FateAgrees`: a response that is written says close if it is the last, and only
  then unless its handler did; while a connection goes on, its last response has
  said close at most on behalf of its handler.
- `TypeOK`: the counters stay in bounds because of the two above.

Each part has a lemma with one step per action. The refinement follows from
`Invariance` and `Simulates`: each action is an action of `GracefulDrain` under
the mapping (`Departs` for the ten ways a task ends) or a stutter (`Stutters`).

In `WsLoopProof`, for any plans (any frames, any number of them, any number of
messages of the handler), any capacities of the two channels, any limit on
messages, with and without compression, from `PlansAssumption` and
`BoundsAssumption` of `WsLoop`:

| theorem | states |
|---|---|
| `Inductive` | `Spec => []IInv` |
| `TypeCorrect`, `DeliversInOrder`, `MessagesBounded`, `WritesOwed` | `TypeOK`, `DeliveredUnlessCut`, `MessageBounded` and `WritesWhatItOwes` of run `wsloop` |

`DeliveredUnlessCut` compares what the handler got with what the reference,
`Reassembled`, makes of the frames that were read; it says nothing of the message
in the making. `Assembles` does: while the loop runs and no read was cut, the
loop's fragments are the reference's open message, and what is delivered, with
what waits for room, is the reference's list of messages. `Handle` then needs
what one frame more does to the reference (`ReadAssembles`), and each action of
the client that what is appended to the stream leaves its beginning as it was
(`ReassembledAppend`).
`Sizes` bounds the message on its way, not only those that were delivered; it
does not depend on `cut`, so the limit holds out of step, too. `Writes` adds to
`WritesWhatItOwes` what holds at a normal end: no message is left and the
handler's senders are gone. Pongs and messages are compared as sets of places in what
was written, with an order that is kept (`InOrder`).

In `WsHubProof`, for any finite set of connections (`ConnsAssumption`: the
counter of the code counts them), any capacities and any bounds:

| theorem | states |
|---|---|
| `Inductive` | `Spec => []IInv` |
| `TypeCorrect`, `CountAgrees`, `NormalCloseFinal` | `TypeOK`, `CountTracksRegistry` and `NormalCloseIsFinal` of run `wshub` |

The count and the registry are updated by other steps, so neither determines the
other. Both are determined by where the tasks stand: `RegistryIs` and `CountIs`
say which positions are registered and which counted, and the lemmas `Enters`,
`Leaves` and `Stays` move one task among them. That the counter never underflows
is a part of `TypeCorrect`, and follows from `CountIs`. `NormalCloseIsFinal`
needs that a loop which has ended stays so (`EndingTold`), and that a broadcast
snapshots only what is registered (`Snapshot`).

In `DataStoreProof`, for any finite set of callers, any operations, documents
and patches, and any number of calls:

| theorem | states |
|---|---|
| `Inductive` | `Spec => []IInv` |
| `TypeCorrect`, `TornExplained` | `TypeOK` and `TornHasCause` of run `datastore` |
| `ImplementsCollection` | `Spec => IsCollection`, the refinement |

The part of `IInv` that carries the refinement is `Calm`: as long as no changes
have overlapped and none was cut, at most one change is under way (`OneChange`), what
it will write is what its operation makes of the documents the abstract
collection has (`Prepared`), and a file that nobody is writing holds those
documents (`FileIsLast`). Then each action of `DataStore` is one of `Collection`:
an operation takes effect where the whole file is written (`WriteRefines`), a
read where it loads it, and the steps in between stutter; a writer whose caller
was dropped still takes effect (`Abandon`). Outside calm the abstract
specification allows any step, as in the run. `TypeOK` says that a count is a
number; what makes it inductive are `Fits` and `Room`, which bound the rows of files
and the counts, and rest on what `Vec::retain` keeps (`Retained`, whose definition by recursion is unfolded
in `RetainedIs`).

In `DispatchProof`, for any number of dispatches, requests, routes and
middlewares:

| theorem | states |
|---|---|
| `Invariance` | `Spec => []IInv` |
| `PendingBalances`, `EveryoneAccounted`, `FlagsAlwaysHold` | `PendingCounts`, `Accounted` and `FlagsHold` of run `dispatch` |

`IInv` adds two parts to these three. `Shapes` is what counting needs of the
types, without the bounds of `TypeOK`. `FlagsKept` says that a route behind its
comparison holds it until its handler: `FlagsHold` alone says nothing of a
dispatch that is still in the middleware. The lemmas `Started` and `Ended` move
one element of `Busy`; `EndKeeps` covers the twelve ways to end.

Also there, for any limit, any window and any requests:

| theorem | states |
|---|---|
| `LimiterInvariance` | `Spec => []LimiterInv` |
| `WindowsAlwaysBounded` | `WindowsBounded`: never more than twice the limit |
| `OverIsPruned` | `LimitsPruned`: the map forgets windows that are over |

`WindowsBounded` looks at any window's length in the past, the limiter only at
the window it has. `LimiterInv` bridges the two: `WindowsCount` says that the
window of an address has counted all it let pass, and that no more than the
limit passed in the window's length before it; `PrunedCounted` says the same of
an address whose window was pruned, so that a new window may follow; `Anchored`
says that nothing was let pass behind the end of a window. A stretch of one
window's length then meets at most two windows (`UnionBound`).

Two more theorems rest on counters, types and windows together:

| theorem | states |
|---|---|
| `FullInvariance` | `Spec => []FullInv` |
| `TypeCorrect`, `RefusesWhenFull` | `TypeOK` and `RefusedWhenFull` of run `dispatch` |

`RefusedWhenFull` is the converse of `WindowsBounded`: the limiter refuses nobody
without cause. It counts refused requests too, so that `limits[ip].count` may
exceed what it let pass; `WindowsFull` says that a window has let pass all that it
counted, or as many as the limit. That the requests it let pass are as many as it
counted needs that each has a serial of its own (`EntriesTyped`), which the
counter of requests gives (`CountsTyped`), hence one invariant for all.
`Len(Routes)` and `Len(Sockets)` are assumed to be numbers, as those of
sequences are.

The routes that the dispatcher looks through come from `Routing`, which the same
module extends: for any arguments of registrations, any paths of requests and any
number of registrations, from `ArgumentsAssumption` and `ParametersAssumption` (braces
without a name are no parameter, as `match_native_path` has it):

| theorem | states |
|---|---|
| `SegmentsJoin` | the joined path of a group and a route splits into the segments of both |
| `RoutingInductive` | `RoutingSpec => []RoutingInv` |
| `RoutesServed`, `EndpointsReached` | `ServedAsRegistered` and `HiddenByTwinOnly` of run `routing` |

`ServedAsRegistered` compares two ways to the segments of a route: joined to its
group, trimmed and split by the code, and split apart in the history. That they are
the same for all paths is `SegmentsJoin`: `Bounds` are the first and the last word of
a path, where trimming cuts (`BoundsAre`, `TrimIs`), so that doubled, leading and
trailing slashes fall away (`SegmentsSame`), and the one slash that `join_route_paths`
leaves between a group and a path ends a segment (`SplitJoins`, by induction along the
second text). The rest is order: `RoutesFollow` says that routes stand as their
registrations do, none is lost and each has what it asked for, so that the first
route that matches is that of the first registration that asks; `BasesRecorded` says
that the bases of the API are those that endpoints have got, so that POST goes there
exactly as the history has it. `EndpointsFound` is
the endpoints' part of `HiddenByTwinOnly`: an endpoint takes its name in its base and
leaves all other names and bases (`EndpointKeeps`), wherever `$api` has put the base.

In `ConfigLoadProof`, for any names, directories, plugins and projects, and any
number of loads and edits:

| theorem | states |
|---|---|
| `ConfigInvariance` | `Spec => []IInv` |
| `GivenAlwaysStays`, `DirAlwaysConfigured`, `TypeCorrect` | `GivenStays`, `DirIsConfigured`, `TypeOK` of run `configload` |

`GivenStays` speaks of the end of a load only. `GivenRemembered` carries it from
one load to the next: what was given out is in `config.json`, or in the write
under way. `OriginRemembers` carries a value from its line to the end of the
load, and `CacheKeeps` says that the map at hand has all that the file has, so
that truncating and writing the file loses neither. `NextFileKeeps` is the end
of a file, for both ways to reach it.

`TypeCorrect` proves `TypeOK`, relative to `IInv`: every value in every map was
generated by then, or is fixed (`MapsStay`), and nothing is left to load behind a
load.

In `ResponseProof`, for any requests, resources, lists of origins and sizes of
bodies, from `TypesAssumption` and `SizesAssumption` of `Response`:

| theorem | states |
|---|---|
| `Invariance` | `Spec => []ResponseInv` |
| `RangesAreExact`, `LengthsAreTrue`, `CachesKeepApart` | the three invariants of run `response` |

Each step of the shaping has a lemma on what it leaves of a response (`MadeShape`,
`CorsShape`, `RangedShape`, `CompressedShape`, `WithoutBodyShape`,
`WrittenShape`); `SpanBounds` is the arithmetic of ranges, for any numbers.
`SlicedShape` and `EncodedShape` put them in the order of the code and come to
`Shaped`: what is true of any response before `finalize_head`, and which lengths it
may have by then: none, that of its body, or the handler's own. `HeadIsGet`
compares the two methods from there. The invariant adds `TypeOK` and `Storable`
to the three properties: `CacheKeepsApart` speaks of what a cache hands on only,
and needs that what it stored was marked by `Vary` and has a true length.

In `RequestReaderProof`, for any streams, values of sizes and lengths, limits and
sizes of a read (`StreamsAssumption`, `SizesAssumption`, `LimitsAssumption`):

| theorem | states |
|---|---|
| `Inductive` | `Spec => []IInv` |
| `TypeCorrect`, `ReadsAsSent` | `TypeOK` and `ReadsWhatWasSent` of run `requestreader` |

`ReadsWhatWasSent` compares the reader with the reference at the end of the
buffer, where the reader has not looked yet. `IInv` compares them at the cursor,
where they are in the same place (`Stands`): between two requests, in a body with
so much of it left, or in a chunk, a line or trailers (`AtHead`, `AtBody`, `AtSize`,
`AtData`, `AtTrailer`). From there the `Along...` lemmas take the reference over
what is in the buffer, by induction: `Waiting` uses them for a reader that needs more, and
`HeadEnd`, `BodyEnd`, `ChunkEnd`, `SizeEnd` and `TrailerEnd` for one that has found what it
looked for, so that each action has one lemma of the reference beside it. A refusal
is one the reference has made there or earlier, and it stays (`ReferenceGrows`). That
the reader is ahead of nobody is `AgreePrefix`.

Induction is over sets of numbers, since the induction theorems of the library
take an operator as a parameter, which the provers at hand do not instantiate:
`Along` and `SetInduction` follow from `WFMin` of the library, and so does that
`Min` is what it says (`MinIs`). In `WsLoopProof`, `Recursion` gives from them that a
function which is defined by recursion along a sequence exists, and `AlikeAlong`
that two such functions agree as far as their steps do: so `SizeOf` and `Reassembled`
are equal to what their definitions say; and likewise `Retained` of `DataStore`,
`Reference` of `RequestReader` and `Split` of `Routing` (`RetainedIs`,
`ReferenceSteps`, `SplitIs`).

The invariants of `WsLoop`, `WsHub`, `DataStore`, `Dispatch`, `ConfigLoad` and
`RequestReader`, and `RoutesFollow` and `EndpointsFound` of `Routing`, were checked by TLC on the instances of section 3 before they were proved.

Only model-checked: liveness (`ShutdownCompletes`, `DrainConverges`,
`SendHeldByDeliveryOnly`, `BroadcastCompletes`, `ReturnClosesConnection`), for
which there is no backend here beyond propositional steps, and which needs
`ENABLED`; and the invariants of `Actions`, which compare two computations over the
tree of a schema that are both written with `RECURSIVE` operators, for which `tlapm`
has no SMT backend.

## 6. Not modelled

Each with its reason in `PROJECT.json`, too.

- WebSocket client (1.7): one task on one stream, whose `receive` reads to the
  end of a frame before it does anything else; what it meets is up to the far
  side, and the frame format is that of 1.4.
- What deflate and inflate make of a payload (1.6), and the sizes they need:
  `flate2` is external, and its output sizes would be an assumption of the model.
- FileStorage (1.11): single file operations under fresh ids, with nothing
  between two of them but the file system; its writes can be torn as those of
  1.10 can.
- Multipart forms: every property would be about positions of bytes.
- PostgreSQL access and `QueryBuilder`: an external library, and text.
- Cookies: formatting, and signatures of an external library.
- In 1.15, rules built by calls, schema references and format scanners; in 1.12,
  the environment, typed values and special names: data that no property here
  tells apart.
- Hooks, build discovery, macros, utilities, example applications, and the
  sources that are not compiled.
