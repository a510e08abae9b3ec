# A verification project for cpp_unit

TLA+ models of the parts of `cpp_unit` that have logic of their own, checked by
TLC on small instances and proved about with TLAPS for every instance.

`cpp_unit` is a collection of C++ programs. Each (`net`, `any`, `ffmpeg`,
`opencv`, `leet_code`, ...) registers functions under a name, looks one up by
the name given on the command line and calls it once. What is concurrent or
event-driven in them carries the project: two HTTP servers on the vendored
mongoose, a video player, and `httplib`, whose client most of the functions use.
The sequential functions that keep state or talk to a service that can fail are
modelled too.

- [1. Inventory](#1-inventory)
- [2. Modules](#2-modules)
- [3. The models, against the code](#3-the-models-against-the-code)
- [4. Runs: what each shows, its bounds](#4-runs)
- [5. Fairness](#5-fairness)
- [6. Proofs](#6-proofs)
- [7. Findings](#7-findings)
- [8. What is not modelled](#8-what-is-not-modelled)
- [9. Plan](#9-plan)

`PROJECT.json` lists the components, the runs, the mutants (for every property a
plausible bug of the code that breaks it), the map from definitions to source
lines, the hazards and the theorems.

## 1. Inventory

Paths are below `src/`.

| Component | State | Operations | Interacts with | What makes it correct |
|---|---|---|---|---|
| **Thread pool HTTP server**, `HttpWithMongoose` (`net/network.cpp:432-531`, copied in `any/anything.cpp`) | a thread pool; the connections of the mongoose manager, each with flags in one byte of bit-fields, receive and send buffers | `Start` (listen, poll for ever), `handle_event` (post a request to the pool), the lambda that answers it, `Dispath` | poll thread and pool threads share the connection through a raw pointer, without a lock | no use of a freed connection; one request in progress per connection; every client gets the end of its answer |
| **Static and API server**, `mongoose_minimal_static_server` (`net/network.cpp:661-785`) | the connections, the callback in charge of each (`http_cb` or `static_cb`), the open file | `EventDispatcher` and one handler per route: directory, hello, image, video, file, zip | mongoose calls it from `http_cb`; it calls back into mongoose to reply or to serve a file | responses in request order and unmixed; one file handle per transfer, given back; drained connections end; buffered requests are handled |
| **mongoose** (`third_party/mongoose`) | manager, connections, buffers | the poll loop, HTTP parsing, file serving | both servers | its server path, which the two servers run, is modelled as part of them |
| **RTSP player**, `ffmpeg_unit::Media` (`ffmpeg/MediaPlayer.hpp:19-170`) | ffmpeg's context and decoder, `exit_flag`, the play thread, the current image | `Open`, `Play`, `Close`, `GetImage`, the destructor | caller and play thread share `exit_flag` and the image, without a lock | a picture stays alive while it is held; nothing is freed under the thread; `Close` returns |
| **HTTP client**, `ClientImpl` and `SSLClient` (`include/httplib.h`) | one socket with its TLS session, who uses it and how often, the flag that it be closed | `send` with its redirects, authorizations and second try; `stop`; connecting, proxies, certificates | the threads that send, a thread that stops, the peer | no descriptor is lost or used by another; the asserts hold; every request returns |
| **HTTP server**, `Server` and `ThreadPool` (`include/httplib.h`) | listening socket, running flags, queue, workers | `listen`, `stop`, `wait_until_ready`, the queue, keep-alive | listener, workers, stoppers | a connection has one owner and ends; a socket is closed once; a stop ends `listen` |
| **Messages of httplib** (`include/httplib.h`) | what was read and written of one message | ranges and responses, chunked and plain content, forms, routes | the workers, and the network that cuts and ends streams | what was asked for is answered; nothing cut is taken for whole |
| **Upload and push client** (`net/network.cpp`, `any/anything.cpp`) | none kept | upload an image, get a token, push a record | HTTP services | no record without its image; a repeat only after a close |
| **Juansheng speaker session** (`any/anything.cpp:2341-2913`) | token, user id | login, queries, play, cancel | HTTP service | one session; a 0 means what was asked is done |
| **Recording and image to video** (`ffmpeg/test_ffmpeg.cpp`, `any/anything.cpp`) | ffmpeg structures of a call, files | one function each | ffmpeg | every early return releases what is open |
| **Interruptible sleeper** (`any/anything.cpp:1914-1959`) | flag, condition variable | `wait_for`, `interrupt` | its threads | an interrupt reaches everybody |
| **Tracker** (`any/anything.cpp:2010-2073`) | list of targets, an R-tree | add, update, query | Boost | index and list agree |
| **Base64** (`any/anything.cpp:1326-1364`, `net/network.cpp:20-60, 633-659`, `include/httplib.h:2365-2391`) | accumulator and text | encode, decode, save | OpenSSL | text and picture correspond |
| **Watering plants** (`leet_code/leet_code.cpp:34-84`) | two indices, two cans, a count | one loop | none | the count is the fewest refills |
| **Command dispatch** (`main` of each program) | the table | look a name up, call it | all of the functions | `main` returns |
| ZeroMQ, TIPC samples | sockets | send, receive | two processes | start order does not matter |
| Face recognition, image, text, date and language samples | none | one function each | OpenCV, files | no control logic |
| Vendored libraries | | | | third party |

The hard behaviours, each at its line in `PROJECT.json` ("hazards"):

- *Threads without locks.* A pool thread appends to a send buffer the poll
  thread drains, and assigns a bit-field in a byte the poll thread assigns too;
  the play thread replaces and then fills the image a caller copies.
- *Lifetimes.* A job holds a raw pointer to a connection that a client can make
  the poll thread free; `stop()` shuts a socket down that a request uses.
- *Two threads between two tests.* `stop()` of the server tests a flag, asserts
  on the socket and takes it; two of them interleave.
- *Requests inside requests.* A redirect, an authorization or a second try
  calls `send` inside `send` on the same socket and the same counters.
- *Callbacks that change callbacks.* `static_cb` takes a connection over in the
  middle of the loop of `http_cb`.
- *Changes noticed across an event.* `mg_mgr_poll` compares `is_resp` before and
  after one event to learn that a response ended; a response that ends elsewhere
  goes unnoticed.
- *Services that fail half way.* An answer that is lost, late, garbled or lacks a
  field, at each request of a program.
- *Streams that are cut.* A chunk, a delimiter or a length in two reads.
- *Order of calls.* `Play` twice, `Play` after `Close`, `Play` after a failed
  `Open`.

The list keeps to hazards some property is about. These have none: the length
that `mg_http_reply` patches into bytes that may have been sent or moved
(`third_party/mongoose/mongoose.c:1563`), a pool of `hardware_concurrency() = 0`
threads (`net/network.cpp:452`), a listen whose result is not looked at (`:464`),
the packets the player's `continue` leaks (`ffmpeg/MediaPlayer.hpp:113`), a
redirect to another host that ends in 401 and is authorized at the first
(`include/httplib.h:7106`), an epilogue behind a form (`:4531`), and the places
of section 7 where the code fails in the first place.

## 2. Modules

| Module | Models | Extends or instantiates |
|---|---|---|
| `HttpExchange` | the abstract promise of an HTTP/1.1 server on its connections | |
| `StaticServer` | the single-threaded server with mongoose's loop, its clients and the network | instantiates `HttpExchange` under a refinement mapping |
| `PoolServer` | the poll thread, the pool and the clients of `HttpWithMongoose` | |
| `MediaPlayer` | the player's caller and its play thread | |
| `HttpClient` | `send` and `stop` of httplib's client, all threads | |
| `ClientConnect` | what lies below its connecting: addresses, time limits, proxy, TLS | |
| `HttpServer` | listener, queue, workers and stoppers of httplib's server | |
| `ServerRequest` | one turn of `process_request`: ranges, handlers, the response | |
| `ContentTransfer` | a content written by one side and read by the other | |
| `MultipartParser` | a form, serialized and parsed read by read | |
| `PathMatching` | routes with parameters, and paths that stay in their directory | |
| `SpeakerSession` | the session class, the programs that use it and the service | |
| `UploadAndPush` | three requests with their second tries, and the services | |
| `MediaTools` | the ffmpeg tools: what is taken, given back and left | |
| `Sleeper` | a flag, a mutex, a condition variable and the threads | |
| `Tracker` | the list of targets and the index | |
| `Base64` | three encoders and decoders | |
| `WateringPlants` | `code_2105` with its literals made parameters | |
| `CommandDispatch` | `main`, and what it calls | extends `WateringPlants`, instantiates `SpeakerSession`, `UploadAndPush`, `MediaTools`, `Sleeper`, `Tracker`, `Base64` |
| `MC...` | instances for TLC | the module named; `MCHttpClient` and `MCHttpServer` instantiate the modules of the messages and connections below them, `MCPoolLive` two instances of `PoolServer` |
| `...Proofs` | theorems and their proofs | the module named and `TLAPS` |

Each component is one module, since the parts of one component (dispatcher and
event loop; poll thread and pool) meet in single callbacks. A module that is
only instantiated states what it asks of its constants as `Constants`, which the
module above assumes. Mutants stand in the component's module just before the
definition they replace, with a comment that says "Mutant"; no action uses them.

## 3. The models, against the code

### StaticServer
One step is one callback or one socket call of `mg_mgr_poll`; clients and the
network may move between any two. `pc` is the position in the loop, `todo` the
rest of the list it walks, `ret` the place `http_cb` was called from.

| Model | Code |
|---|---|
| `Iotest` | `mg_iotest`: what epoll reports; a reset goes to `mg_error` |
| `PollEvent` | `MG_EV_POLL`, which tops up a file transfer, and the comparison of `is_resp` after it |
| `ReadNothing`, `ReadData`, `ReadFails` | `read_conn` and `iolog` |
| `Deliver`, `HttpCbReturns` | one turn of the loop of `http_cb`; a request is complete by its length, or, on `MG_EV_CLOSE`, as it is |
| `Dispather`, `StaticServe`, `Image`, `Video`, ... | `EventDispatcher` and the handlers: what they put in `c->send`, and what becomes of `is_resp`, `is_draining` and the callback |
| `StaticCb`, `RestoreHttpCb` | `static_cb`, `restore_http_cb` |
| `WriteNothing`, `WriteData`, `WriteFails` | `write_conn` and the `MG_EV_WRITE` it fires |
| `KeepConn`, `CloseConn`, `FreeConn` | the bottom of the loop and `mg_close_conn` |
| `AcceptConn`, `NoAccept` | the listener, which is last in the list and puts a new connection first |

Data: a request is one or two tokens (whole; cut inside its headers; cut inside
its body; malformed), a response a header token with body tokens or pieces of a
file. `send.size` and the socket buffer are counted in tokens. Outcomes that the
file system decides (listing, 404, 304, empty file) are a free choice, and so is
the length of an answer to an unreadable file, which the code takes from an
uninitialised `data.len`.

`HttpExchange` is the abstract specification: a stream of responses per
connection, in request order, each begun by one header and whole before the next
begins; a close may cut the end off. `ExchangeSpec` maps the bytes sent and
still buffered to the stream, and `is_resp` with the last request handed over to
the response in progress.

### PoolServer
Two kinds of thread. The poll thread steps as in `StaticServer`, without file
transfers. A pool thread runs the lambda of `handle_event`: it takes a job,
prints the head of the reply, its body, clears `is_resp` and sets `is_draining`.
The model has the data races of the code:

- `bits` is the byte that holds `is_resp`, `is_draining` and `is_closing`. To
  assign one the compiler loads the byte, changes the bit and stores the byte. A
  thread's store starts from the value now in memory or the one its previous
  step left it with (`seen`, `view`): every outcome of a load that happened
  at any time since that step which differs in what the other side did.
- `len` is `c->send.len`, read, changed and written by both sides in the same way.
- `Slots` are heap addresses. `free()` makes a slot available to the next
  `accept`; a job keeps its slot whatever lives there.

A client that is no deviant sends one request and waits for the close, as
`curl` does: the reply's header line runs into its `Content-Length`, so only the
close ends the response. Deviants pipeline, send what does not parse,
half-close and reset.

### MediaPlayer
One action per method of `Media` and one per step of the play loop. `Close` sets
the flag and then waits (`CloseReturns`); the destructor is a `Close` that goes
on to free (`Destroy`). `Open` has one outcome for each of its returns, and two for
the last: the result of `sws_getContext` (`:84`) is not looked at, so `scaler` may be
missing after a true `Open`, and `Paint` then crashes. The
assignment `image = cv::Mat(...)` is three steps, since OpenCV releases the old
buffer before it replaces the pointer: `Create`, `Release`, `Assign`; `Paint` is
the conversion in place. `GetImage` loads the pointer, `Copied` counts the copy.
`refs` counts the references of each buffer. A pointer to what is not there
ends the program as `crashed`, an exception as `terminated`, a count taken
in freed memory as `undefined`.

### HttpClient, ClientConnect
`request_mutex_` is recursive and held for a whole `send_`, so one thread at a
time has a stack of calls, `frames`; `pc` is where the last of them is. One step
is one block under `socket_mutex_` or one exchange with the peer. The descriptor
table, `kernel`, is what the operating system makes of each number: a closed
number may be given to the next socket at once, so a request that still uses it
would be using somebody else's (`OwnSocket`). `broken` is set where an `assert`
of the code fails. `ClientConnect` refines the two outcomes of `Connect`: each
address of the host, `connect` with its time limit, `CONNECT` to a proxy and its
one repeat with a password, the TLS handshake and the verification against
certificates that are loaded once per client. `HttpClient!ConnectFails` has both
kinds of its failures: nothing to answer with (`Unconnected`), or the response of a
proxy that refused, which `send_` returns as a result with the error
`ProxyConnection` beside it (`ProxyRefuses`); that response may redirect or ask for
authorization like any other.

### HttpServer and what its workers do
Three kinds of thread: the listener (`listen_internal`), the workers
(`ThreadPool::worker` with `process_server_socket_core` in it) and threads that
call `stop`. Each load of an atomic (`svr_sock_`, `is_running_`) is a step, each
critical section of the pool is a step, `notify_one` and `notify_all` are steps
outside it as in the code. A listening socket is the number of the `bind` that
made it, so that a stop of an old one can be told from a stop of the next.

`ServerRequest` follows `process_request` from the request line to the
response: `range_error` with its overlaps, the handlers of the repository's kind
(content set, provider, length unknown, file), the second look at the ranges
when the content is written. The handler of `Expect: 100-continue` leaves any
response or none; the status it returns is only switched on (`include/httplib.h:6688`),
and a refusal without a status of its own in the response ends in an assert
(`unanswered`). `ContentTransfer` has the writing loops (length,
without length, chunked, where a piece of no bytes ends the loop) on one side,
`SocketStream` and the line reader on the other, and a network that delays and cuts. `MultipartParser` and `PathMatching`
work on characters, one definition per step of the parser's state machine and of
the two scanning loops.

### The programs
`CommandDispatch` has one table for the programs. The function called runs under
its own module's steps; the others stay where they begin.

- `SpeakerSession`: one action per method of the class. A method posts a request
  with the credentials of the moment; the service performs or refuses it, also
  after nobody waits any more; the answer may be lost, may not parse, or may lack
  a field. A good answer without a list is a page of no items. `Input` is the wait
  of `test_juansheng_class` for the user. The token and user id are named by the
  login they come from.
- `UploadAndPush`: the three requests in order, each with httplib's second try. A
  connection that fails is a -1, or a crash where httplib reports no error
  (`Crash`).
- `MediaTools`: `Setup` is the list of calls of each tool with what each takes;
  `OnFailure` is what the code does when one fails (`return`, `goto`, carry on,
  throw); then the tool's loop. The results of packets written and of the trailer
  are not looked at: a film may end `spoilt` with a good result.
- `Sleeper`: each statement around the mutex is a step; a wait can end by a
  notification, by its time and for no reason.
- `Tracker`: the index is a bag of entries, which is what an R-tree is to its
  callers; `nearest` returns the entries closest to a point.
- `Base64`: httplib's accumulator is an int, which wraps: it has one of `Ints`
  values; OpenSSL's BIO is external, defined by the bits.
- `WateringPlants`: one step is one turn of the `while` loop; `LastPlant` and
  `NoPlantLeft` are the two outcomes of the `if` behind it. The reference,
  `FewestRefills`, enumerates every set of plants before which a gardener could
  refill.

## 4. Runs

| Run | Properties | Shows | Bounds, and why they are enough |
|---|---|---|---|
| `static_requests` | `TypeOK`, `TransferOwned`, `LeakOnlyOfLateRequest`, `MissedOnlyAfterTransfer`, `DrainingEnds`, `RequestHandled` | who owns the connection, its file and its buffered requests; drained connections end and complete requests are handled | one connection (they share no state but the list), two requests in every shape and to every kind of route; two pieces, a buffer of two: a transfer that needs several turns, ends on either event, and has a request behind it |
| `static_pipeline` | `ExchangeSpec`, `NoTruncatedTransfer`, `ListIntact` | refinement of `HttpExchange`; a drain does not cut the transfer behind it; the list survives deletion and insertion while it is walked | one client with three requests: a transfer with a predecessor and a successor; `Pair`: two clients with one request each |
| `pool_patient` | `TypeOK`, `JobsAlive`, `GeneratingMarked` | with clients that wait, no dead pointer and no unmarked reply, whatever updates are lost | two clients, two slots, two threads: both kinds of thread on one connection while another pair is busy; symmetric in all three |
| `pool_live` | `Answered` | lost updates and stale pointers keep nobody's connection open: neither that of a client that waits nor that of one that pipelines, half-closes or resets | two parts (`MCPoolLive`): two clients that wait and one thread, so that jobs queue up behind each other; one client that connects once and two threads, so that jobs outlive its connection and write to it after it was freed. In the second no slot is used again |
| `pool_pipelined` | `GeneratingMarked`, violated | the finding on `is_resp`, section 7 | one slot, two threads, one client with two requests |
| `player_safety` | `TypeOK`, `HeldAlive`, `CarefulIsSafe`, `FreedUnused`, `AtMostOneMore`, `Stops` | what a caller may rely on, in every order of calls; `Close` and the destructor return | three buffers: the member's, the caller's and the one being made are all that are in use at once |
| `player_picture` | `WholePicture`, violated | the finding on `GetImage`, section 7 | same |
| `programs` | `TypeOK`, `GreedyIsOptimal`, `GoodMeansDone`, `NothingHalf`, `IndexInStep`, `EncodesAsBase64`, `InterruptHeeded`, `ProgramsEnd` | what each program leaves behind and what its result means | see below |
| `http_client` | `TypeOK`, `AssertsHold`, `OneSocket`, `AllOrNothing`, `NothingStays`, `EverythingReturns` | one socket for requests inside requests, stops and second tries; a connection is made whole and trusted or not at all | see below |
| `http_server` | `ConnectionsOwned`, `SocketOwned`, `RightAnswer`, `ContentWhole`, `RightlyRead`, `StopsEnd` | who has a connection and who closes a socket; the right bytes of the right content, and never thrice of it; nothing cut is taken for whole, and a form comes out as it went in, however it is cut; routes and files are what the request named | see below |
| `path_longer` | `LongerRefused`, violated | the finding on routes, section 7 | as `http_server` |
| `tracker_stale` | `FoundNowhereElse`, violated | the finding on the index, section 7 | three targets, three places, two moves |

Deadlock is not checked: clients stop when their requests are used up, callers
when what they called has returned, the servers and the index when the bounds on
listens and moves are reached.

Properties state what the code gives and no more; what it does not give is named
beside them, in a property of its own that section 7 lists. So a careful caller of
the player is safe but for a missing scaler (`CarefulIsSafe`, `OpenSuffices`), lists
are whole or empty (`WholeOrEmpty`, `ListsArrive`), a recording's trailer is tried
(`TrailerTried`, `FailureIsSaid`), a response comes with no error but a proxy's
(`GoodHasNoError`, `ResponseHasNoError`), no assert of a response fails but that on
the status of a refusal (`AssertsHold`, `RefusalAnswered`), and a route matches what
has its segments and nothing else but for one slash (`MatchesBySegments`,
`LongerRefused`).

`MissedOnlyAfterTransfer`, `RequestHandled` and `LeakOnlyOfLateRequest` state
exactly what mongoose gives and no more. A request buffered behind a transfer
that ended on `MG_EV_WRITE` waits until more data arrives, and a file opened for
a request delivered on `MG_EV_CLOSE` is never closed; the properties say that
nothing else is missed or leaked. `Answered` is about a client that has sent a
whole request; for a deviant it says that the server closes its connection.

**`programs`.** The name given at the start selects a function; one that is not
called begins in one way only, so the run is the sum of its parts. The rows of
`code_2105` are all with up to six plants of 1..3 and cans of 3 or 4: both
gardeners refill twice, meet at a plant or cross. The lists of the speaker have
two entries, so that a page can be a half one; a free caller of the class makes
four calls, enough for a login, a failed login and a request that follows it. Two
tries are what httplib makes. Four images and three lost packets let a directory
be empty, end early and end in the middle of a loop. Three threads sleep. Three
targets move twice, once back to where they were. Pictures have up to five bytes,
which is every rest modulo three after a whole group, in an accumulator of 16
bits that overflows after the second byte.

**`http_client`** has three parts, chosen in the first state. `nested`: two
threads with one request each, one redirect and one authorization inside it,
each with its second try, two stops at any time, TLS and no keep-alive. `plain`:
the same with a connection that is kept and nothing inside a request, where
`NothingStays` is about `stop()`. Two descriptors are enough, as a third would be
new to everybody. `connect`: two addresses, every setting of TLS, proxy, password
and verification, twice in a row, so that certificates have been loaded once.

**`http_server`** has six parts. `stops`: two connections, two workers, a queue of
one and two threads that stop a server that is ready; `accept` fails only for
want of the socket. `live`: one connection with two requests, no bound of the
queue, a server that listens twice and whose `accept` may fail at any time, and a
stop that does not wait until it is ready; the stop ends that listen. `request`:
every header of one range and of two, and longer ones that overlap, overtake or
leave a content of five bytes or none; the handler of `Expect` lets it go on, refuses
with a response or without. `content`: four bytes in pieces of at most
two through a buffer of three, in each of the three codings. `form`: up to two
parts that begin, end or go on like a delimiter, in every cut into reads.
`path`: eight patterns with parameters in every position, against every path of
up to six characters out of `/`, `.` and `a`.

Three constants keep a part within what the code is good at, and section 7 has
what happens without them: `FirstWhole` (the first boundary of a form is not cut),
`RangedRefusals` (a handler does not refuse a request that has ranges) and
`AcceptFails` in the part `stops`.

## 5. Fairness

- `StaticServer!FairSpec`: the loop `for (;;) mg_mgr_poll(...)` keeps turning,
  and a client that keeps its connection keeps reading. Without the latter no
  server can end a drained connection; a reset also ends it.
- `PoolServer!FairSpec`: the poll loop keeps turning and every pool thread is
  scheduled. The threads run preemptively and hold no lock.
- `MediaPlayer!FairSpec`: the play thread runs, and a caller in `join()` goes on
  when the thread has ended. It includes that `av_read_frame` returns, which the
  code does not ensure: it sets no timeout on the stream.
- `HttpClient`: the request that holds the mutex takes its steps. Every wait in
  it has a time limit (connection, read, write), after which it fails. Nobody is
  promised the mutex: what returns is the request that has it, and each thread
  sends a bounded number of them.
- `ClientConnect`: every wait has its time limit, as above.
- `HttpServer`: each thread runs, and `accept` returns once its socket has been
  shut down. A worker's wait for another request ends with the keep-alive
  timeout. Nothing makes `accept` return before a stop.
- `ContentTransfer`: the reader reads what has come and notices the end of the
  stream; the writer is promised nothing.
- `DispatchFairness`: `main` goes on, and the function it calls runs under the
  fairness of its module. The speaker's request is answered or lost in the end
  (httplib's timeouts), and so is each request of the upload. The tools of ffmpeg
  take their next step and the recording's time passes. Two conjuncts are
  assumptions the code does nothing for: that the user answers `std::cin >> music_id`
  (`any/anything.cpp:2892`), and that a camera which is recorded goes on sending
  packets. `ProgramsEnd` is about programs whose user and camera do; it does not
  show that a recording ends without packets, and it does not. A sleeping thread takes a step it can take; who gets the mutex is
  open, and no wait has to end by its time, so that `InterruptHeeded` is owed to
  `notify_all` alone.
- `WateringPlants!Spec` lets the function go on to its end.

No fairness is assumed of what a client or a caller chooses to do.

## 6. Proofs

TLAPS checks the following for every value of the constants that satisfies the
named assumptions: the constants are naturals or sets of the right kind, a null
value is not an element, a pool has a worker. Where a module is only
instantiated its `Constants` is a hypothesis of the theorem. In every module the
argument is the same: an inductive invariant holds in `Init`, each action
preserves it (a lemma or a step per action), and it implies the property.

**CommandDispatchProofs.** `TypeCorrect`, `GreedyIsBest`, `GoodResultsAreTrue`,
`NothingIsHalfDone`, `RecordsAreRight`, `IndexStaysInStep`, `PicturesAreEncoded`,
`SleepersSleepOn`, for lists, pictures and rows of any length and any number of tries, images, targets
and threads. `main` runs one function and leaves the others where they begin, so
the invariant, `DispatchInv`, is one for each function side by side:

- `WateringInv`: the levels stay natural numbers only because no plant needs more
  than a can holds, and the indices stay inside the row because the loop moves
  both at once while `posa < posb`;
- `GreedyInv`: of each gardener's share so far there is a plan with as many refills
  as the code has made that leaves as much in the can (`Reached`), and no plan has
  fewer, or as few and leaves more (`NoBetter`). The second half of `NoBetter` is what
  makes it inductive: without it a plan that is level with the code now could save
  the next refill. A turn of the loop makes both shares longer by a plant, so the
  induction over the row is that of the loop; a plan for the longer share is one for
  the shorter when the last stop is taken out (`PlanShrinks`);
- `TypeInv` of the speaker session, from its proofs below;
- `UploadInv`: a request is sent again only after the close of every one before it
  (`TriesOK`), and the token and the record are asked for only with the image
  uploaded (`StepsOK`); so a second record needs a close after the first;
- `ToolInv`: what is held is given back at an end whatever step failed. It says
  how far the setup has come in each phase (`ToolSteps`), which step of it opened
  what is held (`ToolHolds`) and how far the film is (`ToolFilm`): without these
  a failure could be followed by an end that looks as if nothing had been opened;
- `Sleep!TypeOK`: whoever holds the mutex is at a statement between its lock and
  its unlock. That nobody goes back to work early needs no more than that only
  `interrupt()` sets the flag;
- `IndexInv`: an id is given once (`IdsOnce`) and the index knows no other
  (`IndexKnows`), so a new target's entry is not there yet; a moved target is
  entered under the place it has now, which was taken out before;
- `PictureInv` and `DigitsInv`: the bits that wait and the digits pushed account
  for every bit that came; the digits pushed are those of the base64 of the bytes so
  far, and the accumulator is congruent to the last byte modulo 256. That is all of
  it that counts: a digit is six bits of two bytes that follow each other
  (`DigitOfWindow`), wrapping changes an int by a multiple of 2^14 (`WrappedIs`, from
  the one assumption on `Ints`), and the ten lowest bits after a shift by eight are
  as if nothing had been kept before (`Accumulated`). A digit whose bits have all
  come stays when the picture grows (`DigitStays`). What is decoded takes no
  induction: a byte is eight bits of the digits (`ByteIs`), which are the bits of
  the picture one by one (`BitOfSix`), and the padding is what the decoder leaves out.

**StaticServerProofs.** `TypeCorrect`, `TransfersAreOwned`, `ListStaysIntact`,
`LeaksAreLate`, `OnlyTransfersMiss`, `TransfersAreWhole`,
`ServerImplementsExchange`, for any number of clients, requests and pieces.
The types need to know where the loop is: `cur` is the head of `todo`, and only
between the top and the bottom of the loop body is `todo` not empty (`Position`).
`TransferGuarded` and `HandleBalance`, the two halves of `TransferOwned`, are
preserved together (`ResponseOK`):
a handler is called only when `is_resp` is clear, so by the first the callback is
`http_cb`, so by the second no file is open when `ServeFile` opens one.

`LoopInv` is about what a visit leaves behind. The list has each live connection
once (`ListOK`), so has what is left of the round, but for a connection being
closed (`VisitOK`): `ListDelete` of an element of a list without duplicates
leaves the others. After `MG_EV_POLL` a transfer has something in the buffer
(`FilledOK`), and `Closes` wants an empty one. Whoever has a complete request and
no response in progress is with `http_cb` just now or has had a transfer end on
`MG_EV_WRITE` (`OfferedOK`). A file on a closed connection came late (`LateOK`).

The refinement needs to know that responses come in the order of the requests.
What a client has sent, the part that is read and the part on its way taken
together (`Input`), is in order and after the request handled last, with at most
two parts of one number side by side (`Ordered`), and a part that is owed
completes the last (`Owed`); a read moves parts and leaves `Input` as it is, a
delivery drops one whole request from its front. What is produced, sent or
buffered, is for requests already handled (`ReplyOK`); a write moves it and
`static_cb` adds to its end. Each step is then one of a few kinds (`StepKinds`):
it leaves a connection alone, opens it, goes on with its response, begins one,
closes it or ends what is closed; each kind is a step of `HttpExchange` or a
stutter.

**PoolServerProofs.** `TypeCorrect`, `JobsStayAlive`, `PatientMarked`. The types
need `LoopInv` (the poll thread is at a slot exactly in the loop body) and
`Conserved` (what is on its way and what is buffered is at most what the client has
sent, so buffers are bounded). The other two rest on `PatientInv`, which holds
while no client has deviated:

- a connection has at most one job, queued or with a thread (`OneJobEach`);
- while the job is not done its connection is alive, its client's one request
  has been taken (`Spent`), and neither the byte of flags nor the copy the thread
  may have kept of it is marked draining or closing (`JobsOK`); until the reply
  ends `is_resp` is set;
- only a connection whose request has been taken is ever marked draining, and
  `is_closing` is set only by the poll thread while it frees the connection, in
  the byte as well as in the stale copy the poll thread keeps (`EndingOK`).

So a connection is freed only when the last step of its only job has marked it,
and no second job can come. `Patient` says what such clients do not do.

**MediaPlayerProofs.** `TypeCorrect`, `PictureStaysAlive`, `CarefulCallerSafe`,
`FreedStaysUnused`, `OneMoreFrame`. The core is `Counted`: the references to a
buffer are those of the member image (unless it has just been released), of the
caller's copy (once counted) and of the new frame, which `FrameOK` shows are never
the same buffer. `OpenOK` links a true `Open` to an open context and decoder, and
says nothing of the scaler: what is proved for a careful caller is that only its
absence, when a frame is painted, can end the program. `LateOK` says that a frame shown after `Close` is followed by a look at the flag.

**HttpClientProofs.** `TypeCorrect`, `AssertionsHold`, `TheSocketIsOne`,
`NothingIsKept`, for any number of threads, requests, redirects, authorizations
and stops; `NothingStaysBehind`, `ConnectionsAreWhole`. The counter of requests in
flight, which a thread changes for itself
and a `stop()` reads, is the depth of the stack of calls, give or take the last
call's two ends; and all calls are of the mutex's owner (`NestOK`). So a `stop()`
that sees none in flight is alone with the socket, and one that sees some leaves
the close to the request. `SocketOK` says that the one descriptor in use is the
client's and a request that writes or reads has it; `ErrorOK` at which steps the
error may still be that of an attempt given up, and that a response has none but
`ProxyConnection`; `FollowOK` that a redirect in
progress had one left, without which the types would not hold. For
`NothingStaysBehind` a client that keeps its connection has an invariant of its own
(`PlainOK`): a stop during a request leaves the wish to close with it until it
returns.

`ConnectionsAreWhole` is about what lies below, for any number of addresses and of
connections one after the other. `MadeOK` says at each step whether there is a
descriptor and a session, and that from the proxy on the descriptor is blocking and
no error of an address before is left; `PlaceOK` which settings lead to which step,
and what has been checked there. The certificates are loaded once for a client: an
invariant of `certs` and `trusted` has to reach from one connection to the next.

**HttpServerProofs.** `TypeCorrect`, `ConnectionsAreOwned`, `SocketsAreClosedOnce`,
`TheSocketIsOwned`, `ContentIsWhole`, `TransferIsWhole`, `AnswersAreRight`. `OwnerInv` says of each
state of a connection whose hands it is in: the listener has the accepted one
(`HoldingOK`), the queue has each queued one at one place (`JobsOK`), the workers
have the served ones, each a different one (`WorkersOK`). `LifeOK` says that a worker leaves only an empty queue that is
shut down and that none is queued after, which makes the end of a `listen` the
end of its connections. A listening socket is closed once since a stop takes it
out of `svr_sock_` in one exchange (`SocketOK`): two stops never have the same
one, nor one that is still in its place. This holds as long as `accept` does not
fail while the socket is there. `ReadyOK` adds, for a server that listens once,
that who has waited until it is ready finds it past its `bind`; the run checks
the same instance.

`ContentIsWhole` is about contents of any length, cut into pieces of any size, in
each of the three codings. That what is received is a beginning of the content is
not inductive: one must know that what is on its way fits on to it. `OnItsWay` says
that the wire is a run of the reader: taken item by item (`Leads`) it goes from
where the reader stands (`Here`) to where the writer is between two writes
(`Between`), or, once the stream is cut, to anywhere. A write adds a way at the end
(`WayJoin`), a cut leaves the beginning of one (`WayCut`), a read takes one off the
front (`WayHead`). That a piece of bytes is a way needs an induction over its
length, which goes by its least counterexample (`Least`, from the library's
theorem on well-founded relations).

`AnswersAreRight` is about any ranges of contents of any size. A reply is right by
itself for the method and the ranges asked (`Right`): its pieces are the bytes of
the ranges (`RangeIsExact`, case by case of which end is left out), or all of the
content. `TurnInv` adds that before routing nothing of a response is prepared,
that the ranges kept are those of the header or none, and that at most an interim
reply was sent (`Underway`); otherwise an error found early could come out of
content or ranges left from before. That overlapping ranges never make an answer
of thrice the content follows range by range (`LoadGrows`): those so far that
overlap none before them cover at most the bytes up to the end of the last one,
since they are in order, and each of the two that `range_error` lets overlap is one
byte short of all, since its first byte is after that of another (`Loaded`). The sum
is a recursive function of the model; that there is one is shown from its least
counterexample (`SumsExist`). The theorem's hypothesis `RangedRefusals = FALSE` is
the run's; section 7 says what happens without it. That a status is set is shown of
every path but one, a refusal by the handler of `Expect`: the status there is the
handler's to set, and `TurnInv` takes any or none.

`ContentIsWhole` is also about forms, of any number of parts whose contents do not
hold the delimiter (the boundary is drawn at random), in reads of any size, if the
first of them brings the first boundary; `TransferIsWhole` is the rest of it, without
that hypothesis. What the parser has buffered followed by what is not yet read is at
every moment the text of the form from some place on, and the invariant says which
one (`Stands`): all of it, an entry, its empty line, what is left of a part of which
a beginning was handed on, or what comes after a delimiter. A turn of the parser
takes what it finds off the front (`Reaches`), or waits with too little for it
(`Short`); a read moves letters from what is not yet read to the buffer and leaves
the whole as it is. A delimiter is not found too early since no part holds it and
none begins inside a part and ends in the delimiter that follows (`FirstDelimiter`),
and at the end of the text nothing is short (`NeverStuck`). The text is a recursive
function of the form; that there is one is shown from its least counterexample
(`TextsExist`).

**PathMatchingProofs.** `PathsAreRead`, `PathsStayInside`, for any set of patterns,
paths of any length and any characters. The induction over a path is not one over
steps of the system, so its loops are followed by least counterexamples (`Least`).

The matcher never splits a path; `RightlyRead` says that it does as if it had: a path
with the segments of the route is matched, and no other one, but for one slash.
Pattern and path are cut at their slashes (`Cuts`: cut `n` is where segment `n` ends).
In a pattern of which a segment with a colon begins with one, the constructor finds
the parameters one after the other, and between them lie whole segments
(`ParamsAre`, `FragmentsAre`). If a fragment fits where `match` stands, the cuts of
pattern and path are at the same distance all along it, and so the segments are the
same; and if these are the same, the fragment fits (`TextIsCut`, `FragmentFits`). Hence
after `k` parameters `match` stands at the beginning of a segment, the one behind
parameter `k`, exactly when all segments before agree (`StartsStand`). What is left is
the end: a segment that is empty behind a last parameter is never looked at, in the
pattern (`NothingBehind`) or in the path (`NearTheEnd`), which is the one slash more
or less (`OneSlashMore`, `OneSlashLess`) that the property has to allow (`FitsIs`).

The hypothesis `ColonsBegin` is how the comment on `PathParamsMatcher` shows its
patterns (`include/httplib.h:770-782`), and the eight of the run are such. It is
needed: of `/a:x` the code makes a parameter out of the rest of a segment, and
captures no whole one.

`PathsStayInside`, which needs no such hypothesis, is the part of `RightlyRead` about
files: the level `is_valid_path` counts is the steps down less the steps up, until
these were more (`LevelOK`, component by component).

**SpeakerSessionProofs.** `TypeCorrect`, `SessionsAreWhole`, for lists of any length and any
number of calls. `SessionOK`: a caller that looks at the result of `Login` has a
token and a user id of one login. `ScriptOK` follows `test_juansheng_class` from
call to call and says what the lists and the music are at each: a list is whole or
empty, since a call that was cut short is not followed by another.

Only model-checked:

- liveness (`DrainingEnds`, `RequestHandled`, `Answered`, `Stops`,
  `InterruptHeeded`, `ProgramsEnd`, `EverythingReturns`, `StopsEnd`), which is outside
  the prover's reach; the safety that `InterruptHeeded` and `StopsEnd` add to theirs
  is that of `SleepersSleepOn`, and of a server that listens twice, for which
  `ConnectionsAreOwned` holds as well.

## 7. Findings

Four have a run of their own:

1. **`is_resp` can be lost** (`net/network.cpp:516`, run `pool_pipelined`). A pool
   thread sets `is_draining` in the byte that also holds `is_resp`. If it loads
   the byte after `is_resp` was cleared, and the poll thread then delivers the next
   request of a pipelining client and sets `is_resp`, the store clears it again: a
   response is being generated that is not marked so, against "Response is still
   being generated" (`third_party/mongoose/mongoose.h:1195`).
2. **`GetImage` can return a buffer without a picture**
   (`ffmpeg/MediaPlayer.hpp:150`, run `player_picture`). The play thread assigns
   the new image before it converts the frame into it; a copy taken in between is
   not empty and holds no picture. The caller in `ffmpeg/test_ffmpeg.cpp:529-536`
   looks only at `empty()`.
3. **A target that has moved stays in the index** (`any/anything.cpp:2031`, run
   `tracker_stale`). `updateTargetPosition` assigns the new position before it
   removes the entry, so `rtree.remove` looks for the new one.
4. **A path longer than its pattern matches** (`include/httplib.h:5657`, run
   `path_longer`). `match` steps over the character behind a parameter's value, if
   there is one, so that `/:x` matches `/a/`, and `//` with an empty value, against
   "Returns false if the path is longer than the pattern" (`:5659`).

The following are stated as properties in their modules, each with a comment that
the code does not keep it, and the runs leave them out. TLC finds each violated
under the module's `Spec`, with the constants of the run that uses the module
unless others are given.

| Property | Code | What happens |
|---|---|---|
| `SpeakerSession!FailureIsReported` | `any/anything.cpp:2415` | Every method prints `res->body` before it has looked whether there is a result; without an answer `res` is null. The caller expects an error: `LOG(ERROR) << "login failed\n";` (`:2818`). |
| `Sleeper!WorkEnds` | `any/anything.cpp:1944` | The loop does not look at what `wait_for` returns; after `interrupt()` the threads spin, never come to "clean up" (`:1947`), and `join()` does not return. |
| `Tracker!AnswerNamesTargets` | `any/anything.cpp:2044` | Ids count from 1 and are used as positions from 0: every answer names the next target, and the last reads past the end. |
| `Base64!RoundTrip` | `any/anything.cpp:1358` | The encoder drops the last character, as for a line end, though `BIO_FLAGS_BASE64_NO_NL` (`:1349`) adds none. |
| `Base64!SavedIsPicture` | `net/network.cpp:650` | The length of the text is written and not that of the picture: a quarter of the file is zeros. |
| `MediaTools!FailureIsSaid` | `ffmpeg/test_ffmpeg.cpp:74` | A failure to make the output stream returns the good result of the call before; that of `avformat_write_header` (`:94`) is overwritten, and that of `av_write_trailer` (`:114`, `any/anything.cpp:1302`) ignored: a 0 may stand for a film nobody can open. |
| `MediaTools!ErrorsReturn` | `ffmpeg/test_ffmpeg.cpp:428` | The `goto` after "could not allocate output context" (`:300`) ends in `avio_close` of a null context's field. |
| `HttpClient!StopIsHeeded` (`KeepAlive` true) | `include/httplib.h:6954` | `send_` clears the flag of `stop()` also inside a request and for a second try; the connection stays, against "we set a flag for the socket to be closed when we're done" (`:8048`). |
| `HttpClient!FailureHasError` | `include/httplib.h:8717` | When no TLS session can be made the result has no response and the error is `Success`, which `net/network.cpp:123` takes for a response. |
| `HttpServer!StopFindsSocket` | `include/httplib.h:5918` | Two stops can both pass `is_running_`; the second meets `assert(svr_sock_ != INVALID_SOCKET)`. |
| `HttpServer!SocketOwned` (`AcceptFails` true) | `include/httplib.h`, `listen_internal` | After an `accept` that failed for good the loop closes `svr_sock_` and leaves it set; a stop closes the number again. |
| `ContentTransfer!SuccessIsWhole` | `include/httplib.h:4082` | A content given up since the server stops counts as written, and its releaser is told so; so does one in chunks that a piece of no bytes ends (`:4152`). |
| `MultipartParser!RoundTrip` (`FirstWhole` false) | `include/httplib.h:4415` | A first boundary that comes in two reads is dropped, and the form refused. |
| `ServerRequest!ErrorsWhole` (`RangedRefusals` true) | `include/httplib.h:6750` | The error content of a handler that refuses is cut by the request's ranges, which no `range_error` has looked at, against the note at `:5991`. |
| `ServerRequest!RefusalAnswered` | `include/httplib.h:6696` | The status the handler of `Expect` returns is not put into the response; when the handler has not put one there itself, `assert(res.status != -1)` (`:6007`) fails. |
| `HttpClient!ResponseHasNoError` | `include/httplib.h:6979` | A proxy that refuses is a result with a response and the error `ProxyConnection`; after a redirect to another server that met one and a repeat with credentials the error stays beside a good response. |
| `UploadAndPush!FailureIsReported` | `net/network.cpp:314` | Where httplib leaves `Success` without a response (`HttpClient!FailureHasError`), the program, which looks only at the error, takes `res->body`; so at `:230` and `:393`. |
| `SpeakerSession!ListsArrive` | `any/anything.cpp:2494` | An answer with code 0 and no `data` or no `list` (also `:2552`, `:2600`) has nothing to copy and counts as a success with an empty list. |
| `MediaPlayer!OpenSuffices` | `ffmpeg/MediaPlayer.hpp:84` | `Open` returns true though `sws_getContext` made nothing; the play thread crashes in `sws_scale` (`:125`). |

Also known and stated by the properties: the missed request and the leaked file
of section 4, and in the player model the copy that counts itself in a buffer
just freed (`program = "undefined"`).

## 8. What is not modelled

- *Bytes of replies.* Buffers of the servers on mongoose are counted in tokens. That
  `mg_http_reply` patches a length into bytes that may have been sent or moved is
  not modelled. Request bodies with chunked encoding, TLS, WebSocket and
  everything in mongoose that neither server runs are left out.
- *Start and exhaustion.* The servers on mongoose are modelled once they listen.
  Allocation succeeds, in them and in the player, but for the scaler, which has
  other reasons to fail (a picture format it does not know).
- *The order of the connection list* in `PoolServer` (any order is allowed); it
  is modelled in `StaticServer`.
- *A torn `cv::Mat` header.* The copy loads one pointer; the fields that depend
  on it (size, step) are not separate. Packets and the frames `continue` leaks are
  left out. A second `Open` on an open context is not modelled.
- *The rest of httplib*: compression, cookies, URL and query encoding, parsing of
  single header fields, regular expressions as routes, memory mapping and Windows.
  They are functions of their arguments without state, and the hundreds of
  overloads that forward to one `send` add none. Whether a host name matches a
  certificate is a choice.
- *A peer that trickles* bytes for ever, each before its time limit: every wait of
  the client ends, but nothing in httplib bounds their number.
- *Choices that are wider than the code's*: a proxy may be set for one connection
  of a client and not for the next. *And narrower*: a handler of `Expect` that lets
  the request go on leaves the response alone.
- *Pictures that change size* in the middle of a stream: frames keep the size the
  player's scaler was made for.
- *What lies below*: Boost's R-tree, OpenSSL's BIO, ffmpeg and the operating
  system are modelled by what the code relies on and marked external.
- *ZeroMQ and TIPC samples*: endless producers and consumers, whose order and
  losses are those of the libraries.
- *Clients of single requests* (token, media list, download), *timers and pool
  samples* (one thread and one wait), *face recognition, image, text, date and
  language samples* (no shared state), and vendored code.

## 9. Plan

Done: the concurrent components, the programs that keep state, httplib's client
and server with their messages; types and the central safety proved for the
servers, the player, the client and all the programs; the content of a message and
the answer to a request proved for every size; the static server proved to
implement `HttpExchange`. What is left, in this order:

1. The send buffer of the pool server in bytes: head, length patch, resize.
2. A stream of tokens in `PoolServer`, so that with patient clients it can be shown to
   implement `HttpExchange`.
3. Keep-alive of the client against the server's: a request sent on a
   connection the server is about to close, with the second try.
