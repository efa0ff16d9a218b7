# custom_net_lib: specification, model checking, proofs

This directory is a TLA+ development of the repository: of its client/server
framework (the message queue between threads, the asynchronous connection with
its handshake, the client and server bases built on it, the serialisation of
messages, the example client's console) and of the servers among its exercises
(echo, chat, terminal, HTTP). Paths below are relative to the repository; `net/`
stands for `include/custom_net_lib/`, `asio/` for
`other_ressources/async_io_with_cpp/`, `beast/` for
`other_ressources/boost_beast/src/`.

    tlc -workers 2 -config conn_safety.cfg MCConnection
    tlapm Connection_proof.tla

## 1. The system

A program that uses the library has two threads per process: its **main
thread** (the server's loop around `update()`, the client's loop around the
keyboard and `Incoming()`), and the **io thread**, which is in
`io_context::run()` and runs all completion handlers one after the other. The
threads meet in three places only: `TsNetQueue`, `boost::asio::post`, and
members that both touch without a lock (`connectionsQueue_`, the socket behind
`IsConnected()`).

| Part | State | Operations | Meets |
|---|---|---|---|
| `TsNetQueue` (`net/net_ts_queue.hpp`) | deque, its mutex, a condition variable with a mutex of its own | `pushBack/Front`, `popFront/Back`, `front`, `back`, `isEmpty`, `count`, `clear`, `wait` | used by everything; io thread pushes, main thread waits and pops |
| `ConnectionInterface` (`net/connection_net_interface.hpp`) | socket, `out_msg_queue_`, `tmp_input_msg_`, handshake numbers, owner | `ConnectToServer/Client`, `SendData`, `Disconnect`, handlers `ReadHeader`, `ReadPayload`, `WriteHeader`, `writePayload`, `ReadServerValidationRequest`, `SendValidationData`, `ReadAndCheckValidation` | its peer through TCP, the owner through `in_msg_queue_` and `post` |
| `ClientBaseInterface` (`net/net_client.hpp`) | `connection_module_`, io thread, input queue | `Connect`, `Disconnect`, `isConnected`, `Send`, `Incoming` | owns one connection |
| `ServerInterfaceClass` (`net/net_server.hpp`) | `connectionsQueue_`, `inMsgQueue_`, `idCounter_`, acceptor | `Start`, `Stop`, accept handler, `sendMessageToClient`, `sendMessageToAllClients`, `update`, the `onClient...` hooks | owns all connections, shares the deque between two threads |
| `message`, `message_header`, `OwnedMessage` (`net/net_message.hpp`) | header with id and size, payload vector | `<<`, `>>` | written to and read from the socket by the connection |
| `CustomServer` (`src/custom_server.cpp`) | none of its own | overrides of the hooks, the loop around `update()` | the server base |
| `CustomClient` and its `main` (`src/custom_client.cpp`) | a promise, its future, the keyboard thread | ping, message all; the loop over keys and messages | the client base |
| Echo servers (`asio/simple_echo_server.cpp`, `asio/tcp_echo_server_*.cpp`) | socket, one or two streambufs or a circular buffer, `writing_` | accept, `read`, `on_read`, `write`, `on_write`, `close` | one client |
| Chat server (`asio/simple_tcp_chat_server.cpp`) | `clients_`; per session a streambuf and a queue of messages | accept, `post`, `on_read`, `on_write`, removal | all sessions post to each other |
| Terminal server (`asio/simple_terminal_server.cpp`) | the dispatcher; per session a streambuf and a queue | accept, `on_read`, `dispatch`, `on_write` | its clients |
| HTTP servers (`beast/async_http_server.cpp`, `beast/ssl_http_server.cpp`, `beast/simple_http_server.cpp`) | per session `buffer_`, `request_`, `response_`, the stream's timer | accept, handshake, read, `handle_request`, write, close | their clients |
| Other exercises (`other_ressources/`, `src/main_client*.cpp`) | none that matters | straight-line programs | none |

What is hard here:

* the order of steps of two threads between a test and what follows from it
  (`isEmpty` then `popFront`, `isEmpty` then sleep, "queue empty" read as "no
  write loop is running");
* chains of handlers that must re-arm themselves on every path, and handlers
  that run after the socket was closed or the object destroyed;
* two ends in different states of the handshake while messages cross on the wire;
* the shared deque of connections, which grows, shrinks and is walked;
* counts in bytes and in elements;
* a promise that one thread sets while the other is about to replace it;
* memory that a write sends while a read fills it, and indices that wrap;
* clients that send ahead, send half of something, or nothing, to sessions that
  live only as long as their outstanding operations.

`PROJECT.json` lists every hazard at its line with the properties that would
catch it.

## 2. Modules

| Module | Models | Checked by |
|---|---|---|
| `Deque` | what a queue promises: every operation atomic, on one deque | refined by `TsNetQueue` |
| `TsNetQueue` | `net_ts_queue.hpp`, one step per lock acquisition, statement or return | `MCTsNetQueue`, `TsNetQueue_proof` |
| `Connection` | two ends of a connection, client base, accept and `onMessage` for one client, TCP | `MCConnection`, `Connection_proof` |
| `NetServer` | the registry of connections, accept handler, `update`, sending to one and to all, lifetime of connection objects | `MCNetServer`, `NetServer_proof` |
| `NetMessage` | payload bytes, `<<`, `>>`, the way through a socket | `NetMessage` itself, `NetMessage_proof` |
| `Puzzle` | `encrypt_handshake_data`, for numbers and digits of any width | `MCConnection`, which uses it |
| `Console` | `main` of `custom_client.cpp` and its keyboard thread | `Console` itself, `Console_proof` |
| `EchoWorld` | a client, TCP and asio for the echo servers; what they promise | extended by the next three |
| `SimpleEcho`, `DecoupledEcho`, `CircularEcho` | the echo servers | `MCEcho`, `Echo_proof` |
| `LineWorld` | clients, TCP, asio and the state of a session for servers that talk in lines | extended by the next two |
| `ChatServer`, `TerminalServer` | these servers | `MCLines`, `Lines_proof` |
| `HttpWorld` | clients, TCP, beast's streams and the state of a session | extended by the next three |
| `AsyncHttpServer`, `SslHttpServer`, `SimpleHttpServer` | these servers | `MCHttp`, `Http_proof` |

The servers of one family run against the same clients: the MC module
instantiates them, and a variable that is chosen at the start says which
program runs. Deferred handlers of one io thread are steps; an outstanding
operation is part of the state until its handler runs.

A mutant of an action stands just before it, is never used by the
specification, and says in its comment which slip it is.

### TsNetQueue

`pc[t]` is the place of thread `t` in the operation `op[t]`; a mutex is its
holder. `wait()` is spelled out: the emptiness test (which locks and unlocks
`mutex_q_`), the lock of `mtx_caller_block`, the sleep, a wake-up, which may be
spurious, and the way back. `pushBack` and `pushFront` insert, lock the second
mutex while holding the first, notify, and release both. The queue itself does
not test for emptiness before a pop, its callers do: `MayCall` is their
discipline, and `ConsumerAssumption` records that each queue of the library is
popped by one thread.

### Connection

One instance is one connection, with the two ends `client` and `server`. The
main threads act through `posted`; handlers run when their end's io_context is
`running`. An `async_read` is `reading[e]`, with the kind of unit it expects;
`async_write`s are the sequence `writing[e]`, of which the first `flushed[e]`
are on the wire and wait for their handlers. All units (handshake number,
header, payload of a ping) are eight bytes, so a read of the wrong kind gets
a whole unit of another kind, of which it may make anything of its own kind.
(The four bytes of `MessageAll`'s payload are a unit as well; this matters only
to a read of the wrong kind, which `FramesAligned` confines to the server's
solution, and no payload is ever there.)
Builds of the program differ in the constants of `encrypt_handshake_data`
(`README.md`, line 124), so the function is a parameter `Encrypt(build, number)`;
the runs give it the function of `Puzzle` with numbers of two bytes of one-bit
digits.
TCP (`Establish`, `Refuse`, `LinkFails`, `Transfer`) and asio's completion and
error rules (`Broken`, `ReadDone`, `RunReturns`) are external and marked so.
Disconnect is two steps, the posted close and then stop/join/release,
between which the io thread runs.

`sent`, `received`, `solved`, `early` record history for the properties.

### NetServer

The io thread accepts, receives, fails and completes; the main thread is at
`pc` in `update()`. The loop over `connectionsQueue_` is one step per element,
with the indices at which it began and will end. A connection object is
`Alive` while some shared_ptr (queue, `OwnedMessage`, running handler) holds
it; `reading` and `pending` count what asio still holds with a raw `this`.
`connectionsQueue_` has no lock. Each operation on it is one step here, and the
loop ends where the deque ended when it began, as the range-for of the code
does with libstdc++'s iterators unless the deque's map is reallocated; an
operation that is torn by the other thread is not modelled.
The handlers of a destroyed object are undefined in the code and take no step
here. An object may be used again only when nothing refers to it.

### NetMessage

The payload is its bytes. `<<` adds as many four-byte elements as the value has
bytes and copies the bytes to their beginning; the connection sends as many
bytes as there are elements. `tmp` is the receiver's buffer, which keeps its
content from message to message.

### Puzzle

The function of both ends: an exclusive or, a mask, two shifts that use the same
mask, and a second exclusive or, with the number of bytes and the bits of a digit
as parameters. Its assumption `VersionDigit`, which TLC evaluates exhaustively
for numbers of four bytes and digits of one bit with every `conn` run, says which digit of a constant may
hold a version: any digit of the second constant, and of the first one only two.

### Console

One loop iteration of `main` is a handful of steps: asking the future, acting,
joining, then a new promise, a new future and a new thread, each its own
statement in the code and its own step here; or, without a key, asking for the
connection, for a message, and popping it. The keyboard thread is inside
`set_value` (`"inside"`) when main can already see the value: the promise must
not be replaced before it has left. The library is there as it shows itself to
the loop.

### EchoWorld, SimpleEcho, DecoupledEcho, CircularEcho

The client's bytes are numbered. An `async_write` refers to memory: each byte is
looked up when it is transmitted, so that a read that puts bytes into the same
place would be seen. `CircularEcho` has the buffer of
`asio/tcp_echo_server_circularbuffer_multithreaded.cpp`, whose `make_sequence`
says where the bytes of a range lie, in one or in two pieces, and the session of
`asio/tcp_echo_server_efficient_data_read_write.cpp` (the other program has the
same). asio commits what it has read and consumes what it has written just before
it calls the handler, and is one step with it. No server starts a second accept:
there is one session. Some of these files are drafts that do not compile as they
are, or whose `main` ends before `run()`; the model is of the classes as they are
meant by their text.

### LineWorld, ChatServer, TerminalServer

A client types lines, one in a step and as far ahead of the server as it likes; a
byte knows its line and its place in it, and the last byte of a line is its newline.
A client is `patient` as long as it has typed nothing before the answer to the line
before. `async_read_until` may bring more than a
line. In the chat everything that the streambuf holds becomes one message to all
members; on the terminal `getline` takes a line and `consume` as many bytes again
of what follows it. A line of the terminal is a record with the command's name
and the number of its arguments, which is what `split` and `parse` make of
it. A handler that looks at an argument that is not there (`cd`) may do anything,
a crash included. What `consume` has left of a cut line may be blank, any command,
or such a `cd`. `posted` and `known` are history.

### HttpWorld, AsyncHttpServer, SslHttpServer, SimpleHttpServer

A session lives as long as an operation of it is outstanding, for the handler
holds the `shared_ptr`. `http::async_read` takes any number of the requests that
have arrived into `buffer_` and delivers the first; one that is in `buffer_` already
is delivered whatever has become of the connection. A request is its method, its
target (a file, a missing or unreadable one, an illegal path) and whether it
keeps the connection alive; a response is the request it answers, its status and
whether the connection ends with it. A timer may fire whenever it is set. An
accept that fails, an acceptor that cannot listen, a handshake that never
finishes, bytes that are no HTTP, resets, and, in the TLS server, the
assertion of a file that is not open, are steps of their own.

## 3. Runs

Passing:

| Run | Instance | Shows |
|---|---|---|
| `tsqueue_safety` | 2 producers, 1 consumer, 2 values, 2 pushes | mutual exclusion of both mutexes; no pop of an empty deque; refinement of `Deque` |
| `tsqueue_live` | 1 + 1 threads, 2 pushes, fair | no call blocks for good; a push wakes a sleeper |
| `conn_safety` | 2 builds, 2 sends with echoes, 1 announcement | one write loop, aligned frames, validation before any message, delivery in order, patient clients accepted |
| `conn_live` | 1 send, fair | delivered or down, close is propagated |
| `server_safety` | 3 connections, 3 accepts, 2-bit counter | registry, broadcast, unique ids |
| `message_local` | values of 1 and 4 bytes, 3 per message | round trip in memory, first value over the wire |
| `console` | 3 keys, 2 messages, fair | the promise outlives the thread that sets it; keys in order, each acted on; messages shown |
| `echo` | buffer of 3 bytes, 7 bytes sent, fair | echo in order, one write, ranges inside the array, reads and writes apart, everything echoed |
| `lines` | chat: 2 clients, 2 lines, the second one possibly ahead; terminal: 1 client, 2 lines of six kinds, likewise; fair | one write per session, delivery in order, members informed, text whole, patient users answered, leavers noticed |
| `http` | 2 connections, 2 requests of five kinds on one of them, the other silent; fair | answers in order, a closing answer is the last, one operation, sessions end, accepting goes on |

The bounds cover what matters: a second push while the first notifies; a
message sent before, during and after the handshake with a second one behind
it; an object that is closed, dropped and used again while the loop runs; an
id counter that wraps; a key pressed while the last one is being handled and a
third after both; a buffer that is full, empties, and wraps twice; a line typed
ahead of the answer to another; a member that leaves while a message to it
is under way; a request behind one that ends the connection. The proofs below
remove the bounds from every invariant of the passing runs.

`TypeOK` of `TsNetQueue` and `Connection` is checked and proved, that of
`Console`, `NetServer`, `NetMessage` and the HTTP servers proved. In the other
modules it documents the types and no run lists it; it can be added to any of their
cfg files.

`CHECK_DEADLOCK FALSE` is set for connections and all servers, where everything
may end or every bound be reached, for the console, which the user may quit, and
for the fair runs of the queue, whose consumer may sleep for good once no push is
left. In `tsqueue_safety` it is not set: some thread can always look or wake up.

Violations, each one a finding with the line it contradicts in `PROJECT.json`:

| Run | What happens |
|---|---|
| `tsqueue_lost` | a push between the test and the sleep of `wait()` is lost, and the consumer sleeps on a queue with a message |
| `server_lifetime` | handlers outlive their connection |

### Disagreements visible without a run

Comments and code disagree in more places; the actions named here show what the
code does.

* A client that sends before it has solved the puzzle is turned away: its header
  is taken for the solution (`CheckPuzzle`; `README.md` line 54 says a client may
  send at any time). `PatientClientAccepted` is what is left.
* A message without payload is queued with the payload of the message before it
  (`ReadHeader`; `net/connection_net_interface.hpp` 193-196).
* `Disconnect` may stop the io_context before the close it posted has run, and
  the socket stays open (`Stop`; `net/net_client.hpp` 62 and 73-75).
* Of several values in one message only the first arrives through a socket
  (`Ship`; `net/net_message.hpp` 37-43). `FirstValueArrives` is what is left.
* A digit of a constant of the puzzle holds a version number only if it is one
  that `VersionDigit` names (`README.md` line 124).
* `ServerAccept` is sent to a client that is not validated yet (`Accept`;
  `README.md` line 112).
* `isConnected()` is true while a connection is being set up and after it was
  refused (`Connect`; `net/net_client.hpp` 81-84).
* `sendMessageToClient` resets the pointer before it looks for it and so leaves
  the client registered (`SendMessageToClient`; `net/net_server.hpp` 136).
* `connectionsQueue_` is used by two threads without a lock (`Accept` during
  `Visit`; `net/net_server.hpp` 85 and 153).
* The synchronous HTTP server makes the response to the GET of a file and does
  not send it (`handle_request` of `SimpleHttpServer`;
  `beast/simple_http_server.cpp` 186-197, and "write response to client", 256).
  After a read error other than the end of the stream it answers a request that
  nobody has sent.
* The asynchronous HTTP server accepts one connection (`on_accept` of
  `AsyncHttpServer`; "every new connection", `beast/async_http_server.cpp` 370).
* The TLS server answers a missing file with a server error, and looks at no
  other error of `open` (`handle_request` of `SslHttpServer`).
* The decoupled echo server copies its incoming buffer without consuming it, so
  that it echoes again from the first byte (`write` of `DecoupledEcho`), and ends
  the session when the buffer is full.
* A comment in `on_write` of both circular echo programs says that no new write is
  scheduled there, "so we are not shure that all received data is written back"
  (`asio/tcp_echo_server_efficient_data_read_write.cpp` 200,
  `asio/tcp_echo_server_circularbuffer_multithreaded.cpp` 244). The code below it
  does schedule one while the buffer is not empty, and `EverythingEchoed` shows that
  nothing is left behind, except in a session that is dropped because its client
  filled the buffer ("We consider an exceeded buffer as a client request violation",
  166 of the first file; `Exceeded`), whose connection broke, or whose client
  ended it.
* The command `cd` of the terminal is attached without an argument and its
  handler looks at the first one (`response`; `asio/simple_terminal_server.cpp`
  247-248). Commands typed ahead are lost or cut (`unread`).
* A chat session that a failed write has removed may still have its text posted,
  after the news that it left (`on_read` of `ChatServer`).

### Fairness

* `TsNetQueue`: weak fairness of a thread's own steps (threads run), strong
  fairness of each lock acquisition (a mutex that is released again and again
  is obtained in the end). No fairness of calls, none of spurious wake-ups.
* `Connection`: weak fairness of the handlers of each io thread, of transfers,
  of the resolution of a connection attempt, of accepting and of the end of
  `Disconnect`. There is none of `Send`, `Disconnect`, `LinkFails`, and none of
  `Handle`: the server's `update()` may miss a wake-up (`tsqueue_lost`).
* `Console`: weak fairness of each of the two threads. None of the user, nothing
  of the network.
* Echo, chat and terminal: weak fairness of the handlers and of TCP, for an
  io_service that runs what is ready; none of clients. `EverythingEchoed` is not claimed
  of the decoupled server, which has none.
* HTTP: weak fairness of the handlers of each session, timers included, since a
  timer that is set fires unless its operation ends before; and of the TLS
  server's accept: an accept that fails and leaves the client in the listen queue
  (no descriptor is free) changes nothing here, so this says that accepts do not
  fail for ever. `SessionsEnd` speaks of clients that stop asking, as all do here
  once their requests are used up; a client that asks for ever may be served for
  ever. None of clients, of handshakes, nor of the synchronous server,
  which has no timer and whose thread may wait for ever.

## 4. Proofs

All theorems hold for every value of the constants that satisfies the named
assumptions (`ThreadsAssumption`, `ConsumerAssumption`, `BuildAssumption`,
`PayloadAssumption`, `ConnsAssumption`, `ConsoleAssumption`,
`CapacityAssumption`, `SizesAssumption`, `LineAssumption`, `RequestsAssumption`, `NullAssumption` and
the `BoundAssumption`s, which only say that bounds are numbers). Each proof rests
on an inductive invariant, which TLC checked on the instance of the run before it
was proved.

`TsNetQueue_proof`. The inductive invariant adds to the types and
`LockDiscipline`: a pushing thread has its value (`PushHasValue`); what a
consumer saw is still true (`SawIsTrue`), which needs that only the consumer
removes elements; a thread inside a pop or a peek saw an element
(`TakesOnlyWhatItSaw`); the element a pop has moved out is still at its end
of the deque (`TakenIsCurrent`), which needs mutual exclusion; and only
`wait()` sleeps (`InWait`). From it follow `TypeCorrect`, `MutualExclusion`,
`PopsAreDefined`, and, step by step, `ImplementsDeque`: each step is a step of
`Deque` or leaves it unchanged.

`Connection_proof`. `TypeCorrect` and `OneWriteLoop`: for any number of
messages and through every failure, at most one message write is outstanding
at an end, it writes the front of the queue, and a queue that is not empty is
being written unless the socket is closed. So `SendData`'s inference from
`isEmpty()` is right. `WriteLoop` is needed for the types (a write takes its
unit from the front of the queue, and the unit of `writePayload` is the payload of a
message that has one), and both need `Unopened`: an end without a
socket has done nothing, so that `Accept` and `Connect` start from nothing.
The lemmas `Loop...` say how `LoopOK` changes when the queue grows, a write is
started, done or failed; one lemma per action applies them.

The second half of `Connection_proof` is about framing. What an end was given by `SendData` is
one stream of units, header and payload of each message in turn. A *place* in it is
a message and the half of it; `Stretch(w, a, b, S)` says that the units `w` are the
part of the stream of `S` from place `a` to place `b`. The invariant `FInv` says that
the units on the wire are the stretch from where the reader is (`Takes`: how many
messages it has received, and whether it waits for a payload) to where the writer is
(`Gives`: how many messages are written for good, and which write is outstanding);
that what is not written for good is in `out_msg_queue_` and then among the posted
handlers, in the order of the calls (`Ordered`); that the first unit of an end is the
number of its handshake unless the client sent too early (`Incoming`); that a reader
waits for headers only after its greeting (`Readers`); and that what was received is a
beginning of what was sent (`Delivered`). The stretch lemmas say what a write, a read
and a further message do to it. `SolvedFirst`, `ReadsMeetTheirUnits`,
`DeliveredAsSent` and `PatientAreAccepted` follow, for any number of messages, any
builds and any puzzle function.

`NetServer_proof`. The invariant adds to the types, `RegistryClean` and
`OpenIsRegistered`: the loop stays inside the deque it began with, which only grows at
its end meanwhile (`LoopInside`); whoever stands before its index, was there when it
began and is not the one to ignore has been told (`LoopTold`); and until as many
connections were accepted as there are ids, no registered id was given longer ago than
the first accept, so that the next one is free (`AgesDiffer`). `EraseNulls` is what `std::remove` leaves: the elements at the
increasing enumeration of the positions without a null pointer. That such an
enumeration exists is an induction over the positions.

`NetMessage_proof`. The offsets of the values are not in the state, so the invariant
says that there are some: numbers that begin with 0, grow by the size of each value
(`Offsets`), end with the number of elements in the vector, and at which the bytes of
each value lie (`Laid`, `Holds`); of a message that came through a socket, only those
of the first value. `Put` makes the offsets one longer, `Get` one shorter, `Ship` keeps
them: as many bytes arrive as there were elements, and the first value has no more bytes
than elements. `RoundTrip` and `FirstArrives` follow, the latter whatever the
receiver's buffer held before.

`Console_proof`. The keyboard thread is joined exactly while main stands between
the join and the next thread (`JoinedWhen`), the promise has a value exactly from
`set_value` to the next promise (`ValueWhen`), and the keys pressed are the keys
acted on, plus one while a key is in somebody's hands (`KeyWhen`): together with
the types these are inductive. `PromiseIsThere` follows from the first,
`KeysAreInOrder` from the last; `MessagesAreShown` says that main never pops an
empty queue and shows every message once, in order.

`Echo_proof`. At most one write is outstanding (`AtMostOne`), `writing_` says
whether there is one and the simple server reads or writes (`WritingWhen`);
`OneWriteAtATime` follows for the three servers. For the circular buffer the
invariant adds where things lie: the write begins at `head_` and ends by `tail_`
(`WriteRange`), the read begins at `tail_` and ends within `Capacity` of `head_`
(`ReadRange`), and without a write everything is consumed (`Indices`). So a write
that follows a read is never of the whole capacity away from 0, since the read's
range was not. Lemmas about remainders (`DivMod`, `ModUnique`, `ModAdd`) say where
`make_sequence` puts an index, and that indices less than a capacity apart lie at
different places: `RangesStayInArray` and `ReadsSpareWrites`. The stronger invariant
`EInv` adds what each byte of memory holds (`Holds`): in the ring, index `i` holds
byte `i + 1`, from `head_` to the last one read; the simple server's buffer holds the
bytes behind those it has written for good, the decoupled server's all bytes from the
first. Thus a byte that is looked up when it leaves is the next one: `EchoesInOrder`.

`Http_proof`. The invariant speaks of one session at a time. It has at most one
operation, none before the accept (`Single`); a connection that is not up has nothing
(`Fresh`); after a response that ends the connection neither a read nor a write
follows (`Last`); and while a session reads or writes, the requests that were
answered, the one being answered, those in `buffer_` and those on the wire are, in this
order, 1, 2, 3, ... up to the last one sent (`Answers`, of the asynchronous servers).
`OneOperationAtATime`, `NothingAfterClose` and `AnsweredInOrder` follow.

`Lines_proof`. The invariant relates a session to its connection. What is queued is
the end of what was posted (`Queued`); until the connection breaks, a write is under way
exactly while the queue is not empty, and the client has what was taken from the queue
and, if that write is done, the message in front too (`Looping`); broken or not, there
is at most one write, and none for an empty queue, so that `on_write` never pops an
empty one (`Single`); what a client has is a beginning of what was posted (`Sent`). In
the chat, a member's first count plus the newcomers it was told of is the number of
members plus those it was told have left (`Knows`), which an accept, a removal and a
text keep. `OneWriteAlways`, `DeliveredAsPosted` and `MembersAreInformed` follow.

A second invariant, `KInv`, rests on this one and relates what clients typed to what the
server has of it. In the chat, the bytes in the streambuf, those on the wire and the
first byte of the next line follow each other as they were typed (`Streams`); in what
was posted to anybody the texts of one speaker do so too, within a text and from one to
the next (`Heard`); and to a member, what is still ahead follows the last of them
(`Awaits`). A member that is dropped misses the end, so that `Awaits` is claimed of
members and `Heard` of all. On the terminal, the messages after the welcome answer
exactly the commands handled so far (`Given`), and the last line of a patient client is
handled, on the wire, or, whole, in the streambuf (`Asks`): the second `consume` of
`on_read` then finds nothing more to discard. `TextReachesWhole` and
`PatienceIsAnswered` follow. Both properties speak of positions and of bytes that follow
each other, not of concatenations, so that no induction over data is needed.

Proving showed one flaw of the models: in the `handle_request`s and in `response` the
guards of a `CASE` overlapped. TLA+ leaves open which arm such a `CASE` takes, while
TLC takes the first. They now test in the order of the code.

Only model-checked:

* liveness, that is every property of the form `~>` or under fairness: fairness and
  `ENABLED` are out of the prover's reach;
* the bit arithmetic of `Puzzle`. `Connection_proof` takes the function as a parameter
  and needs nothing of it but that it takes numbers to numbers.

The library's induction principles take an operator as parameter, which the provers
cannot instantiate; the inductions here go over a set of numbers in place of a predicate
(`SetInduction` of `NetServer_proof`), from the well-foundedness of the numbers.

## 5. Not modelled

* Console output, command line; `Start`/`Stop` of the server, whose main loop
  never returns.
* A second `Connect` on a client object, a resolver that throws, a connection
  reset before the accept handler asks for its address (hazards with a note).
* That no header is ever a solution of the puzzle is argued in `Connection`: the
  upper half of a solution is at least 0xC0000000, the upper half of a header is
  its size.
* Partial reads and writes of a connection: `async_read` and `async_write`
  complete with the whole unit or fail.
* A connection that is lost without a word: no program here uses keep-alive, and a
  read or a write whose peer is silently gone stays outstanding. `LinkFails`, `Breaks`
  and `Break` are losses that TCP reports. Only the asynchronous HTTP servers have
  timers, and these are modelled.
* References that outlive the lock: `front()` and `back()` return one, `Peek` copies
  the element. The callers are the queue's only consumer, and a push leaves references
  into a deque valid.
* In `NetServer`, the write that follows a completed write (`Complete` only ends it)
  and the validation before the first read of a message (`Receive` needs an open
  socket): `Connection` has both. Fewer handlers are pending than in the code, and
  messages come earlier.
* A connection that is still registered when `idCounter_` comes round to its id, after
  2^32 accepts: `UniqueIds` is claimed up to there.
* Two `async_write`s outstanding together may in principle interleave; units
  of eight bytes go out in one piece, and the model keeps their order.
* `IoContextGroup` of the multithreaded echo server, which hands out io_contexts
  in turn: the one session that is accepted belongs to one of them and one thread
  runs it.
* What an HTTP response, a chat message or a command's answer says: fields,
  `mime_type`, `path_cat`, dates. TLS and the HTTP parser are third-party.
* `src/main_client.cpp`, `src/main_client_async.cpp`, the HTTP, UDP, timer and
  buffer exercises, and the language exercises: straight-line I/O without state
  of their own. The REST draft is empty.

## 6. Plan

1. Done: all modules and runs above, the proofs of section 4.
2. Candidates for models: reconnecting on one client object, the server's io
   thread with exceptions.
