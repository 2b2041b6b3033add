# A verification development for libSunnyProxy

libSunnyProxy is an HTTP proxy cut in two: `client_manager` accepts the
browsers, `server_manager` opens the connections to the web, and all
connections are multiplexed as frames on one *main transport* that the host
program owns.  This directory holds TLA+ specifications of the two managers,
the TLC configurations that check them, and TLAPS proofs about them.
File and line numbers below are those of the repository (`src/...`, `demo/...`).

## 1. Inventory

### Components

| Component | State | Operations | Talks to |
|---|---|---|---|
| Sending half of a manager (`impl::add_send_buffer`, `send_buffer_finished`, `client::send_to_main_socket`) | per client `recv_buffers_`; `impl::send_buffers_`, `current_sending_user_` | push a tuple, send it, pop on completion, send the next | the host through `cb_send_buffer_` and `send_complete()` |
| Relaying client (class `client`) | `is_reading_`, `recv_buffers_`, `send_buffers_`, the socket's read and write | read, throttle, write, `send_disconnect`, `remove_self` | its manager, `socket_base` |
| `server_manager` | `clients_map_`, the pool `ioc_`/`vec_threads_` | `recv` (connect, data, disconnect), `on_connect` (resolve, connect, forward the request, answer), `send_complete` | remote hosts, host program |
| `client_manager` | `clients_map_`, acceptor, pool; per client `is_connected_` | accept, read the header, serve `proxy.pac`, `recv`, `set_connected`, `send_complete` | browsers, host program |
| `socket_base` (`sunny_common.h`) | read and write buffer, `read_ready_`, `write_ready_` | `do_read_some`, `do_read_until`, `do_write`, timeouts on none of them | Boost.Asio |
| Frame header and checks of `recv()` | none | build, check, copy | both managers |
| Request parsing (`get_port`, `Host:`, PAC path) | none | pure functions | `on_connect`, `run` |
| Start and destruction | threads, callback, `weak_impl_` | `start`, `set_callback`, destructor | host program, system settings |
| Mutexes of a manager | two of the manager, two of every client | every `lock_guard` | every thread that is in a manager |
| Demo hosts (`demo/client.cpp`, `demo/server.cpp`) | one TCP session, a manager | read a frame and `recv()` it, write a frame and `send_complete()` it | each other |
| RC4 of the demo hosts | key | byte transformation | main transport |
| Windows proxy settings (`sysproxy.c`) | system settings | set, query | Windows |

### How they interact

    browser --read--> recv_buffers_[c] --+                          +-- recv_buffers_[c] <--read-- remote
                                         +--> send_buffers_ (impl)  |
    browser <-write-- send_buffers_[c]      --cb_send_buffer_--> host ~~~ host --recv(frame)--> send_buffers_[c] --write--> remote
                          client_manager                                      server_manager

* A client puts at most one of its tuples into the frame queue of its manager
  and the next one only when `send_complete()` reports the end of that send.
  `send_complete()` does not say whose frame it was: it takes
  `current_sending_user_`.
* Reading from a socket stops when `queue_max_num` (64) tuples wait and is
  started again by the completion that brings the queue down to a third.
* What a browser sends before the peer's answer waits in `recv_buffers_`;
  `set_connected()` starts the flow.
* `recv()` and `send_complete()` come from the host's threads, callbacks from
  the threads of the manager's pool, removals (`remove_self`) from the system
  executor.  Shared state is under `clients_map_mutex_`, `recv_buffers_mutex_`
  and the two `send_buffers_mutex_` - except `is_connected_`, `is_reading_`
  and `current_sending_user_`.

### What is hard

Two queues in series with a single owner variable; a completion processed in
two critical sections; flags read and written outside the mutex that guards
the decision; throttling whose re-arming is left to another thread; objects
that outlive their entry in the map; a pool that ends when it runs out of
work; failures between the steps of `on_connect()`.  `PROJECT.json` lists each
of these hazards at its line with the properties that watch it.

### What makes each part correct

* Sending half: one send at a time; the owner is right; a client has one tuple
  in flight, the oldest; per connection nothing is lost, repeated or reordered.
* Relaying client: one read and one write per socket; the backlog is bounded;
  the socket gets the peer's chunks in order; a throttled socket is read again;
  a closed connection leaves the map.
* `server_manager`: the answer precedes data and is given once; every
  connection is answered; what was pushed leaves.
* `client_manager`: no data before the answer; what was read before it is sent
  after it, once.
* Framing, parsing: the frame that one end builds is one that the other end
  accepts; host and port are those of the request.
* Start and destruction: no request before there is a callback to call (the
  code does not keep that: finding 3), no
  thread left when the destructor returns, system settings that name the proxy
  only while it listens.  Locks: no cycle.
* The pair: each end sends what the other expects; a request is answered or
  dropped (unless it is refused, finding 4); both ends of a connection close; each direction is one byte stream.

## 2. Modules

    FrameStream          the promise: per connection, frames in order, no gap, no repeat
    MainTransport        the sending half, shared by both managers; refines FrameStream
      RelayClient        class client, as far as it is the same in both managers
        ServerManager    server_manager
        ClientManager    client_manager
          Proxy          both managers and the wire between them; each direction
                         refines FrameStream end to end
    LockOrder            the mutexes of a manager   MCLockOrder       TLC instance
    Lifecycle            start(), the pool, the destructor, the system settings
    Request              one request: frame, checks, PAC test, host and port
                                                MCRequest         TLC instance
    MainTransportProofs  lemmas about the operators of MainTransport
    ServerManagerProofs  theorems about ServerManager: the queues, the sockets, and
                         what it sends and writes
    ClientManagerProofs  theorems about ClientManager: sockets, types, one send at a time
    ClientStreamProofs   theorems about ClientManager: what it sends and writes
    ProxyProofs          theorems about the pair, from those about each manager
    LifecycleProofs      theorems about Lifecycle
    LockOrderProofs      theorem about LockOrder
    RequestProofs        theorems about Request: the length fields, find(), the invariants

The class `client` and the sending half are written twice in the repository,
line by line the same but for the gate `is_connected_`.  The shared modules
define them once, as operators with the gate as parameter `open`
(`PopTuple(c, open)`, `ClientAddSendBuffer(c, chunk, open)`); the managers' actions
conjoin them.  `PROJECT.json` maps every definition to its lines.

**Steps.** A step is what one thread does between taking its first mutex and
releasing its last one, together with the unlocked code around it that no other
thread can see.  Where unlocked code *is* seen by others it is a step of its own:

* `send_complete()` is `HostFinishes` (the host's call), `SendComplete` (first
  block, under `clients_map_mutex_`) and `SendNext` (second block, under
  `send_buffers_mutex_`); everything may happen between them.
* The read callback that fills the queue releases the mutex and then clears
  `is_reading_`: `ReadChunk`, then `StopReading`.  `stopping[c]` says that it is
  in between.
* `set_connected()` sets `is_connected_` before it takes `recv_buffers_mutex_`:
  `RecvAnswer`, then `SetConnected`, with `clients_map_mutex_` held across both
  (`MapFree` keeps the others out).
* `boost::asio::post(remove_self)` is the flag `removing[c]` and the action
  `RemoveSelf`.

**State.** Variables have the names of the fields.  An asynchronous operation
that is outstanding is a count (`reads`, `writes`) or the `stage` of the
connection.  A tuple is its type and its number among the pushes of its
connection; a chunk from the peer is its number, and `FirstChunk` is what is
written before them (the forwarded request, the payload of the answer).  `out`,
`pushed`, `received` and `written` are histories that no guard of a code action
reads, except those that describe the peer (data follows an answer that was
handed over) and the bounds.

**Environment.** The peer sends `tcp_connect` once per id, data only on an
answered connection, `tcp_disconnect` at any time, also repeatedly.  Sockets may
bring a chunk, end or fail at any time.  The host runs one send at a time and
reports each once, as both demo hosts do.  `recv()` calls of one host do not
overlap (the demo hosts read frame by frame).  Three constants of
`ClientManager` say what may meet `set_connected()` half way:

| constant | TRUE allows |
|---|---|
| `ReadRaces` | a read callback between `is_connected_ = true` and the mutex |
| `CloseRaces` | an answer that comes while the `tcp_disconnect` of a browser that did not wait for it is in flight, before the posted removal has run |
| `LateCompletion` | a host that reports the end of the send of `tcp_connect` after it passed on the answer |

`ReadRaces` and `CloseRaces` are what the code really meets; with either, its
own assertion fails (finding 2).  The runs that check the rest of the
client's protocol set them to `FALSE`, and so say what holds once those two are mended;
`client_any` checks what holds regardless, and `proxy` has
`CloseRaces` `TRUE`.  Browsers may close or fail at any
time in every run: `CloseRaces = FALSE` only keeps the answer out of the window
in which the `tcp_disconnect` is in flight.  `LateCompletion` cannot happen with
the demo hosts: one thread runs the session and the write of `tcp_connect`
completes before the answer to it is read.

The pop of an empty `std::queue` is undefined.  In `ServerManager` a theorem
excludes it (`FrameIsFront`: a completion finds the tuple that was sent).  In
`ClientManager` it can follow a double send; it sets `corrupted`, after which
no step of the manager that could see the queue is modelled.

**Proxy** conjoins nothing new to the managers' actions.  It instantiates both
modules with variables of their own (`c_...`, `s_...`) and replaces their
assumed peer: the next entry of one side's history `out`, which its host was
given, is what the other side's `recv()` gets (`ToServer`, `ToClient`).  The server's `recv()` may
refuse a `tcp_connect` (`Refuse`), for reasons that `Request` has in detail; its
host does not look at the result, so that the client hears nothing, and the
`tcp_disconnect` that may follow finds no client to remove.  Per
connection the wire keeps the order; between connections no code depends on it.
Whether the answer has a payload is decided by the server (`Forwarded`).  The
client's acceptor does not fail there, and its pool does not exit.
`dataToServer` and `dataToClient` are histories: the push numbers of the `tcp_data`
frames that have arrived.  With them `Payload` names what an end has written by
the push at the other end that it came from, so that `UpstreamInOrder` and
`DownstreamInOrder` compare the bytes of a browser with those its remote host gets,
rather than the frames of one manager with those of its own queue.

**LockOrder** is the finer grain under all other modules: they run from the
first mutex of a thread to the last as one step, `LockOrder` takes and releases
the mutexes one by one, by call site.  `Calls` lists which function is called
from inside which `lock_guard`, `Roots` what is entered without one.  A host
that called back from inside `cb_send_buffer_` is excluded: the managers' headers
call it an asynchronous callback, and the demo hosts only start a write.

**Lifecycle** has the host's thread as a program (`Steps`, `at`): the order of
`start()` and of the destructor, with the steps that may fail.  The threads of
the pool run handlers from the moment they exist.  The acceptor listens on every
address, so a browser may come whenever an accept is pending, sent by the system
settings or configured by hand; outside Windows (`win32`) there are no settings at all.
They outlive the process; `ProcessEnds` may strike anywhere, and
`demo/client.cpp` always ends so.  `stopped` also becomes true when the pool runs
out of work, as in asio.  System calls fail at any point; the loop over the RAS
entries stops there (`broken`).

**Request** follows one header from the browser to `async_resolve`.  Text is cut
into the tokens that the code's `find()` can tell apart, `Searched`; a host, a port, a part of
a path is one token that is none of them.  Which hosts, ports and paths there
are, is a constant each (`Hosts`, `Ports`, `Paths`); a path may have colons anywhere but in front.
Lengths are numbers that are written into 2 or 4 bytes in the order of one
machine and read in that of the other; `DataMaxLength` and `Sizes` are constants too.  The host
reads as many bytes behind a header as the header says to its machine, or fewer
if the transport ends meanwhile (`HostReads`); that, and not what was sent, is what
`recv()` holds the length against.  Left out are
a path with a URL in it, and hosts that only end in `127.0.0.1` or `localhost`, which the
PAC test would take for this machine.

## 3. Runs

| Run | Instance | Shows |
|---|---|---|
| `server_relay` | 2 ids, `QueueMax` 2, 1 read each | `TypeOK`, `OneInFlight`, `SingleSend`, `AnswerFirst`, and that the manager implements `FrameStream` (`FramesInOrder`), over every interleaving of pushes, completions, removals and answers; `EveryTupleLeaves`, `ReadResumes`, `AnswerArrives` |
| `server_throttle` | 1 id, `QueueMax` 3, 5 reads, 3 frames | throttling and writing: `SocketDiscipline`, `BacklogBounded`, `WrittenInOrder`, `ClosedIsRemoved`, `FramesInOrder` |
| `server_pool` | as `server_relay` | **violated**: `ResolverCallbackRuns` |
| `client_relay` | 2 ids, `QueueMax` 2, 1 read each | the client's `TypeOK`, `OneInFlight`, `SingleSend`, `FramesInOrder`; `EveryTupleLeaves`, `ReadResumesOnceAnswered` |
| `client_any` | 1 id, `QueueMax` 3, 5 reads, 2 frames, all three constants `TRUE` | `SocketDiscipline`, `DataWaitsForAnswer`, `BacklogBounded`, `WrittenInOrder`, `ClosedIsRemoved`, whatever meets `set_connected()` |
| `client_answer` | 1 id, `ReadRaces`, `CloseRaces` | **violated**: `OneFramePerClient` |
| `proxy` | 1 id, `QueueMax` 2, 3 pushes, `CloseRaces` | `PeerKeepsToProtocol`, `NobodyIsForgotten`, `ClosesTogether`, `UpstreamInOrder`, `DownstreamInOrder` |
| `lock_order` | 3 threads, 2 ids | `NoDeadlock`; TLC's deadlock check is on |
| `lifecycle` | 2 threads at most, 1 RAS entry at most, 2 connections, 2 processes | `NoEmptyCallback`, `SettingsAreServed`, `NothingRunsAfter`, `DestructorReturns` |
| `lifecycle_callback` | 1 thread, 1 process | **violated**: `CallbackIsSet` |
| `request` | `DataMaxLength` 8192, six lengths, both byte orders of both machines; 3 hosts, 2 ports and none, 5 paths | `WholeOrNotAtAll`, `TargetIsMeant`, `PacIsServed` |
| `request_header` | length 8191 | **violated**: `HeaderAsDocumented` |

`CHECK_DEADLOCK FALSE` everywhere but in `lock_order`: the bounds are reached,
browsers, remote hosts and the peer may all fall silent for good, a request is
done, the last process is gone.  What must not stop is stated as liveness
instead, and in `proxy` as what holds once everything has settled.

**Bounds.**  `QueueMax` stands for 64.  With 2 the re-arming mark
`QueueMax \div 3` is 0, the edge at which a strict comparison would never re-arm;
with 3 (`server_throttle`, `client_any`) it is 1, so that reading restarts with a backlog and the queue can fill
again while it drains.  `MaxReads` exceeds `QueueMax` in the throttling runs: the
queue fills, drains to the mark and fills again.  `MaxReads` bounds pushes with
the guard `pushed[c] <= MaxReads` in `Relaying`; the answer or request and the closing
`tcp_disconnect`s are not bounded by it.  `MaxFrames` bounds the peer's data.  Two ids are what the owner
variable can confuse; a third adds waiting but no new pair of actors.  One id
is enough for throttling, which involves one connection only.  The
peer's data and the writes are left to the runs with one id: they share nothing with
the queues of another connection.  Threads and ids are interchangeable (`Symmetry`) in
`lock_order`.
`proxy` has one connection: the two managers of a connection with both queues
of each are what it adds; connections that share a manager are in `server_relay`
and `client_relay`.  `MaxPushes` bounds the pushes of both ends together: with 3
each end can have its answer or request, two chunks and a `tcp_disconnect` under way,
more than `QueueMax`.  Three threads in `lock_order` are one
more than the shortest ring and as many as the mutexes of the longest chain of
calls; the theorem covers any number.  Two processes in `lifecycle` are the
settings left by one and met by the next.  The lengths in `request` are on both
sides of `data_max_length` (with the two bytes of the length field) and of 2^16,
and one that 16 bits cut to a plausible number (65600 to 64).  Its paths are the root, the PAC
file with and without a query, and two with a colon, one of them followed by what could be a port;
its hosts are this machine by either name and another.  The proofs below do without any
of these bounds, except that `MaxReads` and `MaxFrames` remain as arbitrary
naturals.

**Fairness.**  Weak fairness of the host's thread, which finishes every send and goes through the two
blocks of `send_complete()` with nothing to wait for; in the client, of `SetConnected` (a `recv()`
that has begun); in the server, of the
steps of `on_connect()` (an asynchronous operation ends, with success or
failure).  In `Lifecycle`: of the destructor's steps (one thread runs them), of
the end of handlers that have begun, and of `run()` returning where it must; none
of browsers, of handlers that may begin, or of the host deleting the manager.
No fairness of browsers, remote hosts, the peer's frames or the posted removals.

`ReadResumes` and `ReadResumesOnceAnswered` say that a connection that is throttled with a
backlog gets a read that is outstanding on a running pool, and not only the flag
`is_reading_`.  They have one exception, `pool = "exited"`: when the only connection of a
server is throttled no operation is outstanding, the pool's threads end, and the
read that a completion then starts is never run (the cause of finding 1).  The client's pool
is kept alive by its acceptor until an `async_accept` fails.  Nothing is promised to a connection without a
backlog: if the whole of it completes between the unlock and `is_reading_ = false`
of the same callback, `enable_read_some()` finds the flag still set, the callback then
clears it, and nothing re-arms reading.  With 64 tuples
that takes 64 sends of the host inside two instructions; it is listed as a
hazard that no property covers.
`AnswerArrives` is about connections that start while the pool runs; what happens to the others
is `server_pool`.

**Findings.**

1. `server_pool`: the threads of the server's `ioc_` are created for the first
   connection only and there is no work guard.  When no operation is
   outstanding they return; a later `tcp_connect` starts a resolution whose
   callback is never run.  (`src/sunny_server_manager.cpp:277`)
2. `client_answer`: `is_connected_` is set outside `recv_buffers_mutex_`; a chunk
   read at that moment is sent by the read callback and again by
   `set_connected()` (`src/sunny_client_manager.cpp:187`).  With `ReadRaces`
   `FALSE` the run still fails: `send_disconnect()` before the answer is sent at
   once (286), and again by `set_connected()` if the answer arrives before the
   posted removal.  In a debug build `assert(send_ready_)` (260) fails.
3. `lifecycle_callback`: `start()` runs the acceptor and the threads
   (`src/sunny_client_manager.cpp:469`) before `set_callback()` (474), and returns
   `false` with both running if a thread cannot be created.  A browser that
   connects then has its request call an empty `std::function`, inside a thread
   of the pool.  `assert(send)` (466) and `assert(cb)` (345) mean it to be there.
4. `request_header`: `connect_url_port()` puts a request of any length into one
   frame (`src/sunny_client_manager.cpp:69`); from 8191 bytes on the frame is longer than
   `sunny_common.h:25` and the assertion in `recv()` (`src/sunny_server_manager.cpp:388`)
   allow.  `recv()` refuses it, the demo host ignores that, the browser waits.
5. `request_header` again: `sunny_common.h:14` says that the header's fields "transfer with
   big endian"; they go as they lie in memory.  The run's one state shows both: a
   length field of 1, 32, 0, 0 for 8193.

What else the properties of `proxy`, `lifecycle` and `request` say of the code, each an
exception they name exactly:

* `ClosesTogether`: a connection that closes with a backlog never sends its
  `tcp_disconnect`, since `send_complete()` no longer finds the client; the peer
  keeps its end (line 291).  And an end whose request was refused has no other end.
* `NobodyIsForgotten`: a refused request (finding 4) and a resolution on a pool
  that has exited (finding 1) leave the browser waiting.
* `UpstreamInOrder`: not with `ReadRaces`, where a chunk is sent twice (finding 2).
* `NoEmptyCallback`: how long an empty callback may be met: inside `start()` from the
  first thread on, and for good when `start()` has failed.  Never once it has
  returned `true`, so never by a browser that the settings of this process sent.
* `SettingsAreServed`: settings left by a process that ended
  without the destructor, and a system call that failed half way.
* `WholeOrNotAtAll`: the request's own length field is cut to 16 bits, but what that could
  garble is refused for the length of its frame; between machines of
  different byte order nothing gets through.
* `TargetIsMeant`: the port is taken together with the path behind it for every
  `http://host:port/...`, and from a colon in the path of a URL without a port.
* `PacIsServed`: not for local port 80.

## 4. Proofs

Each theorem holds for every value of the constants that the assumptions below
allow.  *Run* is the run in which TLC checks the same property on an instance.

| Module | Theorem | States | Run |
|---|---|---|---|
| `ServerManagerProofs` | `TypeCorrectness` | `[]TypeOK` | `server_relay` |
| | `OneInFlightTheorem` | `[]OneInFlight` | `server_relay` |
| | `SingleSendTheorem` | `[]SingleSend` | `server_relay` |
| | `SocketDisciplineTheorem` | `[]SocketDiscipline` | `server_throttle` |
| | `BacklogBoundedTheorem` | `[]BacklogBounded` | `server_throttle` |
| | `Refinement` | `FramesInOrder` | `server_relay` |
| | `AnswerFirstTheorem` | `[]AnswerFirst` | `server_relay` |
| | `ClosedIsRemovedTheorem` | `[]ClosedIsRemoved` | `server_throttle` |
| | `WrittenInOrderTheorem` | `[]WrittenInOrder` | `server_throttle` |
| | `LossInvariance`, `NothingIsLost` | `[]LossInv`, `[][\A c \in clients_map_' : Grows(c)]_vars` | |
| `ClientManagerProofs` | `TypeCorrectness` | `[]TypeOK` | `client_relay` |
| | `SingleSendTheorem` | `[]SingleSend` | `client_relay` |
| | `SocketDisciplineTheorem` | `[]SocketDiscipline` | `client_any` |
| | `BacklogBoundedTheorem` | `[]BacklogBounded` | `client_any` |
| `ClientStreamProofs` | `DataWaitsForAnswerTheorem` | `[]DataWaitsForAnswer` | `client_any` |
| | `ClosedIsRemovedTheorem` | `[]ClosedIsRemoved` | `client_any` |
| | `WrittenInOrderTheorem` | `[]WrittenInOrder` | `client_any` |
| | `OneInFlightTheorem` (under `Quiet`) | `[]OneInFlight` | `client_relay` |
| | `Refinement` (under `Quiet`) | `FramesInOrder` | `client_relay` |
| | `LossInvariance`, `NothingIsLost` (under `Quiet`) | `[]LossInv`, `[][\A c \in clients_map_' : Grows(c)]_vars` | |
| `ProxyProofs` | `Invariance` (under `Quiet`) | `[]` of the invariants of both managers and of the wire | |
| | `PeerKeepsToProtocolTheorem` (under `Quiet`) | `[]PeerKeepsToProtocol` | `proxy` |
| | `NobodyIsForgottenTheorem` (under `Quiet`) | `[]NobodyIsForgotten` | `proxy` |
| | `ClosesTogetherTheorem` (under `Quiet`) | `[]ClosesTogether` | `proxy` |
| | `UpstreamTheorem` (under `Quiet`) | `UpstreamInOrder` | `proxy` |
| | `DownstreamTheorem` (under `Quiet`) | `DownstreamInOrder` | `proxy` |
| `LifecycleProofs` | `NoEmptyCallbackTheorem` | `[]NoEmptyCallback` | `lifecycle` |
| | `SettingsAreServedTheorem` | `[]SettingsAreServed` | `lifecycle` |
| | `NothingRunsAfterTheorem` | `[]NothingRunsAfter` | `lifecycle` |
| `LockOrderProofs` | `NoDeadlockTheorem` | `[]NoDeadlock` | `lock_order` |
| `RequestProofs` | `Invariance` | `[]RequestInv` | |
| | `WholeOrNotAtAllTheorem` | `[]WholeOrNotAtAll` | `request` |
| | `TargetIsMeantTheorem` | `[]TargetIsMeant` | `request` |
| | `PacIsServedTheorem` | `[]PacIsServed` | `request` |

**Assumptions.** `SidsAssumption` (`Sids # {}`: `current_sending_user_` has some value
before the first send), `QueueMaxAssumption` (`QueueMax > 1`), `BoundsAssumption`
(the bounds are naturals), `EnvironmentAssumption` (the three constants of
`ClientManager` are Booleans), `ProxyAssumption`, and `BoundsAssumption` of `Lifecycle`.  Of
`Request`: `SizesAssumption` (`data_max_length` is below 65281, as its 8192 are,
`src/sunny_common.h:30`, no request is empty, and its frame is below 2^24 bytes, so that
three bytes hold its length) and `TextAssumption` (hosts, ports and the parts of paths are
not what the code searches for, but for colons in a path).
TLC evaluates them in every run whose module has them.  `LockOrderProofs` needs none.

### The sending half

`MainTransportProofs` proves one group of lemmas per concern, each with a lemma
per operator (`PushTuple`, `FinishSend`, `PopTuple`, `PopFrame`), so that a manager's proof only
has to show that it calls the operator as the lemma expects:

* *Types and one send*: `QueuesTypeOK` and `SingleSend` survive every call, whoever
  makes it.  They do not need the discipline that the next group does, and so
  hold in `ClientManager` with all its races.
* *The whole invariant*, `TransportInv`: types, `SingleSend`, `OneFramePerClient`,
  `FrameIsFront` and three facts about numbers.  `Numbered`: a client's queue holds
  its last pushes.  `HandedInOrder`: what was handed over is 1, 2, 3, ...
  `LiveHanded`: exactly the first live frame has been handed over.  None of the three
  is of interest by itself; together they give the next number to be handed over,
  which is what `FramesInOrder` needs, and `FrameIsFront` is not inductive without
  `OneFramePerClient`.  A push is sent at once only if it is alone in its queue
  (`PushAlone`) and else waits (`PushWaits`); `SendFrontKeeps` is the handover by
  `set_connected()`.
* *The tuples of a connection*: `Known(c)`, those that wait or were handed over, grows
  by a push only; `Queued(c)` are those that wait for the transport.
* *Nothing is lost*: `Grows(c)` says of a step that what was handed over stays first
  and that a tuple that waits goes on waiting or is handed over.  `NothingIsLost` claims
  it for the clients that are still in the map behind the step: one that has left it
  lives until its last handler is done and takes its queue with it, while the
  models keep the queue as a value.

`Live` is the set of positions whose frame is not finished.  Between the two
blocks of `send_complete()` the first frame is still in the queue though its
client has been told it was sent and may have appended its next one.  Without
this shift `OneFramePerClient` would be false in exactly that window.

### server_manager

**The inductive invariant** `IInv` is `QueueInv /\ SocketInv`.

* `QueueInv` adds to `TransportInv` `clients_map_ \subseteq Sids` and `BacklogIsServed`,
  which justifies "send only if alone": a queue of a client in the map is non-empty
  only if a frame is in flight.
* `SocketInv` has a conjunct per concern.  `BeforeAnswer`: nothing is read or
  pushed before `on_connect()` has ended.  `Reading`: a read is outstanding only
  while `is_reading_`, so the completion, which re-arms only when the flag is
  clear, never starts a second one.  `Writing`: a write is that of the front
  chunk.  `Backlog`: reading and a full queue exclude each other; the allowance
  is the tuple of a failed write.

**What is sent and written.**  `AnswerFirst` and `ClosedIsRemoved` speak of `out`, but
what goes there was pushed long before.  `StreamInv` therefore speaks of `Known(c)`:
a pop hands over a tuple that waited (`FrameIsFront`).  `Answered`: a `tcp_connect` is
push number 1, and data are pushed only once reading was started (`WasRead`), which
is behind the answer.  `Closed`: a `tcp_disconnect` comes with the removal.  That
numbers are positions in `out` (`HandedInOrder`) then gives the properties.
`OrderInv` says that what was written and what waits in `send_buffers_` are
consecutive chunks, that the write outstanding is of the front, and that the last
chunk is the last one received as long as the client is in the map; a failed write
leaves its chunk, so that no later one is started.  It needs `StreamInv` for
`recv()`: data come only when `on_connect()` has ended, so they never meet the write of the
request.  `LossInv` (`Told`): a connection that is done has handed over, or queued for it,
what `on_connect()` ended with, and a posted removal was announced.

### client_manager

What holds *whatever* meets `set_connected()` is separated from what needs it to be
undisturbed, and the separation is visible in the statements.

* `SocketInv` (`BeforeRequest`, `BeforeAnswer`, `Connected`, `Reading`, `Writing`, `Backlog`)
  mentions no frame, and rests on nothing but `QueuesTypeOK` and `SingleSend`.
  `Connected` is the only new concern: between the two steps of `RecvAnswer` and
  `SetConnected` the flag is set and the client still in the map, because
  `clients_map_mutex_` is held.  Hence types, one send at a time, the discipline of the sockets and
  the bound of the backlog are theorems for all eight values of the three
  constants, double sends and pops of an empty queue included.
* `TupleInv` too: `HeadHanded` (the frame in front was handed over), `Requested` (the
  first frame is the request), `Gated` (data is queued or handed over only when
  `MaySendData`, which says `is_connected_` and, inside `set_connected()`, `ReadRaces`),
  `RequestFirst`, `Closed`.  So even the double send of finding 2 sends no data that
  precedes the answer.
* `OrderInv` too: what is written is consecutive chunks, from the payload of the
  answer or from the first data.  Which of the two is not a function of the state
  before anything is written; `Consecutive(c, b)` has it as `b`.
* `FlowInv` needs `Quiet == ~ReadRaces /\ ~CloseRaces /\ ~LateCompletion`.  It is `TransportInv`,
  `~corrupted`, and what replaces the server's `BacklogIsServed`, which is false of the
  client, whose browsers may send before there is an answer: `Served` (once answered a
  backlog has a frame in flight), `Held` (before, nothing of the backlog of a
  client without a frame was handed over, so `set_connected()` may send its front) and
  `Settled` (no frame of the client is queued between its two steps).
  `OneInFlight`, `FramesInOrder` and `LossInv` rest on it.  The hypothesis is not a
  convenience: `client_answer` shows that without it the code's own assertion fails.
  The theorems about the pair inherit it.

### The pair

`Proxy` instantiates both managers; `ProxyProofs` instantiates their proofs (`CP`, `SP`)
and uses the lemmas `NextKeeps...`, not the theorems: a step of `Proxy` is a step of
`CP` or leaves its variables alone, and the same for `SP` (`ClientNext`, `ServerNext`).
The bound `MayRead` lies below `MaxReads` of the manager, `AnswerTaken` is
`SetConnected` with one of its choices, `ToServer` and `ToClient` are steps of the assumed
peer; a refused request is no step of the server.  `ManagersInv` collects the
invariants of both.  Every theorem is stated under `Quiet`, for the sake of the client's
`FlowInv`; what holds of the pair without it is model-checked only
(`CloseRaces`, by `proxy`).

`WireInv` relates the two.  `Started`: a connection of the server begins with the
first frame that arrives, unless that is `refused`, and then never.  `AnswerArrived`: the client was answered when the first frame
to come back was a `tcp_connect`.  `ServerEnd`, `ClientEnd`: an end drops a connection when
the other end's `tcp_disconnect` arrives, and otherwise only after it said so itself.  From
`Requested`, `Answered` and the numbers follows `PeerKeepsToProtocol`, so that the
assumptions about the peer in both managers are discharged by each other.  In a
state that is `Settled` everything handed over has arrived, nothing is in flight,
and a backlog with nothing in flight is empty (`Served`, `BacklogIsServed`); what
`LossInv` says was announced has therefore arrived at the other end, which with
`ServerEnd` and `ClientEnd` gives `NobodyIsForgotten` and `ClosesTogether`.  The exception in
`ClosesTogether`, but for the refused requests, is the one tuple of which `LossInv` says it waits, but not that it leaves.

`DataInv` follows the data (`Carried`): the numbers of the `tcp_data` frames that arrived
are 2, 3, 4, ... while the connection is in the map, and every chunk that an end
holds, or has written, stands for the frame of that number.  That is `HandedInOrder`
of one manager meeting `OrderInv` of the other.  Hence what an end has written is
`Upto(Count(...))`, the numbers 1 to some n (`PayloadIsCount`), and n is at most what was
pushed at the other end (`ArrivedWasPushed`).  A step pushes at most one tuple
or writes at most one chunk, never both of the same direction (`NextStreams`), so it
maps to a step of `FrameStream` or to none (`StreamStep`): `UpstreamTheorem` and
`DownstreamTheorem`.

### Lifecycle and locks

`LifecycleInv` has five parts.  `LifecycleTypeOK` bounds the program counter and the loop over
the RAS entries.  `Position`: what the host's thread has done and not undone at its
step; behind `set_callback` there is a callback, unless `start()` has failed.  `CallbackFirst`:
settings that name the proxy were written behind the callback or left by an earlier process.
`CrashedEarly`: a request met no callback only where `Position` allows it.
`SetBack`: unless a call failed or an earlier process left its settings, no entry names
the proxy behind `delete_reg_pac`, and inside its loop none that it has passed.  `NothingRunsAfter` rests on `Position` and on `join`.

The invariant of `LockOrderProofs` is that every thread's stack, with the mutex it waits
for, is a path of `Calls` from a root.  The mutexes have ranks (clients_map 1, a
client's queues 2, impl's queue 3) that rise along every such path (`Rising`).
Hence, in any set of threads that all wait, one that asks for a mutex of the
highest rank is blocked by none of the set: whoever held that mutex would ask for one
of a higher rank.  `CallsUnposted`, the mutant without the `post`, breaks the rise.

### One request

`RequestInv` adds to each stage of a request what is known there: the frame is the one
that `deal_with_data()` built, an accepted length is the one that was sent and that the
host has read in full, the two lengths disagree only between machines of different orders, and a
request that went on is not one for the PAC file.  The work is in what the operators compute.

* *Length fields.*  `Bytes` and `Value` are written out for the widths 2 and 4, so that
  they are arithmetic.  `SameOrder`: a number comes back from a field that is
  wide enough.  `OtherOrder`: read in the other order, two length fields that agree would be
  above `DataMaxLength`; this is where the 65281 of `SizesAssumption` comes from.  In one
  order what 16 bits cut is already too long for `DataMaxLength`.
* *Searching.*  `FindIs` and `FindNone` give the result of `find()` from where the token
  stands and where it does not; `FindFirst` (by the well-foundedness of the naturals, not by
  induction over the text) says that a token that is somewhere is first somewhere.
  `AfterColonOfTail`: the colon found in a line whose front has none is that of its tail.
* *The header.*  `HeaderIs` gives it token by token for every intent.  `FirstLine`,
  `HostNamed` and `HostUnnamed` are the three results of `sub_string`, `GetUrlIs` and `GetPortIs`
  those of the server's parsing, `PacRecognised` and `RecognisedIsPac` the two directions of
  the PAC test.

`TargetIsMeant` is exact: it says which port is taken in each case, also where it is
not the one that was meant (`Misread`).

### Only model-checked

* Every liveness property (`EveryTupleLeaves`, `ReadResumes`, `ReadResumesOnceAnswered`,
  `AnswerArrives`, `DestructorReturns`): temporal reasoning under fairness is out of
  the prover's reach.
* The violations (`server_pool`, `client_answer`, `lifecycle_callback`, `request_header`) are
  counterexamples.
* `Proxy` with `CloseRaces`.  With `ReadRaces` it is not checked: `UpstreamInOrder` is false then.

## 5. Not modelled, and the plan

* **Failure of the main transport.**  `send_complete()` does not read its status
  and neither manager reacts; what a model would say is that nothing more
  arrives.  The demo hosts end the process or delete the session's manager; the
  life of the objects after that (the reference counts of `impl` and `client`, a
  posted `remove_self()` that outlives the `io_context`, the accept handler that
  holds the impl that holds the handler) is listed under the hazards only.
* **`server_manager`'s start and destructor**: `start()` only stores the callback,
  and the destructor is the stop and join of `Lifecycle`, on threads that the
  first connection starts (`ServerManager`'s `pool`).
* **Bytes**: how `async_read_until` collects the header and what it reads beyond it
  (the debug build's first six bytes included), buffers' contents.  RC4 is a byte
  transformation outside the library.  The Windows calls themselves, logging, and
  the texts of the PAC file and the answers are left out.
* **The wrap of the 32-bit connection id** after 2^32 connections: ids are used
  once here.
* **The command line of `sysproxy.c`** (`usage`, `global`): the library only calls
  `pac` and `off`.

Next, in this order:

1. `client_manager` with `ReadRaces` or `CloseRaces`: which weaker form of `OneInFlight`
   survives the double send.
2. The reference counts of `impl` and `client` as a module beside `Lifecycle`.
3. The failure of the main transport, and what both managers go on doing after it.
