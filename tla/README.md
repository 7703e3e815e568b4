# ProxySocket: a TLA+ verification project

ProxySocket is a reverse proxy. `ProxyServer` has a public address and accepts
public clients; `ProxyClient` runs beside a local server that the public cannot
reach. The two keep one control connection and a pool of proxy connections
between them. A public client is joined to a local connection by one proxy
connection, which carries its bytes both ways; when the session is over the
proxy connection is recycled.

## 1. Inventory

| Component | Source | State | Operations |
|---|---|---|---|
| Tunnel (server) | `Proxyserver/Tunnel`, `Control`, `Server`, `public_connect` | `proxy_connect_map_`, `wait_proxy_connect_map_`, `free_proxy_connects_`, `unhandle_fds_` | accept a public client, ask for or reuse a proxy connection, claim, bind, relay, half close, recycle |
| Tunnel (client) | `Proxyclient/Client`, `Tunnel`, `Client_connect` | `proxy_connect_map`, tunnel map | make a proxy connection, connect to the local server, answer a reuse request, relay, half close, ask for recycling |
| Proxy connection | `lib/ProxyConnect`, `lib/TransConnect.h` | `start_`, `half_close_`, `conn2fd_`, `recv_count_`, `total_count_`, `tran_count_` | `Run`, `handleRead` (message path and splice path), `shutdownFromLocal`, `shutdownFromRemote`, `resetConn` |
| Outgoing buffer | `lib/Buffer` | ring, indices, capacity | `WriteToBuffer`, `WriteToSocket`, `read`, growth |
| Message connection | `lib/CtlConnect`, `lib/ProxyConnect`, `lib/Channel`, `lib/Message` | output buffer, `events_`, epoll interest, `closed_`, `in_buffer_empty_` | `SendMsg`, `HandlerRead`, `HandlerWrite`, `HandlerEvery` |
| Event loops | `lib/Event_loop`, `Epoll`, `Channel`, `Thread_Event_loop`, `Thread_EventLoop_pool` | registered channels, started threads | add, modify, delete, wait, dispatch, start |
| Control plane | `Control`, `Server`, `Client` | `control_map_`, `tunnel_map_`, `unclaimed_proxy_map_`, the acceptors, the public port | NewRequest, NewTunnelReq, NotifyClient, claiming, close of the control connection |
| Local server | `Server/`, `conf/` | clients per thread, task queues, object pool, buffers, time stamps | accept, dispatch, read, write, expire, shut down |
| Test client | `Client/` | sockets | connect, send, receive, close |
| spdlog | `include/spdlog` | | third party |

How they interact. On the server a listening thread runs
`newPublicConnHandler`; the main loop runs the control connection and accepts
proxy connections; workers run proxy connections and the public connections
bound to them. On the client the main loop runs the control connection and the
workers the rest. The threads share the tunnel's maps and vectors (each with
its own lock, never two operations under one) and the fields of `ProxyConnect`.
Between the machines there are many FIFO channels, with no order between them:
the control connection and every proxy connection. That is where the hard
behaviour is: a close is announced on the control connection and must be
applied after payload on a proxy connection; control messages and payload share
the proxy connection's byte stream and only the receiver's `start_` tells them
apart; and the end of a session is noticed by two threads on each side.

What makes each part correct:

* tunnel: bytes of a session reach its own peer, complete and in order, before
  FIN does; a proxy connection carries one session at a time and is recycled
  once; every accepted client is served; no claim finds the list of waiting
  clients empty;
* buffer: a bounded FIFO of bytes that accepts what fits;
* control plane: a claim finds the control and the tunnel it names; each waiting
  public connection has a proxy connection on the way; a client gets its tunnel;
* message connection: messages leave whole, once and in order; what is unsent or
  unread is known to epoll; a close is handled after everything has been read;
* event loops: a thread always comes back to `epoll_wait`;
* local server: shutdown ends; a pooled object is used by one client; every
  request is answered or accounted for; idle clients and only they leave.

`PROJECT.json` lists the hazards line by line.

## 2. Modules

| Module | What it is |
|---|---|
| `ProxyTunnel` | one tunnel: both programs, their threads, the control connection and the proxy connections |
| `MCProxyTunnel` | `ProxyTunnel` for TLC, with symmetry |
| `ControlPlane` | ProxyClient processes and one ProxyServer: handshake, tunnels, public port, claims, loss of a client |
| `Connection` | one message connection on an event loop, with the threads that send over it |
| `LoopThreads` | the event loop threads of a program: start-up, pool, choice of a thread |
| `RingBuffer` | `lib/Buffer` |
| `MCRingBuffer` | `RingBuffer` for TLC, with a bound on the bytes |
| `BoundedQueue` | what `lib/Buffer` promises: a FIFO of bounded length |
| `LocalServer` | the local server: acceptor, ThreadServers, their task threads, start and shutdown |
| `ClientPool` | the local server's clients: object pool, buffers, messages, answers, expiry |
| `ProxyTunnel_proofs` | types; a claim always finds a waiting client; a public fd is in one place and given to one session; what a step can do, and where a proxy connection is |
| `Sessions_proofs` | what a public client receives is what its own session's local connection sent; in every session FIN comes behind the data |
| `RingBuffer_proofs` | types, room for every copy, and the refinement of `BoundedQueue` |
| `LocalServer_proofs` | types, threads end before their ThreadServer is deleted, who holds which fd, the count of clients, a ThreadServer for every client |
| `ClientPool_proofs` | types, the pool is exact, no message waits, answers are exact, idle time is counted |
| `ControlPlane_proofs` | types, claims find their tunnel, waiting clients are covered |
| `Connection_proofs` | types, order of messages, close after reading, nothing unknown to epoll |
| `LoopThreads_proofs` | types, no connection without a loop, even load |

The modules divide the system by what can be wrong in it. `RingBuffer` shows that
the buffer is a queue when it is used by one thread; `Connection` uses it as a
queue of whole messages and adds the second thread and epoll; `ControlPlane` and
`ProxyTunnel` take from `Connection` that messages arrive in order, once, and
that a close is noticed after them, and take a message as handed over when
`SendMsg` is called. `ControlPlane` ends with a claimed proxy connection, where
`ProxyTunnel` goes on, with one tunnel that is set up. `LocalServer` has the
threads and fds of the local server without what its clients say, `ClientPool`
what one ThreadServer does for its clients without start and shutdown.

### ProxyTunnel

State and code: `pconn[s][c]` is the `ProxyConnect` object of side `s`;
`stream[s][c]` the bytes travelling to side `s` on proxy connection `c`;
`ctl[s]` the control messages travelling to side `s`; `proxyMap`, `waitMap`,
`freeList` and `unhandled` the four containers of the server's `Tunnel`;
`relay[e]` the `PublicConnect` or `ClientConnect` that reads endpoint `e`;
`sock[e]` the socket behind it; `job[s][t]` where a thread is inside a handler.
`life[c]` says how far the server is with a new proxy connection
(`"backlog"`: in the listen queue; `"unclaimed"`: in `unclaimedProxyMap`).
`bound`, `ran` and `raced` are history for the properties (`ran` also names the
next local connection). `held` has the workers that are inside `readn`. `raced` collects the connections that two threads of one
side have been completing at the same time (`Completing`): there the slower one
may half close, reset or free what already is the next session.

A handler is one action up to the point where another thread can see what it
has done and act before it goes on. There it is split, and `job` says what
comes next:

* `newPublicConnHandler` sends the reuse request (`ReuseProxyConn`), then adds
  the connection to `wait_proxy_connect_map_` (`AddWaitProxyConn`);
* `handleProxyNotify` and `HandleProxyConnectReq` send their message, then
  call `Run` (`StartLocalConn`);
* `handleRead` splices and counts (`SplicePayload`), compares the counts
  (`CompareCounts`), shuts down (`ShutdownFromRemote`, under `close_mutex_`),
  and frees (`FreeProxyConn` checks, `RecycleProxyConn` moves; on the client
  `SendFreeConnReq`). The main loops enter the same sequence after
  `ShutdownPeerConn`. In the worker's path the comparison is made once in
  `handleRead` and again in the handler it calls; nothing happens between the
  two that the second would not see, so they are one step;
* EOF on an endpoint half closes (`RelayEof`), then announces the count
  (`SendShutdown`).

Steps that are merged: `Run` and the insertion in `proxy_connect_map_`
(`BindPublicFd`). Only the main loop can look between them, and what it would
do there (drop a close, refuse to free) it may also do just before. The erase
from `wait_proxy_connect_map_` that follows is merged for the same reason.

Abstractions: payload is numbered units, so a unit stands for a run of bytes
that is spliced at once; a control message is one element of the stream; a splice
moves to the endpoint all that it took from the connection; `tcp_connect`
succeeds; neither program and no proxy connection dies; the tunnel has been set
up; the flags `closed_` and `in_buffer_empty_` of its connections start FALSE
(`Connection` has what raw memory in them does).

A message path that meets payload takes it for a length and a body
(`DropPayload`). Where the bytes end before the length or the body does, `readn`
does not return: it tries again on EAGAIN, with nothing else for that worker to do,
until enough has come (`held`, `ReadnGoesOn`), and takes payload that belongs to
the session that `Run` has started meanwhile. How many units a message
swallows is left open, so each of them may be the last. (A length below 4 makes
the length of the body wrap to a negative `int`, and `readn` returns at once.) That
payload happens to look like one of the messages is not modelled.

Every proxy connection has a worker of its own: with fewer workers than
connections a run of the code has fewer interleavings, and the model contains
them, but for one thing: a worker that stays in `readn` holds up every connection it
serves, not only its own, which is why `WorkerHangs` is about all workers.

`Run` is one step. The code sets `start_` before `conn2fd_`
(`ProxyConnect.cpp:70-72`), and payload of a public client that has sent early may be
spliced to a `conn2fd_` that is not set; the model leaves that out.

The environment: public clients and the local server send at will and close at
will. `Eager` names the proxy connections on which the local server may close
before it has read EOF; on the others it serves until its client leaves, as a
request/response server does.

### ControlPlane

A ProxyClient that is started again is another element of `Client`, because the
server sees nothing of the old one in it. `up[k]` and `down[k]` are the two
directions of `k`'s control connection; `backlog[a]` and `edge[a]` the listen
queue of an acceptor and whether epoll has an event for it; `main` follows the
server's main loop through an accept loop and through `handleNewTunnelReq`, which
is split where another thread can act: the public port is open (`HandleNewTunnelReq`),
the tunnel is in `tunnel_map_` (`AddToTunnel`), the answer is sent
(`SendTunnelRsp`). `worker[c]` follows `claimProxyConn`, which looks at
`control_map_` twice (`ClaimFind`, `ClaimProxyConn`). `Die` may come at any
moment. `crashed` says that the server has dereferenced the null entry that
`control_map_[ctl_id]` makes; nothing happens after that.

Abstractions: the ids of `random_str` differ from each other; public
connections take new proxy connections (reuse is `ProxyTunnel`); the registration
of a new proxy connection with its worker is immediate and the flags `closed_` and
`in_buffer_empty_` start FALSE (`Connection` has that race and that memory). An
accept loop ends when the listen queue is empty (`AcceptDone`); in the code any error
of `accept()` ends it (`Server.cpp:37`), and what is left in the queue waits for
the next event, as it does when `edge` is lost.

### Connection

One `CtlConnect`. (`ProxyConnect` has the same handlers on its message path, but its
`SendMsg` takes no mutex; only `reqStartProxy` calls it, on the one thread that
listens for public clients.) `interest` and `ready` are what epoll knows, `events` and `report` the
fields `events_` and `revents_`, `closed` and `eof` the flags `closed_` and
`in_buffer_empty_`. `data`, `rd` and `wr` are the buffer and its indices, as
positions since its first use: `WriteToBuffer` copies behind `wr` and then moves
it, `WriteToSocket` writes what is between `rd` and `wr` and moves `rd`, without
a lock. `pc` follows the loop thread, `send[t]` a thread inside `SendMsg`, which
may be the loop thread itself (`pc = "reply"`: a handler answers). A step is what
a thread does up to its next access to something shared; `local[t]` is the copy
of `events_` that a thread has read and has not used yet, in `Addevents` and in
`PollMod`.

epoll is modelled from its use: an event puts the fd on the ready list, ADD and
MOD look at the socket again, `epoll_wait` takes it off (`ET`). `adder` is the
thread in `PollAdd`, which registers the fd and only then enters it in
`fd_channel_`.

Three history variables name what the code gets wrong, so that the other
properties can say that it is the only thing: `raced` (the loop thread and a
`SendMsg` were both between reading `events_` and calling `epoll_ctl`), `dropped`
(an event came before `fd_channel_` knew the fd) and `raw`: neither `closed_`
(`Channel.h:51`) nor `in_buffer_empty_` (`Connect.h:23`) is initialised, so each may be
true from the start, and `raw` says which were. A true `in_buffer_empty_` lets
`HandlerEvery` call the close handler at the hangup with messages unread, together with
a true `closed_` it calls it for a living peer, and a true `closed_` alone keeps
`HandleEvents` from ever calling `HandlerWrite`.

Abstractions: messages are of one size and the peer's arrive in two parts; the
socket can always be written; the buffer has room for `Capacity` messages and does
not grow meanwhile.

### LoopThreads

`at` follows the main thread through the constructors of the threads,
`ThreadEventLoopPoll::Run`, `StartRun` and then the main loop; `pc[i]` follows thread
`i` through `WaitRun`. `start`, `loop`, `word` are `start_`, `loop_` and `mutex_` of each
thread, `threads` and `nextId` the fields of the pool. Thread 0 is the server's
`publicListenThread_`.

`ThreadEventLoop` declares `thread_` before `mutex_` and `cv2_` and initialises no
`start_`, so the thread runs on memory that is not set up. The model makes that
explicit: `NewThread` starts the thread with any `start_` of `RawStart` and any
mutex of `RawWord`, and `ConstructMutex`, a step of its own, stores the free mutex
over whatever the thread has made of it, as `std::mutex` does with the compilers
in use. A mutex is three-valued, as in the C library: a sleeper is woken by an
unlock that finds it waited for, and so not by a constructor. `cv2_` needs no
state of its own: nobody waits on it before it is constructed. `wait()` may
return without having been notified (`SpuriousWakeup`).

The constructor of a connection copies `loop_` (`PickRandThread`), `AddConnect` uses
it: `orphan` says that a connection was made without one, `at = "crashed"` that an
empty one was used. `early` and `raced` name the two mistakes, for the properties
that say what holds without them.

### RingBuffer

`data`, `capacity`, `readIndex`, `writeIndex` are the fields of `Buffer`; `pc`,
`insert` and `newcap` follow one call of `WriteToBuffer` through `MustInsert`,
the growth loop, `resize` and the copy loop. A failed `write()` is an action
that does what the code does with the `size_t` it gets, and `failed` says that there was
one. `BoundedQueue` is instantiated with the stored bytes, oldest first, and
the message that is being written: it accepts a message only if all of it fits,
appends exactly that message, gives bytes out in order, and promises nothing after
a `write()` that fails.

### LocalServer

`at[t]` is where a thread is, `isRun[t]` and `sem[t]` are the fields of its
`ThreadControl`; `main` follows the main thread through `Start` and `Close`.
`buf`, `clients`, `change` and `fdset` are `ClientsBuf`, `Clients`,
`clientchange` and `fdRead_back` of each ThreadServer; `acc` holds the local
variables of `addclient2pThreadServer`. The mutex of a `ThreadControl` is held
for longer than a step only by `Close` (`Locked`), the mutex of a ThreadServer
only while it moves clients (`at` is `"clear"`).

A pass over `Clients` is one step. Time is abstracted: any client may have
expired. `send()` may fail for a client that has closed since the read pass.
`getTotalClient` reads two sizes without the mutex, so during a move it may
return any of three values (`TotalClient`). What clients say is `ClientPool`, but for
one thing that concerns the threads: a message whose header says 0 bytes, which
keeps the read pass in `RecvData` for ever (`RecvDataHangs`).

### ClientPool

`free`, `made` and `used` are the `ObjectPool`; `obj[o]` is a `ThreadClient`: what
its `RecvBuf` holds, how many answers its `SendBuf` holds, and `_deadtime`.
`client[f]` is the `ThreadClient` of fd `f`, `place[f]` the list it is in. An object
goes back to the pool when the last `shared_ptr` is gone, which is when it is
erased from `Clients`, and is handed out as it was left. `elapsed` is the time
since `lasttime`; it grows without a `checkTime` only while there are no clients.

A message is a header and a rest, so that TCP may deliver half of it. When
`RecvBuf` begins with a rest (its object was recycled with half a message in it)
any length may be read: `Handled` lists what can be left, and with length 0 the
loop in `RecvData` never ends (`hung`). `it--` after erasing the first entry is
undefined, so `CheckTime` may pass over any clients (`skipped`).

Properties about the content of messages follow one fd (`Watched`), whose
clients send (`Talkers`); the other fd makes objects go round. `clean` says that
the object of that client had empty buffers when it was handed out. `owed` counts
its messages, less those that need no answer and the answers that have been sent;
an answer that `push()` drops because SendBuf is full stays owed and is counted
in `dropped`, and `crowded` says that the client has been owed more than SendBuf
holds. (`MaxDropped` bounds `dropped`.)

Abstractions: one ThreadServer, since they share only the pool; a blocking
`send()` takes everything or fails; time is in ticks longer than a round.

## 3. Runs

| Run | Config | Checks |
|---|---|---|
| `one_session` | 1 client, 1 proxy connection, 1 session, 3 units each way, any closing order, fair; 66 218 states | `TypeOK`, `NoTruncation`, `NoWriteAfterShutdown`, `LocalFinEndsSession` |
| `reuse` | 3 clients, one of them without data, 1 proxy connection, 3 sessions, 1 unit, the local server closes last; 1 550 697 states | `PublicGetsPrefixUnlessRaced`, `FdBoundOnce`, `UndealtFdAvailable`, `SessionIntactUnlessRaced` |
| `control_plane` | 2 ProxyClients, 2 public connections, fair; 51 386 states | `ClaimFindsTunnel`, `WaitingAreCovered`, `HandshakeCompletes`, `PublicIsServed` |
| `connection` | 1 sender and the loop thread, 2 calls each, 2 messages of the peer, buffer for 2, added by another thread, any raw flags, fair; 902 167 states | `InOrder`, `CloseAfterDrainedUnlessRaw`, `UnsentArmedUnlessRaced`, `UnreadArmedUnlessRaced`, `LoopReturns`, `QueuedIsSent`, `CloseIsHandled` |
| `loop_threads` | the listener and 2 pool threads, 2 connections each, any raw memory, fair; 71 610 states | `LoopThere`, `StartUpEndsUnlessRaced`, `ThreadsLoop` |
| `local_server` | 2 ThreadServers, 2 fds, 2 connects, fair; 107 625 states | `TypeOK`, `FdHeldOnce`, `ServerFound`, `FdSetCurrent`, `ClientCountExact`, `ThreadEndsBeforeDelete`, `CloseReturns` |
| `client_pool` | 2 fds, 2 objects (1 at the start), 2 messages in RecvBuf, 1 answer in SendBuf, 1 dropped answer, expiry after 2 ticks, fair; 260 862 states | `TypeOK`, `PoolExact`, `NoMessageWaits`, `AnswersExact`, `IdleIsCounted`, `SilentLeaves`, `RequestsAnswered` |
| `ring_buffer` | 2 byte values, one of them at most once in the buffer, capacity 3 to 11, messages up to 4, write errors; 641 068 states | `TypeOK`, `RoomToCopy`, `IsBoundedQueue` |

Why the bounds are enough.

* Tunnel: three units let two be in flight in different states of counting
  while a third has not been read. Reuse needs three sessions on one connection:
  the slower thread of the first session half closes the second, and the third
  starts on a connection that is still in use. With two sessions
  `PublicGetsPrefixUnlessRaced` and `PayloadOnly` hold without `raced`; with three
  they fail without it. What a second connection or another closing order adds was
  checked on instances larger than the run (three clients, three sessions a
  connection, one unit), where all four properties hold: two connections, one client
  with data (2 584 098 states); two connections, one of them eager, no client with data
  (2 751 354 states); one eager connection, no client with data (409 225 states).
  `CountMod` is 16, above
  every count that occurs, so that the counters behave as ints do below 2^32.
  `MaxSession` and the guard of `NotifyClientNeedProxy` bound the number of
  sessions and of connections and refuse nothing the code refuses.
* Control plane: two clients are one that has the public port and one that
  cannot have it, or one that dies and its successor; two public connections let
  one overtake the other on every way. With three (705 492 states) all
  properties hold too.
* Connection: the loop thread and one other are all who can meet, since `mutex_`
  keeps the senders apart; with two messages each the buffer runs full and empty
  in every place; two messages of the peer let one wait behind the other and
  let the peer close after one and a half.
* Loop threads: two pool threads and the listener are all orders in which a thread
  is made and waited for; two connections each let the round come by twice. With
  three pool threads (1 137 137 states) `LoopThere` holds too, and so does `LoadIsEven`
  (no thread is given two connections more than another), which is proved.
* Ring: capacities 3 to 11 with `DoubleBorderLine` 4 reach every branch of the
  growth computation, including the cut at the largest capacity.
  `DoubleBorderLine` is at least 4 (1024 in the code): below 4 the loop would
  add 0. The buffer never looks at a byte, so one that differs from all others
  (`OneMarked`) shows any loss, repetition or change of order.
* Local server: two fds and two connects let one fd be used twice and both
  ThreadServers hold a client; `MaxClient` 3 is the smallest that
  `LocalServerAssumption` allows, so that clients counted twice fill a
  ThreadServer. A pass that skips clients (`Passes`) needs three clients in one
  ThreadServer: all properties also hold with `NumServers` 1, `MaxFd` 3,
  `MaxConnects` 3 and `MaxClient` 7 (248 600 states).
* Client pool: one object at the start and two fds make the pool grow and run
  empty; `RecvSize` 4 holds two messages, `SendSize` 1 makes the second answer not
  fit, and one answer dropped is enough to tell it from those that are sent; two ticks let idle time come in two pieces.

Deadlock is not checked in the modules whose system may come to rest: when every
client has come and gone, or the server has closed, there is nothing left to do.

Runs that find the code at odds with what it says (`findings` quotes the lines):

| Run | What happens |
|---|---|
| `double_completion` | the slower of the two threads that notice the end of a session half closes the next one |
| `lost_wakeup` | `HandlerEvery` and `SendMsg` meet between `events_` and `epoll_ctl`; a message stays in the buffer and epoll is not asked for EPOLLOUT |
| `failed_write` | `write()` on a full socket returns -1, `WriteToSocket` goes on and moves `read_index_` over bytes it has not sent |
| `stale_expiry` | two ticks without clients, then one arrives: the first `checkTime` charges it the time before it came and disconnects it |

More races and limits are in the models without a property of their own:

* both ends close at once on a connection in `Eager`: the server recycles it
  before the client has reset it, and the next request goes to the old local
  connection as payload (`SessionIntactUnlessRaced` therefore leaves out `Eager`);
* the answer to a reuse request overtakes `AddWaitProxyConn`; the public client is
  then never served;
* worker and main loop can both pass the checks of `freeProxyConn` and put the
  connection in `freeList` twice. Two sessions then run on one connection;
  `FdBoundOnce` holds even so (it is proved), and what the sessions get is excepted
  by `raced`;
* a local server that closes before the server has claimed the connection has
  its announcement dropped (`HandleShutdownPeerConn`, first branch), which is
  why `LocalFinEndsSession` speaks of a FIN sent after the claim;
* payload that reaches the client before `Run` is dropped (`DropPayload`), and
  the counts of that session never match, so that the client never asks for the
  connection to be freed; or it leaves a worker inside `readn` (`held`), spinning, which
  then relays nothing on any of its connections;
* a message whose header says 0 bytes keeps a ThreadServer in `RecvData`
  (`RecvDataHangs`, `ReadHangs`), and `Close` waits for it for ever;
* memory with a true `start_` (`early`): `StartRun`, called "阻塞 等待唤醒" (blocks,
  waits to be woken) in `Thread_EventLoop_pool.cpp:17`, returns before the thread has
  a loop, and a connection may meet an empty one (`at = "crashed"`);
* a thread that locks `mutex_` before it is constructed (`raced`) finds it free again
  under its feet; `StartRun` then gets the lock too, finds `start_` false, misses
  `notify_all` and waits for ever, before the main loop;
* a `NotifyClient` that arrives before `NewTunnelRsp` is dropped (`early`), and one
  public connection waits for ever; a dead client's tunnel keeps the public port;
  claims that find no control leave their connection in `unclaimed_proxy_map_`;
* an event that `getReadyChannels` drops because `PollAdd` is not finished is lost
  (`dropped`) when nothing new happens on the socket;
* `OutOfCapacity` refuses messages that would fit, because it adds to the
  capacity and not to the bytes stored;
* `ThreadTaskServer::Close` does not end its thread (`Task`), so the ThreadServer
  is deleted under it;
* a `select()` that fails while `Close` waits leaves `Exit` and `Close` waiting
  for each other, and one that fails before lets a ThreadServer be deleted
  while its thread is on its way out. `CloseReturns` and
  `ThreadEndsBeforeDelete` except these cases by name (`failed`).

`LocalFinEndsSession` asks for the end of a session only when its public client has
sent nothing, because of that dropped payload, and for neither when a worker never
leaves `readn`. `CloseReturns` and `SilentLeaves` except a thread that is in
`RecvData` for ever. `RequestsAnswered` asks for every answer but the dropped ones, and
`AnswersExact` says who can lose one: a client that has been owed more answers than
its SendBuf holds, because it sent on without waiting for them.

`NoTruncation` holds for the first session of a connection and fails once it
is reused (`double_completion`). `PublicGetsPrefixUnlessRaced` and
`SessionIntactUnlessRaced` say what is left of it: as long as two threads of a side
have not completed a session of the connection at the same time, its public
client gets what the local server sent to it, in order (on the server side the
answer to the reuse request separates the bytes of two sessions; this holds
for `Eager` connections too), and where the local server closes last, neither
side sends FIN before the data and neither is given control messages as payload.

Fairness. In `ProxyTunnel` every handler and every step of a thread inside a
handler is weakly fair: the event loops dispatch every ready channel, and
`everyHandle` re-arms the channel with `ModToPoller`, so unread data raises a new
event in spite of edge triggering (what `Connection` shows). Nothing is assumed of
public clients and of the local server. In `ControlPlane` the client's loop, the
server's main loop and each worker are weakly fair; nobody has to start or kill
a client or to connect. In `Connection` the loop thread, `PollAdd` and a thread
inside `SendMsg` are weakly fair; the loop thread gets `mutex_` in the end though
others may overtake it (strong fairness: a mutex that is released again and
again); the peer finishes a message it has begun, as `SendMsg` on the other side
does, and need not send or close. In `LoopThreads` every
thread runs on and gets a mutex that is released again and again; spurious
wake-ups and connections need not happen. `LocalServer` assumes that every thread runs
on, and nothing of clients, of the user and of `select()`'s errors. In
`ClientPool` the thread's rounds are weakly fair for each client that is ready
(`select()` is level-triggered), and time passes: `Tick` is disabled while a
`checkTime` is due and enabled again after it, hence strong fairness.

## 4. Proofs

All theorems hold for every value of the constants allowed by the assumption of
their module; `SessionsIntact` adds one of its own.

* `LoopThreads_proofs` proves type correctness, `LoopThere` and `LoadIsEven` from one
  inductive invariant. `InTurn` keeps `threads_` in step with the place of the
  start-up, so that in the main loop `StartRun` has returned for every thread;
  `StartedIsSet` says that then `start_` is true, and why: it was so in raw memory,
  or `WaitRun` wrote it after `loop_`. Nothing in it needs `mutex_` to exclude anybody.
  `Even` counts the connection being handed over and whose turn has come
  (`Load`, `Turn`), because while a round is on the load is not equal.
* `ProxyTunnel_proofs!TypeCorrect`: `Spec => []TypeOK`. One lemma per kind of
  object (the constructors and updates of the code stay in their type), then
  one per group of handlers.
* `ProxyTunnel_proofs!UndealtFdAlwaysAvailable`: `Spec => []UndealtFdAvailable`.
  The property is not inductive: nothing in it says why a waiting fd is there.
  The invariant `IInv` adds an account (`Account`: the waiting fds are as many
  as the `NotifyClient` messages on their way plus the proxy connections made
  and not yet claimed) and says that a `ProxyMetaSet` is on the stream of an
  unclaimed connection only, and once (`MetaOnce`). `newPublicConnHandler` adds
  one on both sides of the account, `handleProxyNotify` turns a message into a
  connection, `claimProxyConn` removes one on both sides. A `ProxyMetaSet` at
  the head of a stream therefore means that there is an unclaimed connection
  and that the list is not empty.
* `ProxyTunnel_proofs!FdsBoundOnce`: `Spec => []FdBoundOnce`, in the same module. A
  public fd is in one of three kinds of `Place`: it waits in `unhandled` (`Waiting`), a
  reuse request or its answer on a proxy connection names it (`Asking`), or a
  session has it (`BoundTo`). `FdInv` says that a fd is in one place only and once in it
  (`OnePlace`), and nowhere before its client has come. Each handler either takes
  fds away (`AllShrink`), brings a new one (`Appears`) or moves one (`Moves`). Nothing in
  it asks that a connection is freed once, which is why the double entry in
  `freeList` does not disturb it.
* `Sessions_proofs!PublicGetsPrefix`: `Spec => []PublicGetsPrefixUnlessRaced`, for either
  closing order and counters of any width. Payload does not say to which session it
  belongs, so the invariant `SInv` has to say it for every place. On top of the two
  invariants above it has four parts about all connections: `Owners` (a worker works
  for its own connection, a started `ProxyConnect` has the peer its session was
  given, only a bound public fd receives), `Claimed` (a connection that has not been
  claimed is nowhere on the server), `Fresh` (one that has not been made has left no
  trace, and until `handleProxyNotify` has opened the local connection nothing comes
  from the client) and `Newest` (the last local connection of a proxy connection is
  the one that feeds it). `Undisturbed` is about the connections outside `raced`:
  `Flow` says that a connection is in the map, in the free list or between the two,
  and that at most one request or answer is on its way then; `Counts` that server and
  client agree on how many sessions it has carried, the client being one ahead
  while a session is offered. So behind a `ProxyMetaSet` or a `ProxyConnectRsp` lies
  exactly what the new local connection has sent (`Behind`), which becomes, when the
  message is taken, that what the public client has and what is still on the stream
  are together what was sent (`Carried`), and `splice` moves it from one to the other.
  `Received` keeps it for the sessions that are over. `BothComplete` makes `raced`
  exact: two threads can complete a session together only if it is in there. Without that
  set `Flow` is false, since a connection is then pushed onto `free_proxy_connects_` twice.
  The lemmas on `Owners`, `Claimed`, `Fresh`, `Flow`, `Counts` and `Newest` are at the end of
  `ProxyTunnel_proofs`.
* `Sessions_proofs!SessionsIntact`: `ShortSessions` implies
  `Spec => []SessionIntactUnlessRaced`, a property of both directions and the order of
  the two closes in one. `ShortSessions` is `MaxUnits < CountMod - 1`: one end of a
  session sends less than makes a counter wrap or gives the `NoTotal` (-1) that
  `total_count_` starts with. The counters are 32-bit ints, so these are the sessions of
  less than 2^32 - 1 bytes each way. Without it the property is false, because an
  announcement of `NoTotal` cannot be told from none: TLC finds it violated with
  `MaxUnits` 1 and `CountMod` 2. The invariant `JInv` is `SInv` and, for every
  connection outside `Eager` and `raced`, `Orderly`: the connection is at `Rest` or
  `InSession`. `Rest` says that nothing of the last session is left in either
  `ProxyConnect`, on the control connections or in the hands of a thread. `Course` says
  how far a session is: each direction is `unsent`, `coming` (`RelayEof` has found the
  end, or its `ShutdownPeerConn` is on the way), `told` (the count is in `total_count_`)
  or `done` (`shutdownFromRemote` has been through), and the local server's direction
  leaves `unsent` only when the other is `done` (`InOrder`). `Direction` is what holds in
  each stage: there is one announcement, of an end that has finished, with exactly what
  it sent, and no thread is on its way to `shutdownFromRemote` before that count is
  known and reached. `StageStep` then has one lemma for each handler that works on the
  connection, at rest and in a session (`CourseSplice`, `CourseEof`, `CourseSend`,
  `CourseTold`, `CourseCompare`, `CourseShut`, `RestBinds` and so on), and `Idles` for all
  other steps. The rest of `Orderly` ties the stages to the data: `Relays` (a relay object
  that still reads belongs to the session), `LocalEnds` and `Opened` (what the local
  connections of past and coming sessions have), `CarriedOut` (what the public client
  sent arrives in order; if `DropPayload` or `ReadnGoesOn` lost the first of it, the counts never agree
  and there is no FIN), and `Past` (the sessions that are over stay whole).
* `Connection_proofs` proves type correctness and the four invariants that the run `connection` checks:
  `TypeCorrect`, `MessagesInOrder`, `ClosedAfterReading`, `UnsentIsKnown`,
  `UnreadIsKnown`. They share one inductive invariant. Its parts about the buffer
  (`Outbox`, `Locked`, `Copied`, with `InOrder` itself) say that a thread inside
  `SendMsg` has the mutex and that between the copy and the move of the write index
  its message stands right behind that index: `HandlerWrite`, which moves the read
  index at any time, then never takes half a message or one twice. Its parts about
  epoll follow EPOLLOUT and EPOLLIN from hand to hand, from `events_` to the copy a
  thread has taken to the kernel's interest (`OutArmed`, `InArmed`). What raw
  memory in `closed_` and `in_buffer_empty_` allows is in the invariant beside what the
  code sets them for. `Fresh` says
  that, as long as nobody has raced, the copy of a thread in `SendMsg` is up to
  date, which is what its `epoll_ctl` needs in order not to undo the loop thread's.
* `ControlPlane_proofs` proves type correctness and the two invariants of the run `control_plane`.
  `ClaimsFindTheirTunnel` needs `Registered` (the maps are filled before the client
  is told, and a control leaves its map only when its client has died) and
  `Numbered` (what is accepted was made by a client that knew its tunnel, and is
  accepted once). `WaitingCovered` is an account as above, for each client, with
  the dropped `NotifyClient`s as a third kind of cover; it needs `Numbered` so that
  a connection is counted once, `Off` for clients that have not been started, and
  `ClaimsFindTheirTunnel` so that a worker gives up only connections of dead
  clients. `TypeCorrect` needs a second account, `Paid`: no client makes more
  connections than public connections have been accepted.
* `RingBuffer_proofs!TypeCorrect` and `RingBuffer_proofs!CopyHasRoom`:
  `Spec => []TypeOK` and `Spec => []RoomToCopy`. The strengthening says what
  `newcap` is worth in every place of `MustInsert`.
  `RingBuffer_proofs!RingIsQueue`: the ring implements `BoundedQueue`, step by step:
  `WriteToBuffer` is the abstract acceptance, since what `MustInsert` does not refuse
  fits, `CopyAppends` is the abstract append of that very message, `TakeLeaves` the abstract removal of what
  `write()` took, and `ResizeKeeps` says that the three copies of `resize` leave the
  contents as they are, which makes it a stutter. `StoredAt` replaces the remainder
  by a comparison, and `Written` says that what lies between the indices has been
  written. The queue's promise ends with the first `write()` that fails, EAGAIN on a
  full socket included: the code then moves `read_index_` over bytes it has not
  sent, as the run `failed_write` shows, and no promise about the contents could hold.
* `LocalServer_proofs` has three invariants. `IInv` is behind `EndsBeforeDelete`.
  The property says nothing of how Close comes to delete. `IInv` adds that
  nobody passes the semaphore of a thread that has not called `wakeup()`
  (`SemNotEarly`), that a thread which Close has yet to reach runs or has
  failed (`StillRuns`, so that a Close that does not wait has a failed thread),
  that a thread leaves by `Exit` just when its `select()` has failed
  (`FailedLeaves`), that ThreadServers are made and deleted in order
  (`InOrder`) and that a thread Close has dealt with is gone (`ClosedGone`).
  `SemExact` says that each semaphore is raised once and waited for once
  (`TypeCorrect` needs it for the bounds of the counters). `HInv` follows the clients
  from hand to hand: what the acceptor holds is nobody's yet (`Offered`), what the
  ThreadServers hold is apart and open (`Apart`), a client is in both of a
  ThreadServer's sets only while it is moved (`Moving`), and whoever changes `Clients`
  sets `clientchange` (`Current`). `FdsHeldOnce`, `SetIsCurrent` and `CountIsExact` are
  parts of it. `AlwaysServer` needs more, because the acceptor looks at the
  ThreadServers one after the other while they go on working: `Passed` says that
  for those it has passed over there were sets of fds, apart from each other and
  as large as half of `MaxClient`, which still contain what they hold, since only
  the acceptor accepts. When it has passed over all, `TooManyFds` counts them:
  they are more than a process has.
* `ClientPool_proofs` proves type correctness and the four invariants of the run
  `client_pool` from one inductive invariant, `CInv`. `PoolShape` says of `_free_list`
  and of the ThreadClients given out that together they are those that were made,
  that they are apart, and that neither has one twice: two clients never write to
  one object, which is what everything else rests on. `Answers` says more than
  `AnswersExact`, which is not inductive: what is in RecvBuf and on the way is
  headers and rests by turns (`Aligned`), so that `RecvData` finds whole messages and
  leaves less than one, and twice the messages owed less the answers in SendBuf and the
  dropped ones is its length. While no more was owed than SendBuf holds (`~crowded`)
  nothing has been dropped, because the answers in SendBuf and the messages just read
  are together no more than what is owed (`RoomForAll`). `HandledAligned` is what `RecvData` does to it, `SentAligned` what
  the client does, and `RequestsAligned` turns the length into the number of messages.
  It is about a client whose object was handed out empty (`clean`); for the others
  it is false, because `alloc` does not clear the buffers. `LeaveKeeps` is the one lemma behind
  `ReadLeave`, `ReadError`, `WriteError` and `CheckTime`.

Only model-checked: `NoTruncation` and the action property
`NoWriteAfterShutdown`, which no theorem can state for all constants, since both hold
for the first session of a connection and TLC finds each violated with
`MaxSession` 2; and all liveness, which with fairness and ENABLED is outside what the
proof system handles here.

## 5. Where the project could go on

* `ProxyTunnel`: the loss of a proxy connection (`handlePeerProxyConnClose`, whose
  `std::remove` without `erase` leaves it in the free list), and splices that move
  less than they read.
* The end of a registration: `PollDel`, which the destructor of `Connect` calls and
  which leaves the channel in `fd_channel_`.

## 6. Not modelled

* `spdlog` with its copy of `fmt`: a third-party logging library. It is nine tenths
  of the lines under `src/` (about 26 000 of 29 800) and no part of the program's
  logic; the share of the whole tree that these modules model is small for that
  reason alone.
* `Main.cpp` and `main.cpp` parse flags and construct the programs. The test client
  is a special case of the clients the models have. `lib/Utils`, `lib/Message` and
  `lib/ProxyMessage` set up sockets, make random ids and pack bytes.
* Of modelled components: the loss of a single proxy connection, partial splices
  (`ProxyConnect.cpp:90`: the second may move less than the first read, and what stays in
  the pipe is not counted), a
  failing `tcp_connect`, the moment in `Run` between `start_` and `conn2fd_`, payload that
  looks like a message, an `accept()` that fails; the growth of a buffer while another thread drains it; the
  deregistration from epoll;
  the local server's task queue, which nothing fills, and `Dealloc`, `deaddobj` and
  `checksendtime`, which nothing calls; a client of the local server that does not
  read and so blocks `send()` and its ThreadServer.
