----------------------------- MODULE ProxyTunnel -----------------------------
(***************************************************************************)
(* One tunnel of the reverse proxy: ProxyServer accepts public            *)
(* connections, ProxyClient sits beside the local server, and a pool of    *)
(* proxy connections between the two relays bytes both ways.  A proxy      *)
(* connection is created on demand, carries one session at a time and is   *)
(* put back in the server's free list when the session is over.            *)
(*                                                                         *)
(* Threads: on the server the listening thread (newPublicConnHandler), the *)
(* main loop (control connection, proxy acceptor) and the workers; on the  *)
(* client the main loop (control connection) and the workers.  A proxy     *)
(* connection and the endpoint bound to it live on one worker; giving each *)
(* proxy connection a worker of its own allows every interleaving that     *)
(* PickRandThread can produce.  A step of this specification is what a     *)
(* thread does between two points at which another thread can see or       *)
(* change what it works on.                                                *)
(*                                                                         *)
(* Data is abstracted to units; a control message on a proxy connection is *)
(* one element of the same byte stream, as in the code.                    *)
(***************************************************************************)
EXTENDS Naturals, Sequences, FiniteSets

CONSTANTS
    Public,           \* connections of public clients, named by their fd
    Proxy,            \* proxy connections, named by their proxy_id
    MaxSession,       \* bound: sessions one proxy connection carries
    MaxUnits,         \* bound: data units one endpoint sends
    CountMod,         \* the counters are ints: they wrap (2^32 in the code)
    Eager,            \* bound: proxy connections on which the local server may
                      \* send FIN before it has read EOF
    Silent,           \* public clients that send no data
    Main,             \* the main loop's thread
    None              \* no connection, no fd

ASSUME ConstantsAssumption ==
    /\ IsFiniteSet(Proxy)
    /\ MaxSession \in Nat \ {0}
    /\ MaxUnits \in Nat
    /\ CountMod \in Nat \ {0, 1}
    /\ Eager \subseteq Proxy
    /\ Silent \subseteq Public
    /\ Main \notin Proxy
    /\ None \notin Proxy \cup Public \cup (Proxy \X (1 .. MaxSession))
    /\ Public \cap (Proxy \X (1 .. MaxSession)) = {}

Side == {"server", "client"}
Other(s) == IF s = "server" THEN "client" ELSE "server"

\* <<c, i>> is the local connection that ProxyClient opens for the i-th
\* session of proxy connection c.
Local == Proxy \X (1 .. MaxSession)
Endpoint == Public \cup Local
SideOf(e) == IF e \in Public THEN "server" ELSE "client"

Thread == Proxy \cup {Main}
Count == 0 .. (CountMod - 1)

\* total_count_ starts as -1, which as an int is this value of Count.
NoTotal == CountMod - 1

-----------------------------------------------------------------------------
(* Mistakes: wrong versions of operators below.  Each breaks a property that *)
(* the right version satisfies; the specification uses none of them.         *)

\* resetConn forgets start_.
ResetConnKeepsStart ==
    [start |-> TRUE, half |-> FALSE, recv |-> 0, total |-> 0, peer |-> None]

\* shutdownFromLocal forgets that the other direction may have ended before.
ShutdownFromLocalNoReset(k) == [k EXCEPT !.half = TRUE]

\* The counts are not compared.
AllReceivedAlways(k) == TRUE

\* AddTotalCount does not treat -1 apart and does not wrap.
AddTotalCountUnwrapped(k, n) == [k EXCEPT !.total = k.total + n]

\* back() without pop_back(); one unit is read twice.
PopNothing(q) == q
UnreadOffByOne(q, k) == SubSeq(q, k, Len(q))

-----------------------------------------------------------------------------
(* The objects of the code *)

\* The ProxyConnect fields that the two sides share; peer is conn2fd_.
ProxyConnect ==
    [start : BOOLEAN, half : BOOLEAN, recv : Count, total : Count,
     peer : Endpoint \cup {None}]

NewProxyConnect ==
    [start |-> FALSE, half |-> FALSE, recv |-> 0, total |-> NoTotal,
     peer |-> None]

\* resetConn leaves total_count_ at 0, not at -1.
ResetConn ==
    [start |-> FALSE, half |-> FALSE, recv |-> 0, total |-> 0, peer |-> None]

\* What shutdownFromLocal and shutdownFromRemote do to the fields: the first
\* of the two directions to end leaves the connection half closed, the second
\* resets it.
HalfClose(k) == IF k.half THEN ResetConn ELSE [k EXCEPT !.half = TRUE]

\* ProxyConnect::shutdownFromLocal; ShutdownFromRemote is a step of its own.
ShutdownFromLocal(k) == HalfClose(k)

\* Everything the other side has announced is here.
AllReceived(k) == k.recv = k.total

AddTotalCount(k, n) ==
    [k EXCEPT !.total = IF k.total = NoTotal THEN n
                        ELSE (k.total + n) % CountMod]

AddRecvCount(k, n) == [k EXCEPT !.recv = (k.recv + n) % CountMod]

\* A PublicConnect or ClientConnect: the proxy connection it feeds, the units
\* it has fed (tran_count_) and whether it has seen EOF (closed_).
Relay == [conn : Proxy \cup {None}, tran : Count, closed : BOOLEAN]
NoRelay == [conn |-> None, tran |-> 0, closed |-> FALSE]

\* The elements of the byte stream on a proxy connection.
Elem ==
         [kind : {"meta"}, fd : {None}, idx : {0}]
    \cup [kind : {"req", "rsp"}, fd : Public, idx : {0}]
    \cup [kind : {"data"}, fd : Endpoint, idx : 1 .. MaxUnits]
MetaSet == [kind |-> "meta", fd |-> None, idx |-> 0]
ConnectReq(p) == [kind |-> "req", fd |-> p, idx |-> 0]
ConnectRspAsMetaSet(p) == MetaSet   \* a mistake: see above
ConnectRsp(p) == [kind |-> "rsp", fd |-> p, idx |-> 0]
Data(e, i) == [kind |-> "data", fd |-> e, idx |-> i]

\* The messages on the control connection once the tunnel is set up.
CtlMsg ==
         [kind : {"notify"}, conn : {None}, count : {0}]
    \cup [kind : {"shutdown"}, conn : Proxy, count : Count]
    \cup [kind : {"free"}, conn : Proxy, count : {0}]
NotifyClient == [kind |-> "notify", conn |-> None, count |-> 0]
ShutdownPeerConn(c, n) == [kind |-> "shutdown", conn |-> c, count |-> n]
FreeConnReq(c) == [kind |-> "free", conn |-> c, count |-> 0]

\* The socket of a public client or of the local server: what it has sent,
\* how much of that the proxy has read, whether it has sent FIN, what it has
\* received and whether it has been sent FIN.
Socket ==
    [open : BOOLEAN, sent : 0 .. MaxUnits, read : 0 .. MaxUnits,
     fin : BOOLEAN, got : Seq(Elem), eof : BOOLEAN]
NewSocket ==
    [open |-> FALSE, sent |-> 0, read |-> 0, fin |-> FALSE, got |-> <<>>,
     eof |-> FALSE]

\* What a thread is in the middle of: the proxy connection it handles and the
\* endpoint it is about to start or to report.
Job ==
         [pc : {"idle"}, conn : {None}, end : {None}]
    \cup [pc : {"compare", "shut", "free", "push"}, conn : Proxy, end : {None}]
    \cup [pc : {"run", "fin"}, conn : Proxy, end : Endpoint]
Idle == [pc |-> "idle", conn |-> None, end |-> None]
Doing(pc, c) == [pc |-> pc, conn |-> c, end |-> None]

VARIABLES
    pconn,       \* pconn[s][c]: side s's ProxyConnect of c
    stream,      \* stream[s][c]: what travels to side s on c
    ctl,         \* ctl[s]: what travels to side s on the control connection
    life,        \* life[c]: has the server accepted, has it claimed c
    proxyMap,    \* proxy_connect_map_ of the server's Tunnel
    waitMap,     \* wait_proxy_connect_map_
    freeList,    \* free_proxy_connects_
    unhandled,   \* unhandle_fds_
    pendingWait, \* the listening thread has yet to add this to waitMap
    relay,       \* relay[e]: the object that reads endpoint e
    sock,        \* sock[e]: the socket of endpoint e
    job,         \* job[s][t]: what thread t of side s is doing
    held,        \* <<s, c>>: the worker of c on side s waits inside readn
    bound,       \* bound[c]: the public fds c was bound to, in order (history)
    ran,         \* ran[c]: the local connections opened for c (history)
    raced        \* the connections that two threads of a side were completing
                 \* a session of at the same time (history)

vars == <<pconn, stream, ctl, life, proxyMap, waitMap, freeList, unhandled,
          pendingWait, relay, sock, job, held, bound, ran, raced>>

TypeOK ==
    /\ pconn \in [Side -> [Proxy -> ProxyConnect]]
    /\ stream \in [Side -> [Proxy -> Seq(Elem)]]
    /\ ctl \in [Side -> Seq(CtlMsg)]
    /\ life \in [Proxy -> {"absent", "backlog", "unclaimed", "claimed"}]
    /\ proxyMap \in SUBSET Proxy
    /\ waitMap \in SUBSET Proxy
    /\ freeList \in Seq(Proxy)
    /\ unhandled \in Seq(Public)
    /\ pendingWait \in Proxy \cup {None}
    /\ relay \in [Endpoint -> Relay]
    /\ sock \in [Endpoint -> Socket]
    /\ job \in [Side -> [Thread -> Job]]
    /\ held \in SUBSET (Side \X Proxy)
    /\ bound \in [Proxy -> Seq(Public)]
    /\ ran \in [Proxy -> 0 .. MaxSession]
    /\ raced \in SUBSET Proxy

Init ==
    /\ pconn = [s \in Side |-> [c \in Proxy |-> NewProxyConnect]]
    /\ stream = [s \in Side |-> [c \in Proxy |-> <<>>]]
    /\ ctl = [s \in Side |-> <<>>]
    /\ life = [c \in Proxy |-> "absent"]
    /\ proxyMap = {}
    /\ waitMap = {}
    /\ freeList = <<>>
    /\ unhandled = <<>>
    /\ pendingWait = None
    /\ relay = [e \in Endpoint |-> NoRelay]
    /\ sock = [e \in Endpoint |-> NewSocket]
    /\ job = [s \in Side |-> [t \in Thread |-> Idle]]
    /\ held = {}
    /\ bound = [c \in Proxy |-> <<>>]
    /\ ran = [c \in Proxy |-> 0]
    /\ raced = {}

-----------------------------------------------------------------------------
(* Small state changes the handlers share *)

\* pop_back, in getAndPopUndealPublicFd and in popFreeProxyConn.
PopBack(q) == SubSeq(q, 1, Len(q) - 1)

\* What is left on a connection when k units have been taken from it.
Unread(q, k) == SubSeq(q, k + 1, Len(q))

\* A thread on its way from the comparison of the counts to the free list.
Completing(j, c) ==
    j.conn = c /\ j.pc \in {"compare", "shut", "free", "push"}

SetJob(s, t, j) ==
    /\ job' = [job EXCEPT ![s][t] = j]
    /\ raced' = raced \cup
         {c \in Proxy : /\ Completing(j, c)
                        /\ \E u \in Thread \ {t} : Completing(job[s][u], c)}

SetConn(s, c, k) == pconn' = [pconn EXCEPT ![s][c] = k]
SendStream(s, c, x) == stream' = [stream EXCEPT ![s][c] = Append(@, x)]
SendCtl(s, m) == ctl' = [ctl EXCEPT ![s] = Append(@, m)]

\* Number of control messages NotifyClient still to be handled.
Notifies(q) == {i \in 1 .. Len(q) : q[i].kind = "notify"}

\* ProxyConnect::Run on side s: start_, conn2fd_, and conn_ is replaced, which
\* destroys the relay object of the previous session.
Run(s, c, e) ==
    /\ SetConn(s, c, [pconn[s][c] EXCEPT !.start = TRUE, !.peer = e])
    /\ relay' = [x \in Endpoint |->
                   IF x = e THEN [conn |-> c, tran |-> 0, closed |-> FALSE]
                   ELSE IF SideOf(x) = s /\ relay[x].conn = c THEN NoRelay
                   ELSE relay[x]]

\* tcp_connect to the local server for the next session of c.
CreateLocalConn(c) ==
    /\ ran[c] < MaxSession
    /\ ran' = [ran EXCEPT ![c] = @ + 1]
    /\ sock' = [sock EXCEPT ![<<c, ran[c] + 1>>].open = TRUE]

-----------------------------------------------------------------------------
(* The world outside: public clients and the local server *)

Send(e) ==
    /\ sock[e].open /\ ~sock[e].fin /\ e \notin Silent
    /\ sock[e].sent < MaxUnits
    /\ sock' = [sock EXCEPT ![e].sent = @ + 1]
    /\ UNCHANGED <<pconn, stream, ctl, life, proxyMap, waitMap, freeList,
                   unhandled, pendingWait, relay, job, raced, held, bound,
                   ran>>

Fin(e) ==
    /\ sock[e].open /\ ~sock[e].fin
    /\ e \in Local /\ e[1] \notin Eager => sock[e].eof
    /\ sock' = [sock EXCEPT ![e].fin = TRUE]
    /\ UNCHANGED <<pconn, stream, ctl, life, proxyMap, waitMap, freeList,
                   unhandled, pendingWait, relay, job, raced, held, bound,
                   ran>>

-----------------------------------------------------------------------------
(* The server's listening thread: Tunnel::newPublicConnHandler *)

\* A free proxy connection is taken from the back of the list and the client
\* is asked, on that connection, to start it again.
ReuseProxyConn(p) ==
    /\ ~sock[p].open /\ pendingWait = None /\ freeList # <<>>
    /\ LET c == freeList[Len(freeList)] IN
         /\ SendStream("client", c, ConnectReq(p))
         /\ pendingWait' = c
    /\ freeList' = PopBack(freeList)
    /\ sock' = [sock EXCEPT ![p].open = TRUE]
    /\ UNCHANGED <<pconn, ctl, life, proxyMap, waitMap, unhandled, relay, job,
                   raced, held, bound, ran>>

\* The request is already on its way when the map learns of it.
AddWaitProxyConn ==
    /\ pendingWait # None
    /\ waitMap' = waitMap \cup {pendingWait}
    /\ pendingWait' = None
    /\ UNCHANGED <<pconn, stream, ctl, life, proxyMap, freeList, unhandled,
                   relay, sock, job, raced, held, bound, ran>>

\* No free proxy connection: the fd waits and the client is asked for a new
\* one.  The first guard bounds the number of proxy connections.
NotifyClientNeedProxy(p) ==
    /\ Cardinality(Notifies(ctl["client"]))
         < Cardinality({c \in Proxy : life[c] = "absent"})
    /\ ~sock[p].open /\ pendingWait = None /\ freeList = <<>>
    /\ unhandled' = Append(unhandled, p)
    /\ SendCtl("client", NotifyClient)
    /\ sock' = [sock EXCEPT ![p].open = TRUE]
    /\ UNCHANGED <<pconn, stream, life, proxyMap, waitMap, freeList,
                   pendingWait, relay, job, raced, held, bound, ran>>

-----------------------------------------------------------------------------
(* The main loops: CtlConnect::HandlerRead takes one control message *)

NextCtl(s, kind) ==
    /\ job[s][Main] = Idle
    /\ ctl[s] # <<>> /\ Head(ctl[s]).kind = kind
    /\ ctl' = [ctl EXCEPT ![s] = Tail(@)]

\* The client connects to the server's proxy port; the connection waits in
\* the backlog of the server's listening socket.
CreateProxyConn(c) ==
    /\ life[c] = "absent"
    /\ life' = [life EXCEPT ![c] = "backlog"]

\* handleProxyNotify up to SendMsgDirct: connect, register, open the local
\* connection, send ProxyMetaSet.  Run comes after (StartLocalConn).
HandleProxyNotify(c) ==
    /\ NextCtl("client", "notify")
    /\ CreateProxyConn(c)
    /\ CreateLocalConn(c)
    /\ SendStream("server", c, MetaSet)
    /\ SetJob("client", Main,
              [pc |-> "run", conn |-> c, end |-> <<c, ran[c] + 1>>])
    /\ UNCHANGED <<pconn, proxyMap, waitMap, freeList, unhandled, pendingWait,
                   relay, held, bound>>

\* The peer announces how many units it has relayed.  Only the server's map
\* can lack the proxy connection; the client's keeps every one it made.
HandleShutdownPeerConn(s) ==
    /\ NextCtl(s, "shutdown")
    /\ LET c == Head(ctl[s]).conn IN
         IF s = "server" /\ c \notin proxyMap
         THEN UNCHANGED <<pconn, job, raced>>
         ELSE /\ SetConn(s, c, AddTotalCount(pconn[s][c], Head(ctl[s]).count))
              /\ SetJob(s, Main, Doing("compare", c))
    /\ UNCHANGED <<stream, life, proxyMap, waitMap, freeList, unhandled,
                   pendingWait, relay, sock, held, bound, ran>>

HandleShutdownLocalConn == HandleShutdownPeerConn("client")
HandleShutdownPublicConn == HandleShutdownPeerConn("server")

-----------------------------------------------------------------------------
(* The rest of the server's main loop *)

\* Server::newProxyConnHandler
NewProxyConn(c) ==
    /\ job["server"][Main] = Idle
    /\ life[c] = "backlog"
    /\ life' = [life EXCEPT ![c] = "unclaimed"]
    /\ SetConn("server", c, NewProxyConnect)
    /\ UNCHANGED <<stream, ctl, proxyMap, waitMap, freeList, unhandled,
                   pendingWait, relay, sock, job, raced, held, bound, ran>>

\* Control::handleFreeProxyConnReq; Tunnel::freeProxyConn follows.
HandleFreeProxyConnReq ==
    /\ NextCtl("server", "free")
    /\ SetJob("server", Main, Doing("free", Head(ctl["server"]).conn))
    /\ UNCHANGED <<pconn, stream, life, proxyMap, waitMap, freeList, unhandled,
                   pendingWait, relay, sock, held, bound, ran>>

-----------------------------------------------------------------------------
(* Steps any thread may be in the middle of *)

\* The counts are compared outside close_mutex_.
CompareCounts(s, t) ==
    /\ job[s][t].pc = "compare"
    /\ LET k == pconn[s][job[s][t].conn] IN
         SetJob(s, t, IF AllReceived(k) THEN Doing("shut", job[s][t].conn)
                      ELSE Idle)
    /\ UNCHANGED <<pconn, stream, ctl, life, proxyMap, waitMap, freeList,
                   unhandled, pendingWait, relay, sock, held, bound, ran>>

\* ProxyConnect::shutdownFromRemote: FIN to the endpoint, then half close or
\* reset.
ShutdownFromRemote(s, t) ==
    /\ job[s][t].pc = "shut"
    /\ LET c == job[s][t].conn
           k == pconn[s][c] IN
         /\ sock' = IF k.peer = None THEN sock
                    ELSE [sock EXCEPT ![k.peer].eof = TRUE]
         /\ SetConn(s, c, HalfClose(k))
         /\ SetJob(s, t, IF k.half THEN Doing("free", c) ELSE Idle)
    /\ UNCHANGED <<stream, ctl, life, proxyMap, waitMap, freeList, unhandled,
                   pendingWait, relay, held, bound, ran>>

\* Tunnel::freeProxyConn of the server: the two early returns ...
FreeProxyConn(t) ==
    /\ job["server"][t].pc = "free"
    /\ LET c == job["server"][t].conn IN
         SetJob("server", t,
                IF c \in proxyMap /\ ~pconn["server"][c].start
                THEN Doing("push", c) ELSE Idle)
    /\ UNCHANGED <<pconn, stream, ctl, life, proxyMap, waitMap, freeList,
                   unhandled, pendingWait, relay, sock, held, bound, ran>>

\* ... and the move from the map to the free list.
RecycleProxyConn(t) ==
    /\ job["server"][t].pc = "push"
    /\ proxyMap' = proxyMap \ {job["server"][t].conn}
    /\ freeList' = Append(freeList, job["server"][t].conn)
    /\ SetJob("server", t, Idle)
    /\ UNCHANGED <<pconn, stream, ctl, life, waitMap, unhandled, pendingWait,
                   relay, sock, held, bound, ran>>

\* Tunnel::shutdonwLocalConn of the client, after a reset.
SendFreeConnReq(t) ==
    /\ job["client"][t].pc = "free"
    /\ SendCtl("server", FreeConnReq(job["client"][t].conn))
    /\ SetJob("client", t, Idle)
    /\ UNCHANGED <<pconn, stream, life, proxyMap, waitMap, freeList, unhandled,
                   pendingWait, relay, sock, held, bound, ran>>

\* The last statement of handleProxyNotify and of HandleProxyConnectReq.
StartLocalConn(t) ==
    /\ job["client"][t].pc = "run"
    /\ Run("client", job["client"][t].conn, job["client"][t].end)
    /\ SetJob("client", t, Idle)
    /\ UNCHANGED <<stream, ctl, life, proxyMap, waitMap, freeList, unhandled,
                   pendingWait, sock, held, bound, ran>>

-----------------------------------------------------------------------------
(* Workers: ProxyConnect::handleRead *)

Readable(s, c) ==
    /\ job[s][c] = Idle /\ <<s, c>> \notin held
    /\ s = "server" => life[c] \in {"unclaimed", "claimed"}
    /\ stream[s][c] # <<>>

\* bindPublicFdToProxyConn
BindPublicFd(p, c) ==
    /\ Run("server", c, p)
    /\ proxyMap' = proxyMap \cup {c}
    /\ bound' = [bound EXCEPT ![c] = Append(@, p)]

\* The message path, taken while start_ is false.
NextMsg(s, c, kind) ==
    /\ Readable(s, c) /\ ~pconn[s][c].start
    /\ Head(stream[s][c]).kind = kind

\* Server::claimProxyConn, Tunnel::claimProxyConn: the newest waiting public
\* fd gets the new proxy connection.  back() of an empty vector is undefined:
\* UndealtFdAvailable says that it does not happen.
ClaimProxyConn(c) ==
    /\ NextMsg("server", c, "meta")
    /\ unhandled # <<>>
    /\ BindPublicFd(unhandled[Len(unhandled)], c)
    /\ unhandled' = PopBack(unhandled)
    /\ life' = [life EXCEPT ![c] = "claimed"]
    /\ stream' = [stream EXCEPT !["server"][c] = Tail(@)]
    /\ UNCHANGED <<ctl, waitMap, freeList, pendingWait, sock, job, raced, held,
                   ran>>

\* Tunnel::handleStartProxyConnRsp
HandleStartProxyConnRsp(c) ==
    /\ NextMsg("server", c, "rsp")
    /\ stream' = [stream EXCEPT !["server"][c] = Tail(@)]
    /\ IF c \in waitMap
       THEN /\ BindPublicFd(Head(stream["server"][c]).fd, c)
            /\ waitMap' = waitMap \ {c}
       ELSE UNCHANGED <<pconn, relay, proxyMap, bound, waitMap>>
    /\ UNCHANGED <<ctl, life, freeList, unhandled, pendingWait, sock, job,
                   raced, held, ran>>

\* Tunnel::HandleProxyConnectReq of the client up to SendMsgDirct.
HandleProxyConnectReq(c) ==
    /\ NextMsg("client", c, "req")
    /\ CreateLocalConn(c)
    /\ stream' = [stream EXCEPT
                    !["client"][c] = Tail(@),
                    !["server"][c] =
                      Append(@, ConnectRsp(Head(stream["client"][c]).fd))]
    /\ SetJob("client", c,
              [pc |-> "run", conn |-> c, end |-> <<c, ran[c] + 1>>])
    /\ UNCHANGED <<pconn, ctl, life, proxyMap, waitMap, freeList, unhandled,
                   pendingWait, relay, held, bound>>

\* Payload read on the message path is no message: its bytes are consumed as
\* a header and a body and dropped.  Where they end before the header or the
\* body does, readn does not return: it reads until there are enough.
DropPayload(s, c) ==
    /\ NextMsg(s, c, "data")
    /\ stream' = [stream EXCEPT ![s][c] = Tail(@)]
    /\ held' \in {held, held \cup {<<s, c>>}}
    /\ UNCHANGED <<pconn, ctl, life, proxyMap, waitMap, freeList, unhandled,
                   pendingWait, relay, sock, job, raced, bound, ran>>

\* readn takes whatever comes next, although Run may have set start_ by then.
ReadnGoesOn(s, c) ==
    /\ <<s, c>> \in held /\ stream[s][c] # <<>>
    /\ stream' = [stream EXCEPT ![s][c] = Tail(@)]
    /\ held' \in {held, held \ {<<s, c>>}}
    /\ UNCHANGED <<pconn, ctl, life, proxyMap, waitMap, freeList, unhandled,
                   pendingWait, relay, sock, job, raced, bound, ran>>

\* The splice path, taken while start_ is true: whatever is on the stream
\* goes to the endpoint and is counted.
SplicePayload(s, c) ==
    /\ Readable(s, c) /\ pconn[s][c].start
    /\ \E k \in 1 .. Len(stream[s][c]) :
         /\ stream' = [stream EXCEPT ![s][c] = Unread(@, k)]
         /\ sock' = [sock EXCEPT
                       ![pconn[s][c].peer].got =
                         @ \o SubSeq(stream[s][c], 1, k)]
         /\ SetConn(s, c, AddRecvCount(pconn[s][c], k))
    /\ SetJob(s, c, Doing("compare", c))
    /\ UNCHANGED <<ctl, life, proxyMap, waitMap, freeList, unhandled,
                   pendingWait, relay, held, bound, ran>>

-----------------------------------------------------------------------------
(* Workers: PublicConnect::handleRead and ClientConnect::handleRead *)

RelayReadable(e) ==
    /\ relay[e].conn # None /\ ~relay[e].closed
    /\ job[SideOf(e)][relay[e].conn] = Idle
    /\ <<SideOf(e), relay[e].conn>> \notin held

\* Units read from the endpoint go on the proxy connection and are counted.
RelayPayload(e) ==
    /\ RelayReadable(e)
    /\ \E k \in 1 .. (sock[e].sent - sock[e].read) :
         /\ stream' = [stream EXCEPT
                         ![Other(SideOf(e))][relay[e].conn] =
                           @ \o [i \in 1 .. k |-> Data(e, sock[e].read + i)]]
         /\ sock' = [sock EXCEPT ![e].read = @ + k]
         /\ relay' = [relay EXCEPT ![e].tran = (@ + k) % CountMod]
    /\ UNCHANGED <<pconn, ctl, life, proxyMap, waitMap, freeList, unhandled,
                   pendingWait, job, raced, held, bound, ran>>

\* EOF: shutdownFromPublic, shutdownFromClient.  The server returns early if
\* the map lacks the proxy connection; otherwise SendShutdown follows.
RelayEof(e) ==
    /\ RelayReadable(e)
    /\ sock[e].fin /\ sock[e].read = sock[e].sent
    /\ LET s == SideOf(e)
           c == relay[e].conn IN
         IF s = "server" /\ c \notin proxyMap
         THEN /\ relay' = [relay EXCEPT ![e].closed = TRUE]
              /\ UNCHANGED <<pconn, job, raced>>
         ELSE /\ SetConn(s, c, ShutdownFromLocal(pconn[s][c]))
              /\ SetJob(s, c, [pc |-> "fin", conn |-> c, end |-> e])
              /\ UNCHANGED relay
    /\ UNCHANGED <<stream, ctl, life, proxyMap, waitMap, freeList, unhandled,
                   pendingWait, sock, held, bound, ran>>

\* The message that tells the other side how many units were relayed.
SendShutdown(s, c) ==
    /\ job[s][c].pc = "fin"
    /\ SendCtl(Other(s), ShutdownPeerConn(c, relay[job[s][c].end].tran))
    /\ relay' = [relay EXCEPT ![job[s][c].end].closed = TRUE]
    /\ SetJob(s, c, Idle)
    /\ UNCHANGED <<pconn, stream, life, proxyMap, waitMap, freeList, unhandled,
                   pendingWait, sock, held, bound, ran>>

-----------------------------------------------------------------------------
Environment == \E e \in Endpoint : Send(e) \/ Fin(e)

Listener ==
    \/ AddWaitProxyConn
    \/ \E p \in Public : ReuseProxyConn(p) \/ NotifyClientNeedProxy(p)

ThreadStep(s, t) ==
    \/ CompareCounts(s, t)
    \/ ShutdownFromRemote(s, t)
    \/ s = "server" /\ (FreeProxyConn(t) \/ RecycleProxyConn(t))
    \/ s = "client" /\ (SendFreeConnReq(t) \/ StartLocalConn(t))

MainLoop ==
    \/ \E c \in Proxy : HandleProxyNotify(c) \/ NewProxyConn(c)
    \/ HandleShutdownLocalConn \/ HandleShutdownPublicConn
    \/ HandleFreeProxyConnReq

ReadProxy(s, c) ==
    DropPayload(s, c) \/ ReadnGoesOn(s, c) \/ SplicePayload(s, c)

ReadMsg(c) ==
    \/ ClaimProxyConn(c)
    \/ HandleStartProxyConnRsp(c)
    \/ HandleProxyConnectReq(c)

PublicConnectRead(e) == RelayPayload(e) \/ RelayEof(e)
ClientConnectRead(e) == RelayPayload(e) \/ RelayEof(e)

Worker ==
    \/ \E c \in Proxy : ReadMsg(c)
    \/ \E s \in Side, c \in Proxy : ReadProxy(s, c) \/ SendShutdown(s, c)
    \/ \E e \in Public : PublicConnectRead(e)
    \/ \E e \in Local : ClientConnectRead(e)

Next ==
    \/ Environment
    \/ Listener
    \/ MainLoop
    \/ \E s \in Side, t \in Thread : ThreadStep(s, t)
    \/ Worker

Spec == Init /\ [][Next]_vars

\* Every handler of every event loop is eventually run once its event is
\* there, and a thread that is inside a handler goes on.  Nothing is assumed
\* of public clients and of the local server.
Fairness ==
    /\ WF_vars(AddWaitProxyConn)
    /\ WF_vars(\E c \in Proxy : HandleProxyNotify(c))
    /\ WF_vars(HandleFreeProxyConnReq)
    /\ WF_vars(HandleShutdownLocalConn) /\ WF_vars(HandleShutdownPublicConn)
    /\ \A s \in Side, t \in Thread : WF_vars(ThreadStep(s, t))
    /\ \A c \in Proxy : WF_vars(NewProxyConn(c)) /\ WF_vars(ReadMsg(c))
    /\ \A s \in Side, c \in Proxy :
         WF_vars(ReadProxy(s, c)) /\ WF_vars(SendShutdown(s, c))
    /\ \A e \in Public : WF_vars(PublicConnectRead(e))
    /\ \A e \in Local : WF_vars(ClientConnectRead(e))

FairSpec == Spec /\ Fairness

-----------------------------------------------------------------------------
(* Properties *)

\* The i-th session of c joins the i-th public fd c was bound to and the i-th
\* local connection opened for c.
Session == {z \in Local : z[2] <= Len(bound[z[1]])}
PublicEnd(z) == bound[z[1]][z[2]]

AllDelivered(from, to) ==
    /\ sock[from].fin
    /\ {i \in 1 .. MaxUnits : \E j \in 1 .. Len(sock[to].got) :
          sock[to].got[j] = Data(from, i)} = 1 .. sock[from].sent

\* An endpoint is told that its peer has finished (shutdown(conn2fd_, SHUT_WR)
\* in shutdownFromRemote) only when the peer has, and after everything the
\* peer sent has been delivered: the purpose of tran_count_, recv_count_ and
\* total_count_, which travel on two unordered connections.
FinAfterData(z) ==
    /\ sock[z].eof => AllDelivered(PublicEnd(z), z)
    /\ sock[PublicEnd(z)].eof => AllDelivered(z, PublicEnd(z))

NoTruncation ==
    /\ \A z \in Session : FinAfterData(z)
    /\ \A e \in Endpoint : sock[e].eof =>
         e \in Session \/ \E z \in Session : e = PublicEnd(z)

\* handleRead never splices to an endpoint whose sending direction
\* shutdownFromRemote has shut down.
NoWriteAfterShutdown ==
    [][\A e \in Endpoint : sock[e].eof => sock'[e].got = sock[e].got]_vars

\* What a public client receives is, unit for unit, the beginning of what its
\* own session's local connection sent: nothing is lost in the middle,
\* reordered, duplicated or taken from another session, whatever proxy
\* connection newPublicConnHandler gave it.  From a session in which the main
\* loop and a worker both complete it on, nothing is promised: the slower of
\* the two ends a direction of the next session of the proxy connection, and
\* the session after that starts on a connection still in use.
PublicGetsPrefixUnlessRaced ==
    \A z \in Session : z[1] \notin raced =>
        LET got == sock[PublicEnd(z)].got IN
            \A j \in 1 .. Len(got) : got[j] = Data(z, j)

\* A ProxyConnectReq or ProxyConnectRsp is read by handleRead's message path
\* and never spliced to an endpoint as if it were payload.
PayloadOnly(e) == \A j \in 1 .. Len(sock[e].got) : sock[e].got[j].kind = "data"

\* However often a proxy connection is used again, each session on it gets its
\* FINs behind its data and no message in its data.  (Not where the local
\* server closes first: freeProxyConn then recycles the connection while the
\* client's end of it is still started.)
SessionIntactUnlessRaced ==
    \A z \in Session : z[1] \notin Eager \cup raced =>
        FinAfterData(z) /\ PayloadOnly(z) /\ PayloadOnly(PublicEnd(z))

\* When a ProxyMetaSet is about to be handled, getAndPopUndealPublicFd finds
\* a waiting public fd: back() is never called on an empty vector.
UndealtFdAvailable ==
    \A c \in Proxy : NextMsg("server", c, "meta") => unhandled # <<>>

\* Where a stream holds a request for p or the answer to one.
Asks(q, p) == {i \in 1 .. Len(q) : q[i] \in {ConnectReq(p), ConnectRsp(p)}}

\* Where p waits in unhandle_fds_, where it asks, and its sessions.
WaitsAt(p) == {i \in 1 .. Len(unhandled) : unhandled[i] = p}
AsksAt(p) ==
    UNION {{<<s, c, i>> : i \in Asks(stream[s][c], p)} : s \in Side, c \in Proxy}
SessionsOf(p) == {z \in Session : PublicEnd(z) = p}

\* A public fd waits in one place, asks on one proxy connection or is bound to
\* one: newPublicConnHandler, claimProxyConn and handleStartProxyConnRsp hand
\* it on and never copy it.
FdBoundOnce ==
    \A p \in Public :
      Cardinality(WaitsAt(p)) + Cardinality(AsksAt(p))
        + Cardinality(SessionsOf(p)) <= 1

\* A worker stays inside readn for ever, and every connection on it stands
\* still.
WorkerHangs == \E s \in Side, c \in Proxy : [](<<s, c>> \in held)

\* When the local server sends FIN on a connection that claimProxyConn or
\* handleStartProxyConnRsp has bound to p, p is sent FIN in the end; and when
\* p finishes too, without having sent anything, freeProxyConn takes the proxy
\* connection out of the map.  (A FIN announced before the claim finds the map
\* empty and is lost; what a public client sends before the client's Run may
\* be lost as well, and leave a worker inside readn.)
LocalFinEndsSession ==
    \A z \in Local, p \in Public :
        [](z \in Session /\ bound[z[1]][z[2]] = p /\ ~sock[z].fin =>
             /\ sock[z].fin ~> (sock[p].eof \/ WorkerHangs)
             /\ sock[z].fin /\ sock[p].fin /\ sock[p].sent = 0
                  ~> (z[1] \notin proxyMap \/ WorkerHangs))
=============================================================================
