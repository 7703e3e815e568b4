---------------------------- MODULE ControlPlane ----------------------------
(***************************************************************************)
(* How a ProxyClient process, its control connection and its tunnel come   *)
(* and go at a ProxyServer: the handshake NewRequest, NewResponse,         *)
(* NewTunnelReq, NewTunnelRsp, the public port, NotifyClient for a public  *)
(* connection, the proxy connection made for it and its claiming, and the  *)
(* loss of a ProxyClient.  A restarted ProxyClient is another element of   *)
(* Client.                                                                 *)
(*                                                                         *)
(* Server threads: the main loop (acceptors, control connections), the     *)
(* listening thread (public connections) and the workers (claiming).  The  *)
(* client's handlers run on its main loop.  Both acceptors are edge-       *)
(* triggered.                                                              *)
(*                                                                         *)
(* The ids of random_str are taken to be different from each other, so a   *)
(* control connection and its only tunnel are both named by their client.  *)
(* What happens on a claimed proxy connection is ProxyTunnel; how messages *)
(* get through a control connection is Connection.                         *)
(***************************************************************************)
EXTENDS Naturals, Sequences, FiniteSets

CONSTANTS
    Client,    \* ProxyClient processes, restarted ones included
    Public,    \* public connections
    None       \* no process

ASSUME ConstantsAssumption ==
    /\ IsFiniteSet(Public)
    /\ None \notin Client

\* The proxy connection that client k makes for its i-th NotifyClient.
Conn == Client \X (1 .. Cardinality(Public))
Acceptor == {"ctl", "proxy"}

\* What waits to be accepted: control connections are named by their client.
Pending == Client \cup Conn

ToServer == {"NewRequest", "NewTunnelReq"}
ToClient == {"NewResponse", "NewTunnelRsp", "NotifyClient"}

VARIABLES
    proc,        \* proc[k]: "off", "up" or "dead"
    clientMap,   \* clients whose tunnel_map_ has their tunnel
    made,        \* made[k]: proxy connections k has made
    up,          \* up[k]: what travels to the server on k's control connection
    down,        \* down[k]: what travels to k on it
    backlog,     \* backlog[a]: connections that wait for acceptor a
    edge,        \* edge[a]: epoll has an event for acceptor a (external)
    main,        \* what the server's main loop is doing, and for whom
    controlMap,  \* control_map_
    tunnelMap,   \* clients whose Control has their tunnel in tunnel_map_
    port,        \* the client whose Tunnel listens on the public port
    unclaimed,   \* unclaimed_proxy_map_
    worker,      \* worker[c]: where claimProxyConn is with c
    unhandled,   \* unhandle_fds_ of each client's Tunnel
    bound,       \* bound[p]: the proxy connection p is bound to
    arrived,     \* public connections that were accepted
    early,       \* early[k]: NotifyClient messages k dropped (history)
    crashed      \* the server has dereferenced a null Control

process == <<proc, clientMap, made>>
link == <<up, down>>
accepting == <<backlog, edge, main>>
maps == <<controlMap, tunnelMap, port>>
claims == <<unclaimed, worker>>
publics == <<unhandled, bound, arrived>>
vars == <<process, link, accepting, maps, claims, publics, early, crashed>>

MainIdle == [pc |-> "idle", of |-> None]
MainDo(pc, k) == [pc |-> pc, of |-> k]

TypeOK ==
    /\ proc \in [Client -> {"off", "up", "dead"}]
    /\ clientMap \in SUBSET Client
    /\ made \in [Client -> 0 .. Cardinality(Public)]
    /\ up \in [Client -> Seq(ToServer)]
    /\ down \in [Client -> Seq(ToClient)]
    /\ backlog \in [Acceptor -> Seq(Pending)]
    /\ edge \in [Acceptor -> BOOLEAN]
    /\ main \in      [pc : {"idle", "ctl", "proxy"}, of : {None}]
                \cup [pc : {"add", "rsp"}, of : Client]
    /\ controlMap \in SUBSET Client
    /\ tunnelMap \in SUBSET Client
    /\ port \in Client \cup {None}
    /\ unclaimed \in SUBSET Conn
    /\ worker \in [Conn -> {"none", "meta", "found", "done"}]
    /\ unhandled \in [Client -> Seq(Public)]
    /\ bound \in [Public -> Conn \cup {None}]
    /\ arrived \in SUBSET Public
    /\ early \in [Client -> Nat]
    /\ crashed \in BOOLEAN

Init ==
    /\ proc = [k \in Client |-> "off"]
    /\ clientMap = {}
    /\ made = [k \in Client |-> 0]
    /\ up = [k \in Client |-> <<>>]
    /\ down = [k \in Client |-> <<>>]
    /\ backlog = [a \in Acceptor |-> <<>>]
    /\ edge = [a \in Acceptor |-> FALSE]
    /\ main = MainIdle
    /\ controlMap = {}
    /\ tunnelMap = {}
    /\ port = None
    /\ unclaimed = {}
    /\ worker = [c \in Conn |-> "none"]
    /\ unhandled = [k \in Client |-> <<>>]
    /\ bound = [p \in Public |-> None]
    /\ arrived = {}
    /\ early = [k \in Client |-> 0]
    /\ crashed = FALSE

-----------------------------------------------------------------------------
(* Mistakes: wrong versions of operators below.  Each breaks a property that *)
(* the right version satisfies; the specification uses none of them.         *)

\* The accept loop may end while connections wait.
AcceptDoneAnyTime(a) == TRUE

\* getAndPopUndealPublicFd with clear() for pop_back().
PopAll(q) == <<>>

\* handleNewTunnelReq answers and does not register the tunnel.
AfterListenAnswer == "rsp"

\* handleNewCtlRsp keeps the id and asks for no tunnel.
AfterCtlRspNothing(q) == q

-----------------------------------------------------------------------------
SendUp(k, q) == up' = [up EXCEPT ![k] = q]
SendDown(k, m) == down' = [down EXCEPT ![k] = Append(@, m)]

\* connect(): the kernel queues the connection and wakes the acceptor.
Connect(a, x) ==
    /\ backlog' = [backlog EXCEPT ![a] = Append(@, x)]
    /\ edge' = [edge EXCEPT ![a] = TRUE]

-----------------------------------------------------------------------------
(* ProxyClient *)

\* Client::Run: initConnect and NewCtlReq.
Run(k) ==
    /\ proc[k] = "off"
    /\ proc' = [proc EXCEPT ![k] = "up"]
    /\ Connect("ctl", k)
    /\ SendUp(k, <<"NewRequest">>)
    /\ UNCHANGED <<clientMap, made, down, main, maps, claims, publics, early,
                   crashed>>

NextDown(k, m) ==
    /\ proc[k] = "up"
    /\ down[k] # <<>> /\ Head(down[k]) = m
    /\ down' = [down EXCEPT ![k] = Tail(@)]

\* NewTunnelReq, the last call of handleNewCtlRsp.
AfterCtlRsp(q) == Append(q, "NewTunnelReq")

HandleNewCtlRsp(k) ==
    /\ NextDown(k, "NewResponse")
    /\ SendUp(k, AfterCtlRsp(up[k]))
    /\ UNCHANGED <<process, accepting, maps, claims, publics, early, crashed>>

HandleNewTunnelRsp(k) ==
    /\ NextDown(k, "NewTunnelRsp")
    /\ clientMap' = clientMap \cup {k}
    /\ UNCHANGED <<proc, made, up, accepting, maps, claims, publics, early,
                   crashed>>

\* handleProxyNotify: a tunnel that tunnel_map_ lacks is an early return, else
\* the client connects to the proxy port and sends ProxyMetaSet.
HandleProxyNotify(k) ==
    /\ NextDown(k, "NotifyClient")
    /\ IF k \in clientMap
       THEN /\ made' = [made EXCEPT ![k] = @ + 1]
            /\ Connect("proxy", <<k, made[k] + 1>>)
            /\ UNCHANGED early
       ELSE /\ early' = [early EXCEPT ![k] = @ + 1]
            /\ UNCHANGED <<made, backlog, edge>>
    /\ UNCHANGED <<proc, clientMap, up, main, maps, claims, publics, crashed>>

\* The process ends; what was on its way to it is lost.
Die(k) ==
    /\ proc[k] = "up"
    /\ proc' = [proc EXCEPT ![k] = "dead"]
    /\ down' = [down EXCEPT ![k] = <<>>]
    /\ UNCHANGED <<clientMap, made, up, accepting, maps, claims, publics,
                   early, crashed>>

-----------------------------------------------------------------------------
(* The server's main loop: the acceptors *)

\* epoll reports an acceptor; the edge is used up.
WakeAcceptor(a) ==
    /\ ~crashed /\ main = MainIdle /\ edge[a]
    /\ edge' = [edge EXCEPT ![a] = FALSE]
    /\ main' = MainDo(a, None)
    /\ UNCHANGED <<process, link, backlog, maps, claims, publics, early,
                   crashed>>

\* accept() has nothing left.
AcceptDone(a) == backlog[a] = <<>>

\* The accept loop ends and everyHandler, which both acceptors share, re-arms
\* the ctl acceptor: epoll looks at that one again.
EveryHandler(a) ==
    /\ ~crashed /\ main = MainDo(a, None) /\ AcceptDone(a)
    /\ main' = MainIdle
    /\ edge' = [edge EXCEPT !["ctl"] = @ \/ backlog["ctl"] # <<>>]
    /\ UNCHANGED <<process, link, backlog, maps, claims, publics, early,
                   crashed>>

Accept(a) ==
    /\ ~crashed /\ main = MainDo(a, None) /\ backlog[a] # <<>>
    /\ backlog' = [backlog EXCEPT ![a] = Tail(@)]
    /\ UNCHANGED <<main, edge>>

\* newCtlConnHandler: a Control for the connection, in control_map_.
NewCtlConn ==
    /\ Accept("ctl")
    /\ controlMap' = controlMap \cup {Head(backlog["ctl"])}
    /\ UNCHANGED <<process, link, tunnelMap, port, claims, publics, early,
                   crashed>>

\* newProxyConnHandler: the connection is unclaimed and given to a worker.
NewProxyConn ==
    /\ Accept("proxy")
    /\ unclaimed' = unclaimed \cup {Head(backlog["proxy"])}
    /\ worker' = [worker EXCEPT ![Head(backlog["proxy"])] = "meta"]
    /\ UNCHANGED <<process, link, maps, publics, early, crashed>>

-----------------------------------------------------------------------------
(* The server's main loop: control connections *)

NextUp(k, m) ==
    /\ ~crashed /\ main = MainIdle
    /\ k \in controlMap
    /\ up[k] # <<>> /\ Head(up[k]) = m
    /\ up' = [up EXCEPT ![k] = Tail(@)]

\* What is sent to a client that has died is lost.
Answer(k, m) == IF proc[k] = "up" THEN SendDown(k, m) ELSE UNCHANGED down

HandleNewCtlReq(k) ==
    /\ NextUp(k, "NewRequest")
    /\ Answer(k, "NewResponse")
    /\ UNCHANGED <<process, accepting, maps, claims, publics, early, crashed>>

\* What handleNewTunnelReq does once the Tunnel is made.
AfterListen == "add"

\* handleNewTunnelReq: the constructor of Tunnel binds the public port and
\* hands the listening socket to the listening thread.  Every Tunnel uses the
\* same port, and no Tunnel is ever destroyed: bind fails if it is taken.
HandleNewTunnelReq(k) ==
    /\ NextUp(k, "NewTunnelReq")
    /\ port' = IF port = None THEN k ELSE port
    /\ main' = MainDo(AfterListen, k)
    /\ UNCHANGED <<process, down, backlog, edge, controlMap, tunnelMap, claims,
                   publics, early, crashed>>

\* addtoTunnel
AddToTunnel ==
    /\ ~crashed /\ main.pc = "add"
    /\ tunnelMap' = tunnelMap \cup {main.of}
    /\ main' = MainDo("rsp", main.of)
    /\ UNCHANGED <<process, link, backlog, edge, controlMap, port, claims,
                   publics, early, crashed>>

\* The answer goes out, whether bind succeeded or not.
SendTunnelRsp ==
    /\ ~crashed /\ main.pc = "rsp"
    /\ Answer(main.of, "NewTunnelRsp")
    /\ main' = MainIdle
    /\ UNCHANGED <<process, up, backlog, edge, maps, claims, publics, early,
                   crashed>>

\* handleCtlConnClose, when everything the client sent has been read.  The
\* Tunnel holds the Control and the Control the Tunnel: both stay.
HandleCtlConnClose(k) ==
    /\ ~crashed /\ main = MainIdle
    /\ k \in controlMap /\ proc[k] = "dead" /\ up[k] = <<>>
    /\ controlMap' = controlMap \ {k}
    /\ UNCHANGED <<process, link, accepting, tunnelMap, port, claims, publics,
                   early, crashed>>

-----------------------------------------------------------------------------
(* The server's listening thread and its workers *)

\* newPublicConnHandler with an empty free list.
NewPublicConn(p) ==
    /\ ~crashed /\ port # None /\ p \notin arrived
    /\ arrived' = arrived \cup {p}
    /\ unhandled' = [unhandled EXCEPT ![port] = Append(@, p)]
    /\ Answer(port, "NotifyClient")
    /\ UNCHANGED <<process, up, accepting, maps, claims, bound, early, crashed>>

\* Server::claimProxyConn: the control is looked up; a connection for which
\* there is none stays unclaimed.
ClaimFind(c) ==
    /\ ~crashed /\ worker[c] = "meta"
    /\ worker' = [worker EXCEPT
                    ![c] = IF c[1] \in controlMap THEN "found" ELSE "done"]
    /\ UNCHANGED <<process, link, accepting, maps, unclaimed, publics, early,
                   crashed>>

\* pop_back of unhandle_fds_.
PopBack(q) == SubSeq(q, 1, Len(q) - 1)

\* bindPublicFdToProxyConn: what the public connection is bound to.
BindTo(c) == c

\* control_map_[ctl_id] makes a null entry if the main loop has erased the
\* control meanwhile.  Otherwise the newest waiting public connection gets c;
\* as in the code, nothing tests that there is one.
ClaimProxyConn(c) ==
    /\ ~crashed /\ worker[c] = "found"
    /\ worker' = [worker EXCEPT ![c] = "done"]
    /\ IF c[1] \notin controlMap
       THEN crashed' = TRUE /\ UNCHANGED <<unclaimed, unhandled, bound>>
       ELSE IF c[1] \notin tunnelMap
       THEN UNCHANGED <<unclaimed, unhandled, bound, crashed>>
       ELSE /\ bound' = [bound EXCEPT
                           ![unhandled[c[1]][Len(unhandled[c[1]])]] = BindTo(c)]
            /\ unhandled' = [unhandled EXCEPT ![c[1]] = PopBack(@)]
            /\ unclaimed' = unclaimed \ {c}
            /\ UNCHANGED crashed
    /\ UNCHANGED <<process, link, accepting, maps, arrived, early>>

-----------------------------------------------------------------------------
ClientStep(k) ==
    \/ HandleNewCtlRsp(k) \/ HandleNewTunnelRsp(k) \/ HandleProxyNotify(k)

MainLoop ==
    \/ \E a \in Acceptor : WakeAcceptor(a) \/ EveryHandler(a)
    \/ NewCtlConn \/ NewProxyConn
    \/ \E k \in Client :
         HandleNewCtlReq(k) \/ HandleNewTunnelReq(k) \/ HandleCtlConnClose(k)
    \/ AddToTunnel \/ SendTunnelRsp

Worker(c) == ClaimFind(c) \/ ClaimProxyConn(c)

Next ==
    \/ \E k \in Client : Run(k) \/ Die(k) \/ ClientStep(k)
    \/ MainLoop
    \/ \E p \in Public : NewPublicConn(p)
    \/ \E c \in Conn : Worker(c)

Spec == Init /\ [][Next]_vars

\* Every loop goes on and handles what epoll reports.  Nobody has to start a
\* client, to kill one or to connect to the public port.
Fairness ==
    /\ \A k \in Client : WF_vars(ClientStep(k))
    /\ WF_vars(MainLoop)
    /\ \A c \in Conn : WF_vars(Worker(c))

FairSpec == Spec /\ Fairness

-----------------------------------------------------------------------------
(* Properties *)

Notifies(k) == {i \in 1 .. Len(down[k]) : down[k][i] = "NotifyClient"}

\* The proxy connections of k that nobody has claimed or given up.
OnTheWay(k) ==
    {i \in 1 .. made[k] : worker[<<k, i>>] # "done"}

\* claimProxyConn finds the control and the tunnel that a ProxyMetaSet names,
\* as long as the client that sent it lives: control_map_ and tunnel_map_ are
\* filled before the client can know the ids.
ClaimFindsTunnel ==
    \A c \in Conn : worker[c] \in {"meta", "found"} /\ proc[c[1]] = "up"
        => c[1] \in controlMap \cap tunnelMap

\* While a client lives, each public connection that waits in its Tunnel has a
\* NotifyClient or a proxy connection on the way to it, apart from as many as
\* the client dropped a NotifyClient for.  So no claim finds the list empty,
\* and none waits for a message that was never sent.
WaitingAreCovered ==
    \A k \in Client : proc[k] = "up" =>
        Len(unhandled[k])
          = Cardinality(Notifies(k)) + Cardinality(OnTheWay(k)) + early[k]

\* A client that has connected gets to know its tunnel, unless it dies or the
\* server crashes.
HandshakeCompletes ==
    \A k \in Client :
        proc[k] = "up" ~> (k \in clientMap \/ proc[k] = "dead" \/ crashed)

\* A public connection is bound to a proxy connection of the client, unless
\* that client dies or has dropped a NotifyClient: every proxy connection that
\* waits for the edge-triggered acceptor is accepted.
PublicIsServed ==
    \A p \in Public :
        p \in arrived
          ~> \/ bound[p] # None \/ crashed
             \/ \E k \in Client : k = port /\ (proc[k] = "dead" \/ early[k] > 0)
=============================================================================
