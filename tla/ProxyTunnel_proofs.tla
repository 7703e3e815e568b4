-------------------------- MODULE ProxyTunnel_proofs --------------------------
(***************************************************************************)
(* Theorems about one tunnel, for every set of public clients and proxy    *)
(* connections, every number of sessions and of units, every width of the  *)
(* counters and either closing order.                                      *)
(*                                                                         *)
(* First the types.  Then getAndPopUndealPublicFd never pops an empty      *)
(* vector: the listening thread, the two main loops and the workers each   *)
(* move one token of the same account, where a waiting fd is paid for by a *)
(* NotifyClient on its way or by a proxy connection that has not been      *)
(* claimed yet.  Then one public fd is followed from place to place: those *)
(* four hand it on and never copy it.                                      *)
(*                                                                         *)
(* The last part is what the theorems on sessions rest on: what a step can *)
(* do to each variable, who works for which connection (Owners), that a    *)
(* proxy connection too is in one place at a time (Claimed, Fresh, Flow),  *)
(* and how many sessions it has carried (Counts, Newest).                  *)
(***************************************************************************)
EXTENDS ProxyTunnel, FiniteSetTheorems, TLAPS

-----------------------------------------------------------------------------
(* Updates of functions and of functions of functions keep their type. *)

LEMMA Update ==
    ASSUME NEW S, NEW V, NEW f \in [S -> V], NEW s, NEW v \in V
    PROVE  [f EXCEPT ![s] = v] \in [S -> V]
OBVIOUS

LEMMA Update2 ==
    ASSUME NEW S, NEW T, NEW V, NEW f \in [S -> [T -> V]],
           NEW s \in S, NEW t \in T, NEW v \in V
    PROVE  [f EXCEPT ![s][t] = v] \in [S -> [T -> V]]
OBVIOUS

-----------------------------------------------------------------------------
(* The objects the handlers build have their types. *)

LEMMA CountType ==
    /\ 0 \in Count /\ NoTotal \in Count
    /\ \A n \in Nat : n % CountMod \in Count
    /\ Count \subseteq Nat
BY ConstantsAssumption DEF Count, NoTotal

LEMMA SideType ==
    /\ "server" \in Side /\ "client" \in Side
    /\ \A s \in Side : Other(s) \in Side
    /\ \A e \in Endpoint : SideOf(e) \in Side
BY DEF Side, Other, SideOf

LEMMA EndpointType ==
    /\ Public \subseteq Endpoint
    /\ \A c \in Proxy, i \in 1 .. MaxSession : <<c, i>> \in Endpoint
    /\ Main \in Thread /\ Proxy \subseteq Thread
BY DEF Endpoint, Local, Thread

LEMMA ProxyConnectType ==
    /\ NewProxyConnect \in ProxyConnect
    /\ ResetConn \in ProxyConnect
    /\ \A k \in ProxyConnect :
         /\ k.recv \in Count /\ k.total \in Count
         /\ k.peer \in Endpoint \cup {None}
         /\ HalfClose(k) \in ProxyConnect
         /\ \A n \in Count : AddTotalCount(k, n) \in ProxyConnect
         /\ \A n \in Nat : AddRecvCount(k, n) \in ProxyConnect
         /\ \A e \in Endpoint :
              [k EXCEPT !.start = TRUE, !.peer = e] \in ProxyConnect
<1>1. NewProxyConnect \in ProxyConnect /\ ResetConn \in ProxyConnect
  BY CountType DEF NewProxyConnect, ResetConn, ProxyConnect
<1>2. ASSUME NEW k \in ProxyConnect
      PROVE  /\ k.recv \in Count /\ k.total \in Count
             /\ k.peer \in Endpoint \cup {None}
             /\ HalfClose(k) \in ProxyConnect
  BY <1>1 DEF ProxyConnect, HalfClose
<1>3. ASSUME NEW k \in ProxyConnect, NEW n \in Count
      PROVE  AddTotalCount(k, n) \in ProxyConnect
  <2>1. k.total \in Count
    BY <1>2
  <2>2. k.total + n \in Nat
    BY <2>1, ConstantsAssumption DEF Count
  <2> QED BY <2>2, CountType DEF AddTotalCount, ProxyConnect
<1>4. ASSUME NEW k \in ProxyConnect, NEW n \in Nat
      PROVE  AddRecvCount(k, n) \in ProxyConnect
  <2>1. k.recv \in Count
    BY <1>2
  <2>2. k.recv + n \in Nat
    BY <2>1, ConstantsAssumption DEF Count
  <2> QED BY <2>2, CountType DEF AddRecvCount, ProxyConnect
<1>5. ASSUME NEW k \in ProxyConnect, NEW e \in Endpoint
      PROVE  [k EXCEPT !.start = TRUE, !.peer = e] \in ProxyConnect
  BY DEF ProxyConnect
<1> QED BY <1>1, <1>2, <1>3, <1>4, <1>5

LEMMA JobType ==
    /\ Idle \in Job
    /\ \A j \in Job :
         /\ j.pc # "idle" => j.conn \in Proxy
         /\ j.pc \in {"run", "fin"} => j.end \in Endpoint
    /\ \A pc \in {"compare", "shut", "free", "push"}, c \in Proxy :
         Doing(pc, c) \in Job
    /\ \A pc \in {"run", "fin"}, c \in Proxy, e \in Endpoint :
         [pc |-> pc, conn |-> c, end |-> e] \in Job
BY DEF Idle, Job, Doing

LEMMA ElemType ==
    /\ MetaSet \in Elem
    /\ \A p \in Public : ConnectReq(p) \in Elem /\ ConnectRsp(p) \in Elem
    /\ \A e \in Endpoint, i \in 1 .. MaxUnits : Data(e, i) \in Elem
    /\ \A x \in Elem : x.kind \in {"req", "rsp"} => x.fd \in Public
BY DEF MetaSet, ConnectReq, ConnectRsp, Data, Elem

LEMMA CtlMsgType ==
    /\ NotifyClient \in CtlMsg
    /\ \A c \in Proxy : FreeConnReq(c) \in CtlMsg
    /\ \A c \in Proxy, n \in Count : ShutdownPeerConn(c, n) \in CtlMsg
    /\ \A m \in CtlMsg : m.count \in Count /\ (m.kind # "notify" => m.conn \in Proxy)
BY CountType DEF NotifyClient, FreeConnReq, ShutdownPeerConn, CtlMsg

LEMMA RelayType ==
    /\ NoRelay \in Relay
    /\ \A c \in Proxy : [conn |-> c, tran |-> 0, closed |-> FALSE] \in Relay
    /\ \A r \in Relay : r.conn \in Proxy \cup {None} /\ r.tran \in Count
    /\ \A r \in Relay : [r EXCEPT !.closed = TRUE] \in Relay
    /\ \A r \in Relay, n \in Count : [r EXCEPT !.tran = n] \in Relay
BY CountType DEF NoRelay, Relay

LEMMA SocketType ==
    /\ NewSocket \in Socket
    /\ \A k \in Socket :
         /\ k.sent \in 0 .. MaxUnits /\ k.read \in 0 .. MaxUnits
         /\ k.got \in Seq(Elem)
         /\ [k EXCEPT !.open = TRUE] \in Socket
         /\ [k EXCEPT !.fin = TRUE] \in Socket
         /\ [k EXCEPT !.eof = TRUE] \in Socket
         /\ \A n \in 0 .. MaxUnits : [k EXCEPT !.sent = n] \in Socket
         /\ \A n \in 0 .. MaxUnits : [k EXCEPT !.read = n] \in Socket
         /\ \A q \in Seq(Elem) : [k EXCEPT !.got = q] \in Socket
<1>1. NewSocket \in Socket
  BY ConstantsAssumption DEF NewSocket, Socket
<1>2. ASSUME NEW k \in Socket
      PROVE  /\ k.sent \in 0 .. MaxUnits /\ k.read \in 0 .. MaxUnits
             /\ k.got \in Seq(Elem)
             /\ [k EXCEPT !.open = TRUE] \in Socket
             /\ [k EXCEPT !.fin = TRUE] \in Socket
             /\ [k EXCEPT !.eof = TRUE] \in Socket
  BY DEF Socket
<1>3. ASSUME NEW k \in Socket, NEW n \in 0 .. MaxUnits
      PROVE  [k EXCEPT !.sent = n] \in Socket /\ [k EXCEPT !.read = n] \in Socket
  BY DEF Socket
<1>4. ASSUME NEW k \in Socket, NEW q \in Seq(Elem)
      PROVE  [k EXCEPT !.got = q] \in Socket
  BY DEF Socket
<1> QED BY <1>1, <1>2, <1>3, <1>4

-----------------------------------------------------------------------------
(* Every handler keeps the types of the variables it changes. *)

\* Queues: taking from the front or the back, adding at the back.
LEMMA SeqType ==
    ASSUME NEW S, NEW q \in Seq(S)
    PROVE  /\ \A x \in S : Append(q, x) \in Seq(S)
           /\ q # <<>> => Head(q) \in S /\ Tail(q) \in Seq(S)
           /\ \A i \in 1 .. Len(q) : q[i] \in S
           /\ q # <<>> => Len(q) \in 1 .. Len(q)
           /\ \A r \in Seq(S) : q \o r \in Seq(S)
OBVIOUS

LEMMA SubSeqType ==
    ASSUME NEW S, NEW q \in Seq(S), NEW m \in 1 .. Len(q) + 1, NEW n \in 0 .. Len(q)
    PROVE  SubSeq(q, m, n) \in Seq(S)
OBVIOUS

LEMMA SetJobType ==
    ASSUME TypeOK, NEW s \in Side, NEW t \in Thread, NEW j \in Job,
           SetJob(s, t, j)
    PROVE  job' \in [Side -> [Thread -> Job]] /\ raced' \in SUBSET Proxy
BY Update2 DEF SetJob, TypeOK

LEMMA SetConnType ==
    ASSUME TypeOK, NEW s \in Side, NEW c \in Proxy, NEW k \in ProxyConnect,
           SetConn(s, c, k)
    PROVE  pconn' \in [Side -> [Proxy -> ProxyConnect]]
BY Update2 DEF SetConn, TypeOK

LEMMA EnvironmentType ==
    ASSUME TypeOK, Environment PROVE TypeOK'
<1>1. PICK e \in Endpoint : Send(e) \/ Fin(e)
  BY DEF Environment
<1>2. sock[e] \in Socket
  BY DEF TypeOK
<1>3. CASE Send(e)
  <2> DEFINE n == sock[e].sent
  <2>0. n \in 0 .. MaxUnits /\ n < MaxUnits
    BY <1>2, <1>3, SocketType DEF Send
  <2>1. n + 1 \in 0 .. MaxUnits
    BY <2>0, ConstantsAssumption
  <2>2. [sock[e] EXCEPT !.sent = sock[e].sent + 1] \in Socket
    BY <1>2, <2>1, SocketType
  <2>3. sock' = [sock EXCEPT ![e] = [sock[e] EXCEPT !.sent = sock[e].sent + 1]]
    BY <1>3 DEF Send
  <2> QED BY <1>3, <2>2, <2>3, Update DEF Send, TypeOK
<1>4. CASE Fin(e)
  <2>1. [sock[e] EXCEPT !.fin = TRUE] \in Socket
    BY <1>2, SocketType
  <2>2. sock' = [sock EXCEPT ![e] = [sock[e] EXCEPT !.fin = TRUE]]
    BY <1>4 DEF Fin
  <2> QED BY <1>4, <2>1, <2>2, Update, SMTT(20) DEF Fin, TypeOK
<1> QED BY <1>1, <1>3, <1>4

LEMMA OpenType ==
    ASSUME TypeOK, NEW e \in Endpoint
    PROVE  [sock EXCEPT ![e].open = TRUE] \in [Endpoint -> Socket]
<1>1. sock[e] \in Socket
  BY DEF TypeOK
<1>2. [sock[e] EXCEPT !.open = TRUE] \in Socket
  BY <1>1, SocketType
<1>3. [sock EXCEPT ![e].open = TRUE]
        = [sock EXCEPT ![e] = [sock[e] EXCEPT !.open = TRUE]]
  OBVIOUS
<1> QED BY <1>2, <1>3, Update DEF TypeOK

LEMMA ListenerType ==
    ASSUME TypeOK, Listener PROVE TypeOK'
<1>1. CASE AddWaitProxyConn
  BY <1>1 DEF AddWaitProxyConn, TypeOK
<1>2. ASSUME NEW p \in Public, ReuseProxyConn(p) PROVE TypeOK'
  <2> DEFINE n == Len(freeList)
             c == freeList[n]
  <2>1. c \in Proxy /\ PopBack(freeList) \in Seq(Proxy)
    BY <1>2, SeqType, SubSeqType DEF ReuseProxyConn, PopBack, TypeOK
  <2>2. Append(stream["client"][c], ConnectReq(p)) \in Seq(Elem)
    BY <2>1, ElemType, EndpointType, SideType DEF TypeOK
  <2>3. stream' \in [Side -> [Proxy -> Seq(Elem)]]
    BY <1>2, <2>1, <2>2, Update2, SideType, SMTT(60)
       DEF ReuseProxyConn, SendStream, TypeOK
  <2>4. sock' \in [Endpoint -> Socket]
    BY <1>2, OpenType, EndpointType DEF ReuseProxyConn
  <2> QED BY <1>2, <2>1, <2>3, <2>4 DEF ReuseProxyConn, TypeOK
<1>3. ASSUME NEW p \in Public, NotifyClientNeedProxy(p) PROVE TypeOK'
  <2>1. sock' \in [Endpoint -> Socket]
    BY <1>3, OpenType, EndpointType DEF NotifyClientNeedProxy
  <2>2. ctl' \in [Side -> Seq(CtlMsg)]
    BY <1>3, Update, SideType, CtlMsgType DEF NotifyClientNeedProxy, SendCtl, TypeOK
  <2>3. unhandled' \in Seq(Public)
    BY <1>3 DEF NotifyClientNeedProxy, TypeOK
  <2> QED BY <1>3, <2>1, <2>2, <2>3 DEF NotifyClientNeedProxy, TypeOK
<1> QED BY <1>1, <1>2, <1>3 DEF Listener

\* CreateLocalConn opens the local connection of the next session of c.
LEMMA CreateLocalConnType ==
    ASSUME TypeOK, NEW c \in Proxy, CreateLocalConn(c)
    PROVE  /\ <<c, ran[c] + 1>> \in Endpoint
           /\ ran' \in [Proxy -> 0 .. MaxSession]
           /\ sock' \in [Endpoint -> Socket]
<1>1. ran[c] + 1 \in 1 .. MaxSession
  BY ConstantsAssumption DEF CreateLocalConn, TypeOK
<1>2. <<c, ran[c] + 1>> \in Endpoint
  BY <1>1, EndpointType
<1>3. ran' \in [Proxy -> 0 .. MaxSession]
  BY <1>1 DEF CreateLocalConn, TypeOK
<1>4. sock' \in [Endpoint -> Socket]
  BY <1>2, OpenType DEF CreateLocalConn
<1> QED BY <1>2, <1>3, <1>4

LEMMA MainLoopType ==
    ASSUME TypeOK, MainLoop PROVE TypeOK'
<1>1. ASSUME NEW c \in Proxy, HandleProxyNotify(c) PROVE TypeOK'
  <2>1. /\ <<c, ran[c] + 1>> \in Endpoint
        /\ ran' \in [Proxy -> 0 .. MaxSession]
        /\ sock' \in [Endpoint -> Socket]
    BY <1>1, CreateLocalConnType DEF HandleProxyNotify, NextCtl, CreateProxyConn
  <2>2. Append(stream["server"][c], MetaSet) \in Seq(Elem)
    BY ElemType, SideType DEF TypeOK
  <2>3. stream' \in [Side -> [Proxy -> Seq(Elem)]]
    <3>1. stream' = [stream EXCEPT !["server"][c] = Append(stream["server"][c], MetaSet)]
      BY <1>1 DEF HandleProxyNotify, SendStream
    <3> QED BY <2>2, <3>1, Update2, SideType, SMTT(20) DEF TypeOK
  <2>4. ctl' \in [Side -> Seq(CtlMsg)]
    BY <1>1, Update, SideType DEF HandleProxyNotify, NextCtl, CreateProxyConn, TypeOK
  <2>5. job' \in [Side -> [Thread -> Job]] /\ raced' \in SUBSET Proxy
    <3>1. [pc |-> "run", conn |-> c, end |-> <<c, ran[c] + 1>>] \in Job
      BY <2>1, JobType
    <3>2. SetJob("client", Main,
                 [pc |-> "run", conn |-> c, end |-> <<c, ran[c] + 1>>])
      BY <1>1 DEF HandleProxyNotify, NextCtl, CreateProxyConn
    <3> QED BY <3>1, <3>2, SetJobType, SideType, EndpointType
  <2>6. life' \in [Proxy -> {"absent", "backlog", "unclaimed", "claimed"}]
    BY <1>1 DEF HandleProxyNotify, NextCtl, CreateProxyConn, TypeOK
  <2> QED BY <1>1, <2>1, <2>3, <2>4, <2>5, <2>6 DEF HandleProxyNotify, NextCtl, CreateProxyConn, TypeOK
<1>2. ASSUME NEW s \in Side, HandleShutdownPeerConn(s) PROVE TypeOK'
  <2> DEFINE m == Head(ctl[s])
  <2>1. m \in CtlMsg /\ Tail(ctl[s]) \in Seq(CtlMsg)
    BY <1>2, SeqType DEF HandleShutdownPeerConn, NextCtl, TypeOK
  <2>2. m.conn \in Proxy /\ m.count \in Count
    BY <1>2, <2>1, CtlMsgType DEF HandleShutdownPeerConn, NextCtl
  <2>3. ctl' \in [Side -> Seq(CtlMsg)]
    BY <1>2, <2>1, Update DEF HandleShutdownPeerConn, NextCtl, TypeOK
  <2>4. pconn[s][m.conn] \in ProxyConnect
    BY <2>2 DEF TypeOK
  <2>5. AddTotalCount(pconn[s][m.conn], m.count) \in ProxyConnect
    BY <2>2, <2>4, ProxyConnectType
  <2>6. pconn' \in [Side -> [Proxy -> ProxyConnect]]
    <3>1. \/ pconn' = pconn
          \/ SetConn(s, m.conn, AddTotalCount(pconn[s][m.conn], m.count))
      BY <1>2 DEF HandleShutdownPeerConn, NextCtl
    <3> QED BY <2>2, <2>5, <3>1, SetConnType DEF TypeOK
  <2>7. job' \in [Side -> [Thread -> Job]] /\ raced' \in SUBSET Proxy
    <3>1. \/ job' = job /\ raced' = raced
          \/ SetJob(s, Main, Doing("compare", m.conn))
      BY <1>2 DEF HandleShutdownPeerConn, NextCtl
    <3>2. Doing("compare", m.conn) \in Job
      BY <2>2, JobType
    <3> QED BY <3>1, <3>2, SetJobType, EndpointType DEF TypeOK
  <2> QED BY <1>2, <2>3, <2>6, <2>7 DEF HandleShutdownPeerConn, NextCtl, TypeOK
<1>3. ASSUME NEW c \in Proxy, NewProxyConn(c) PROVE TypeOK'
  <2>1. pconn' \in [Side -> [Proxy -> ProxyConnect]]
    BY <1>3, SetConnType, SideType, ProxyConnectType DEF NewProxyConn
  <2>2. life' \in [Proxy -> {"absent", "backlog", "unclaimed", "claimed"}]
    BY <1>3 DEF NewProxyConn, TypeOK
  <2> QED BY <1>3, <2>1, <2>2 DEF NewProxyConn, TypeOK
<1>4. CASE HandleFreeProxyConnReq
  <2> DEFINE m == Head(ctl["server"])
  <2>1. m \in CtlMsg /\ Tail(ctl["server"]) \in Seq(CtlMsg)
    BY <1>4, SeqType, SideType DEF HandleFreeProxyConnReq, NextCtl, TypeOK
  <2>2. m.conn \in Proxy
    BY <1>4, <2>1, CtlMsgType DEF HandleFreeProxyConnReq, NextCtl
  <2>3. ctl' \in [Side -> Seq(CtlMsg)]
    BY <1>4, <2>1, Update DEF HandleFreeProxyConnReq, NextCtl, TypeOK
  <2>4. job' \in [Side -> [Thread -> Job]] /\ raced' \in SUBSET Proxy
    <3>1. SetJob("server", Main, Doing("free", m.conn))
      BY <1>4 DEF HandleFreeProxyConnReq, NextCtl
    <3>2. Doing("free", m.conn) \in Job
      BY <2>2, JobType
    <3> QED BY <3>1, <3>2, SetJobType, SideType, EndpointType
  <2> QED BY <1>4, <2>3, <2>4 DEF HandleFreeProxyConnReq, NextCtl, TypeOK
<1> QED BY <1>1, <1>2, <1>3, <1>4, SideType
    DEF MainLoop, HandleShutdownLocalConn, HandleShutdownPublicConn

\* ProxyConnect::Run keeps the types of the connection and of the relays.
LEMMA RunType ==
    ASSUME TypeOK, NEW s \in Side, NEW c \in Proxy, NEW e \in Endpoint,
           Run(s, c, e)
    PROVE  /\ pconn' \in [Side -> [Proxy -> ProxyConnect]]
           /\ relay' \in [Endpoint -> Relay]
<1>1. pconn[s][c] \in ProxyConnect
  BY DEF TypeOK
<1>2. [pconn[s][c] EXCEPT !.start = TRUE, !.peer = e] \in ProxyConnect
  BY <1>1, ProxyConnectType
<1>3. pconn' \in [Side -> [Proxy -> ProxyConnect]]
  BY <1>2, Update2 DEF Run, SetConn, TypeOK
<1>4. relay' \in [Endpoint -> Relay]
  BY RelayType DEF Run, TypeOK
<1> QED BY <1>3, <1>4

LEMMA ThreadStepType ==
    ASSUME TypeOK, NEW s \in Side, NEW t \in Thread, ThreadStep(s, t)
    PROVE  TypeOK'
<1> DEFINE j == job[s][t]
<1>1. j \in Job
  BY DEF TypeOK
<1>2. j.pc # "idle" => j.conn \in Proxy
  BY <1>1, JobType
<1>3. CASE CompareCounts(s, t)
  <2>1. job' \in [Side -> [Thread -> Job]] /\ raced' \in SUBSET Proxy
    BY <1>2, <1>3, Update2, JobType, SMTT(20) DEF CompareCounts, SetJob, TypeOK
  <2> QED BY <1>3, <2>1 DEF CompareCounts, TypeOK
<1>4. CASE ShutdownFromRemote(s, t)
  <2> DEFINE k == pconn[s][j.conn]
  <2>1. j.conn \in Proxy
    BY <1>2, <1>4 DEF ShutdownFromRemote
  <2>2. k \in ProxyConnect
    BY <2>1 DEF TypeOK
  <2>3. k.peer \in Endpoint \cup {None} /\ HalfClose(k) \in ProxyConnect
    BY <2>2, ProxyConnectType
  <2>4. pconn' \in [Side -> [Proxy -> ProxyConnect]]
    BY <1>4, <2>1, <2>3, Update2 DEF ShutdownFromRemote, SetConn, TypeOK
  <2>5. job' \in [Side -> [Thread -> Job]] /\ raced' \in SUBSET Proxy
    BY <1>4, <2>1, Update2, JobType, ZenonT(30) DEF ShutdownFromRemote, SetJob, TypeOK
  <2>6. sock' \in [Endpoint -> Socket]
    <3>1. CASE k.peer = None
      BY <1>4, <3>1 DEF ShutdownFromRemote, TypeOK
    <3>2. CASE k.peer # None
      <4>1. sock[k.peer] \in Socket
        BY <2>3, <3>2 DEF TypeOK
      <4>2. [sock[k.peer] EXCEPT !.eof = TRUE] \in Socket
        BY <4>1, SocketType
      <4>3. sock' = [sock EXCEPT ![k.peer] = [sock[k.peer] EXCEPT !.eof = TRUE]]
        BY <1>4, <3>2 DEF ShutdownFromRemote
      <4> QED BY <4>2, <4>3, Update DEF TypeOK
    <3> QED BY <3>1, <3>2
  <2> QED BY <1>4, <2>4, <2>5, <2>6 DEF ShutdownFromRemote, TypeOK
<1>5. CASE s = "server" /\ FreeProxyConn(t)
  <2>1. job' \in [Side -> [Thread -> Job]] /\ raced' \in SUBSET Proxy
    BY <1>2, <1>5, Update2, JobType DEF FreeProxyConn, SetJob, TypeOK
  <2> QED BY <1>5, <2>1 DEF FreeProxyConn, TypeOK
<1>6. CASE s = "server" /\ RecycleProxyConn(t)
  <2>1. job' \in [Side -> [Thread -> Job]] /\ raced' \in SUBSET Proxy
    BY <1>6, Update2, JobType DEF RecycleProxyConn, SetJob, TypeOK
  <2>2. proxyMap' \in SUBSET Proxy /\ freeList' \in Seq(Proxy)
    BY <1>2, <1>6, SeqType DEF RecycleProxyConn, TypeOK
  <2> QED BY <1>6, <2>1, <2>2 DEF RecycleProxyConn, TypeOK
<1>7. CASE s = "client" /\ SendFreeConnReq(t)
  <2>1. job' \in [Side -> [Thread -> Job]] /\ raced' \in SUBSET Proxy
    BY <1>7, Update2, JobType DEF SendFreeConnReq, SetJob, TypeOK
  <2>2. FreeConnReq(j.conn) \in CtlMsg
    BY <1>2, <1>7, CtlMsgType DEF SendFreeConnReq
  <2>3. Append(ctl["server"], FreeConnReq(j.conn)) \in Seq(CtlMsg)
    BY <2>2, SeqType, SideType DEF TypeOK
  <2>4. ctl' \in [Side -> Seq(CtlMsg)]
    BY <1>7, <2>3, Update DEF SendFreeConnReq, SendCtl, TypeOK
  <2> QED BY <1>7, <2>1, <2>4 DEF SendFreeConnReq, TypeOK
<1>8. CASE s = "client" /\ StartLocalConn(t)
  <2>1. j.conn \in Proxy /\ j.end \in Endpoint
    BY <1>1, <1>2, <1>8, JobType DEF StartLocalConn
  <2>2. Run("client", j.conn, j.end)
    BY <1>8 DEF StartLocalConn
  <2>3. /\ pconn' \in [Side -> [Proxy -> ProxyConnect]]
        /\ relay' \in [Endpoint -> Relay]
    BY <2>1, <2>2, RunType, SideType
  <2>4. job' \in [Side -> [Thread -> Job]] /\ raced' \in SUBSET Proxy
    BY <1>8, Update2, JobType DEF StartLocalConn, SetJob, TypeOK
  <2> QED BY <1>8, <2>3, <2>4 DEF StartLocalConn, TypeOK
<1> QED BY <1>3, <1>4, <1>5, <1>6, <1>7, <1>8 DEF ThreadStep

\* The element a worker is about to read.
LEMMA ReadableType ==
    ASSUME TypeOK, NEW s \in Side, NEW c \in Proxy, Readable(s, c)
    PROVE  /\ Head(stream[s][c]) \in Elem
           /\ Tail(stream[s][c]) \in Seq(Elem)
           /\ [stream EXCEPT ![s][c] = Tail(@)] \in [Side -> [Proxy -> Seq(Elem)]]
<1>1. stream[s][c] \in Seq(Elem) /\ stream[s][c] # <<>>
  BY DEF Readable, TypeOK
<1>2. Head(stream[s][c]) \in Elem /\ Tail(stream[s][c]) \in Seq(Elem)
  BY <1>1, SeqType
<1>3. [stream EXCEPT ![s][c] = Tail(@)] = [stream EXCEPT ![s][c] = Tail(stream[s][c])]
  OBVIOUS
<1> QED BY <1>2, <1>3, Update2 DEF TypeOK

LEMMA BindType ==
    ASSUME TypeOK, NEW p \in Public, NEW c \in Proxy, BindPublicFd(p, c)
    PROVE  /\ pconn' \in [Side -> [Proxy -> ProxyConnect]]
           /\ relay' \in [Endpoint -> Relay]
           /\ proxyMap' \in SUBSET Proxy
           /\ bound' \in [Proxy -> Seq(Public)]
<1>1. /\ pconn' \in [Side -> [Proxy -> ProxyConnect]]
      /\ relay' \in [Endpoint -> Relay]
  BY RunType, SideType, EndpointType DEF BindPublicFd
<1>2. proxyMap' \in SUBSET Proxy /\ bound' \in [Proxy -> Seq(Public)]
  BY DEF BindPublicFd, TypeOK
<1> QED BY <1>1, <1>2

LEMMA ReadMsgType ==
    ASSUME TypeOK, NEW c \in Proxy, ReadMsg(c) PROVE TypeOK'
<1>1. CASE ClaimProxyConn(c)
  <2> DEFINE n == Len(unhandled)
  <2>1. unhandled[n] \in Public /\ PopBack(unhandled) \in Seq(Public)
    BY <1>1, SeqType, SubSeqType DEF ClaimProxyConn, PopBack, TypeOK
  <2>2. BindPublicFd(unhandled[n], c)
    BY <1>1 DEF ClaimProxyConn
  <2>3. /\ pconn' \in [Side -> [Proxy -> ProxyConnect]]
        /\ relay' \in [Endpoint -> Relay]
        /\ proxyMap' \in SUBSET Proxy
        /\ bound' \in [Proxy -> Seq(Public)]
    BY <2>1, <2>2, BindType
  <2>4. stream' \in [Side -> [Proxy -> Seq(Elem)]]
    BY <1>1, ReadableType, SideType DEF ClaimProxyConn, NextMsg
  <2>5. life' \in [Proxy -> {"absent", "backlog", "unclaimed", "claimed"}]
    BY <1>1 DEF ClaimProxyConn, TypeOK
  <2> QED BY <1>1, <2>1, <2>3, <2>4, <2>5 DEF ClaimProxyConn, TypeOK
<1>2. CASE HandleStartProxyConnRsp(c)
  <2> DEFINE x == Head(stream["server"][c])
  <2>1. Readable("server", c) /\ x.kind = "rsp"
    BY <1>2 DEF HandleStartProxyConnRsp, NextMsg
  <2>2. x.fd \in Public
    BY <2>1, ReadableType, SideType, ElemType
  <2>3. stream' \in [Side -> [Proxy -> Seq(Elem)]]
    BY <1>2, <2>1, ReadableType, SideType DEF HandleStartProxyConnRsp
  <2>4. CASE c \in waitMap
    <3>1. BindPublicFd(x.fd, c)
      BY <1>2, <2>4 DEF HandleStartProxyConnRsp
    <3>2. /\ pconn' \in [Side -> [Proxy -> ProxyConnect]]
          /\ relay' \in [Endpoint -> Relay]
          /\ proxyMap' \in SUBSET Proxy
          /\ bound' \in [Proxy -> Seq(Public)]
      BY <2>2, <3>1, BindType
    <3> QED BY <1>2, <2>3, <2>4, <3>2 DEF HandleStartProxyConnRsp, TypeOK
  <2>5. CASE c \notin waitMap
    BY <1>2, <2>3, <2>5 DEF HandleStartProxyConnRsp, TypeOK
  <2> QED BY <2>4, <2>5
<1>3. CASE HandleProxyConnectReq(c)
  <2> DEFINE x == Head(stream["client"][c])
             answer == Append(stream["server"][c], ConnectRsp(x.fd))
             read == [stream EXCEPT !["client"][c] = Tail(@)]
  <2>1. Readable("client", c) /\ x.kind = "req"
    BY <1>3 DEF HandleProxyConnectReq, NextMsg
  <2>2. x.fd \in Public
    BY <2>1, ReadableType, SideType, ElemType
  <2>3. /\ <<c, ran[c] + 1>> \in Endpoint
        /\ ran' \in [Proxy -> 0 .. MaxSession]
        /\ sock' \in [Endpoint -> Socket]
    BY <1>3, CreateLocalConnType DEF HandleProxyConnectReq
  <2>4. read \in [Side -> [Proxy -> Seq(Elem)]]
    BY <2>1, ReadableType, SideType
  <2>5. answer \in Seq(Elem)
    BY <2>2, SeqType, SideType, ElemType DEF TypeOK
  <2>6. stream' = [read EXCEPT !["server"][c] = answer]
    BY <1>3, SideType DEF HandleProxyConnectReq, TypeOK
  <2>7. stream' \in [Side -> [Proxy -> Seq(Elem)]]
    <3> HIDE DEF read, answer
    <3> QED BY <2>4, <2>5, <2>6, Update2, SideType
  <2>8. job' \in [Side -> [Thread -> Job]] /\ raced' \in SUBSET Proxy
    <3>1. SetJob("client", c,
                 [pc |-> "run", conn |-> c, end |-> <<c, ran[c] + 1>>])
      BY <1>3 DEF HandleProxyConnectReq
    <3>2. [pc |-> "run", conn |-> c, end |-> <<c, ran[c] + 1>>] \in Job
      BY <2>3, JobType
    <3> QED BY <3>1, <3>2, SetJobType, SideType, EndpointType
  <2> QED BY <1>3, <2>3, <2>7, <2>8 DEF HandleProxyConnectReq, TypeOK
<1> QED BY <1>1, <1>2, <1>3 DEF ReadMsg

LEMMA ReadProxyType ==
    ASSUME TypeOK, NEW s \in Side, NEW c \in Proxy, ReadProxy(s, c)
    PROVE  TypeOK'
<1>1. CASE DropPayload(s, c) \/ ReadnGoesOn(s, c)
  <2>1. stream[s][c] # <<>> /\ stream' = [stream EXCEPT ![s][c] = Tail(stream[s][c])]
    BY <1>1 DEF DropPayload, ReadnGoesOn, NextMsg, Readable
  <2>2. stream' \in [Side -> [Proxy -> Seq(Elem)]]
    BY <2>1, SeqType, Update2 DEF TypeOK
  <2>3. held' \in SUBSET (Side \X Proxy)
    BY <1>1 DEF DropPayload, ReadnGoesOn, TypeOK
  <2> QED BY <1>1, <2>2, <2>3 DEF DropPayload, ReadnGoesOn, TypeOK
<1>2. CASE SplicePayload(s, c)
  <2> DEFINE q == stream[s][c]
             e == pconn[s][c].peer
  <2>1. PICK k \in 1 .. Len(q) :
          /\ stream' = [stream EXCEPT ![s][c] = Unread(@, k)]
          /\ sock' = [sock EXCEPT ![e].got = @ \o SubSeq(q, 1, k)]
          /\ SetConn(s, c, AddRecvCount(pconn[s][c], k))
    BY <1>2 DEF SplicePayload
  <2>2. q \in Seq(Elem)
    BY DEF TypeOK
  <2>3. SubSeq(q, k + 1, Len(q)) \in Seq(Elem) /\ SubSeq(q, 1, k) \in Seq(Elem)
    BY <2>2, SubSeqType
  <2>4. stream' \in [Side -> [Proxy -> Seq(Elem)]]
    <3>1. stream' = [stream EXCEPT ![s][c] = SubSeq(q, k + 1, Len(q))]
      BY <2>1 DEF Unread
    <3> QED BY <2>3, <3>1, Update2 DEF TypeOK
  <2>5. pconn[s][c] \in ProxyConnect
    BY DEF TypeOK
  <2>6. pconn' \in [Side -> [Proxy -> ProxyConnect]]
    <3>1. k \in Nat
      BY <2>2
    <3>2. AddRecvCount(pconn[s][c], k) \in ProxyConnect
      BY <2>5, <3>1, ProxyConnectType
    <3> QED BY <2>1, <3>2, SetConnType
  <2>7. job' \in [Side -> [Thread -> Job]] /\ raced' \in SUBSET Proxy
    BY <1>2, SetJobType, JobType, EndpointType DEF SplicePayload
  <2>8. sock' \in [Endpoint -> Socket]
    <3>1. CASE e \in Endpoint
      <4>1. sock[e] \in Socket
        BY <3>1 DEF TypeOK
      <4>2. sock[e].got \o SubSeq(q, 1, k) \in Seq(Elem)
        BY <2>3, <4>1, SocketType, SeqType
      <4>3. [sock[e] EXCEPT !.got = sock[e].got \o SubSeq(q, 1, k)] \in Socket
        BY <4>1, <4>2, SocketType
      <4>4. sock' = [sock EXCEPT ![e] =
                       [sock[e] EXCEPT !.got = sock[e].got \o SubSeq(q, 1, k)]]
        BY <2>1
      <4> QED BY <4>3, <4>4, Update DEF TypeOK
    <3>2. CASE e \notin Endpoint
      BY <2>1, <3>2 DEF TypeOK
    <3> QED BY <3>1, <3>2
  <2> QED BY <1>2, <2>4, <2>6, <2>7, <2>8 DEF SplicePayload, TypeOK
<1> QED BY <1>1, <1>2 DEF ReadProxy

LEMMA SendShutdownType ==
    ASSUME TypeOK, NEW s \in Side, NEW c \in Proxy, SendShutdown(s, c)
    PROVE  TypeOK'
<1> DEFINE e == job[s][c].end
<1>1. e \in Endpoint
  BY JobType, EndpointType DEF SendShutdown, TypeOK
<1>2. relay[e] \in Relay
  BY <1>1 DEF TypeOK
<1>3. ctl' \in [Side -> Seq(CtlMsg)]
  <2>1. ShutdownPeerConn(c, relay[e].tran) \in CtlMsg
    BY <1>2, RelayType, CtlMsgType
  <2>2. Append(ctl[Other(s)], ShutdownPeerConn(c, relay[e].tran)) \in Seq(CtlMsg)
    BY <2>1, SeqType, SideType DEF TypeOK
  <2> QED BY <2>2, Update DEF SendShutdown, SendCtl, TypeOK
<1>4. relay' \in [Endpoint -> Relay]
  <2>1. [relay[e] EXCEPT !.closed = TRUE] \in Relay
    BY <1>2, RelayType
  <2>2. relay' = [relay EXCEPT ![e] = [relay[e] EXCEPT !.closed = TRUE]]
    BY DEF SendShutdown
  <2> QED BY <2>1, <2>2, Update DEF TypeOK
<1>5. job' \in [Side -> [Thread -> Job]] /\ raced' \in SUBSET Proxy
  BY SetJobType, JobType, EndpointType DEF SendShutdown
<1> QED BY <1>3, <1>4, <1>5 DEF SendShutdown, TypeOK

LEMMA RelayStepType ==
    ASSUME TypeOK, NEW e \in Endpoint, RelayPayload(e) \/ RelayEof(e)
    PROVE  TypeOK'
<1> DEFINE s == SideOf(e)
           c == relay[e].conn
<1>1. relay[e] \in Relay /\ sock[e] \in Socket /\ s \in Side /\ Other(s) \in Side
  BY SideType DEF TypeOK
<1>2. c \in Proxy
  BY <1>1, RelayType DEF RelayPayload, RelayEof, RelayReadable
<1>3. CASE RelayPayload(e)
  <2> DEFINE r == sock[e].read
             q == stream[Other(s)][c]
  <2>1. PICK k \in 1 .. (sock[e].sent - r) :
          /\ stream' = [stream EXCEPT ![Other(s)][c] =
                          @ \o [i \in 1 .. k |-> Data(e, r + i)]]
          /\ sock' = [sock EXCEPT ![e].read = @ + k]
          /\ relay' = [relay EXCEPT ![e].tran = (@ + k) % CountMod]
    BY <1>3 DEF RelayPayload
  <2>2. r \in 0 .. MaxUnits /\ sock[e].sent \in 0 .. MaxUnits
    BY <1>1, SocketType
  <2>3. r + k \in 0 .. MaxUnits /\ k \in Nat
    BY <2>2, ConstantsAssumption
  <2>4. stream' \in [Side -> [Proxy -> Seq(Elem)]]
    <3> DEFINE fed == [i \in 1 .. k |-> Data(e, r + i)]
    <3>1. \A i \in 1 .. k : r + i \in 1 .. MaxUnits
      BY <2>2, <2>3, ConstantsAssumption
    <3>2. fed \in Seq(Elem)
      BY <2>3, <3>1, ElemType
    <3>3. q \in Seq(Elem)
      BY <1>1, <1>2 DEF TypeOK
    <3>4. q \o fed \in Seq(Elem)
      BY <3>2, <3>3, SeqType
    <3>5. stream' = [stream EXCEPT ![Other(s)][c] = q \o fed]
      BY <2>1
    <3> HIDE DEF fed, q, s, c
    <3> QED BY <1>1, <1>2, <3>4, <3>5, Update2, SMTT(20) DEF TypeOK
  <2>5. sock' \in [Endpoint -> Socket]
    <3>1. [sock[e] EXCEPT !.read = r + k] \in Socket
      BY <1>1, <2>3, SocketType
    <3>2. sock' = [sock EXCEPT ![e] = [sock[e] EXCEPT !.read = r + k]]
      BY <2>1
    <3> QED BY <3>1, <3>2, Update DEF TypeOK
  <2>6. relay' \in [Endpoint -> Relay]
    <3>1. relay[e].tran \in Count
      BY <1>1, RelayType
    <3>2. relay[e].tran + k \in Nat
      BY <2>3, <3>1, ConstantsAssumption DEF Count
    <3>3. [relay[e] EXCEPT !.tran = (relay[e].tran + k) % CountMod] \in Relay
      BY <1>1, <3>2, CountType, RelayType
    <3>4. relay' = [relay EXCEPT ![e] =
                      [relay[e] EXCEPT !.tran = (relay[e].tran + k) % CountMod]]
      BY <2>1
    <3> QED BY <3>3, <3>4, Update DEF TypeOK
  <2> QED BY <1>3, <2>4, <2>5, <2>6 DEF RelayPayload, TypeOK
<1>4. CASE RelayEof(e)
  <2>1. CASE s = "server" /\ c \notin proxyMap
    <3>1. [relay[e] EXCEPT !.closed = TRUE] \in Relay
      BY <1>1, RelayType
    <3>2. relay' = [relay EXCEPT ![e] = [relay[e] EXCEPT !.closed = TRUE]]
      BY <1>4, <2>1 DEF RelayEof
    <3>3. relay' \in [Endpoint -> Relay]
      BY <3>1, <3>2, Update DEF TypeOK
    <3> QED BY <1>4, <2>1, <3>3 DEF RelayEof, TypeOK
  <2>2. CASE ~(s = "server" /\ c \notin proxyMap)
    <3>1. pconn[s][c] \in ProxyConnect
      BY <1>1, <1>2 DEF TypeOK
    <3>2. ShutdownFromLocal(pconn[s][c]) \in ProxyConnect
      BY <3>1, ProxyConnectType DEF ShutdownFromLocal
    <3>3. /\ SetConn(s, c, ShutdownFromLocal(pconn[s][c]))
          /\ SetJob(s, c, [pc |-> "fin", conn |-> c, end |-> e])
          /\ UNCHANGED relay
      BY <1>4, <2>2 DEF RelayEof
    <3>4. pconn' \in [Side -> [Proxy -> ProxyConnect]]
      BY <1>1, <1>2, <3>2, <3>3, SetConnType
    <3>5. [pc |-> "fin", conn |-> c, end |-> e] \in Job
      BY <1>2, JobType
    <3>6. job' \in [Side -> [Thread -> Job]] /\ raced' \in SUBSET Proxy
      BY <1>1, <1>2, <3>3, <3>5, SetJobType, EndpointType
    <3> QED BY <1>4, <3>3, <3>4, <3>6 DEF RelayEof, TypeOK
  <2> QED BY <2>1, <2>2
<1> QED BY <1>3, <1>4

LEMMA InitType == Init => TypeOK
<1> SUFFICES ASSUME Init PROVE TypeOK
  OBVIOUS
<1>1. /\ pconn \in [Side -> [Proxy -> ProxyConnect]]
      /\ relay \in [Endpoint -> Relay]
      /\ sock \in [Endpoint -> Socket]
      /\ job \in [Side -> [Thread -> Job]]
  BY ProxyConnectType, RelayType, SocketType, JobType DEF Init
<1>2. ran \in [Proxy -> 0 .. MaxSession]
  BY ConstantsAssumption DEF Init
<1> QED BY <1>1, <1>2 DEF Init, TypeOK

LEMMA NextType == TypeOK /\ [Next]_vars => TypeOK'
<1> SUFFICES ASSUME TypeOK, [Next]_vars PROVE TypeOK'
  OBVIOUS
<1>1. CASE Environment
  BY <1>1, EnvironmentType
<1>2. CASE Listener
  BY <1>2, ListenerType
<1>3. CASE MainLoop
  BY <1>3, MainLoopType
<1>4. ASSUME NEW s \in Side, NEW t \in Thread, ThreadStep(s, t) PROVE TypeOK'
  BY <1>4, ThreadStepType
<1>5. CASE Worker
  <2>1. ASSUME NEW c \in Proxy, ReadMsg(c) PROVE TypeOK'
    BY <2>1, ReadMsgType
  <2>2. ASSUME NEW s \in Side, NEW c \in Proxy, ReadProxy(s, c) PROVE TypeOK'
    BY <2>2, ReadProxyType
  <2>3. ASSUME NEW s \in Side, NEW c \in Proxy, SendShutdown(s, c) PROVE TypeOK'
    BY <2>3, SendShutdownType
  <2>4. ASSUME NEW e \in Endpoint, RelayPayload(e) \/ RelayEof(e) PROVE TypeOK'
    BY <2>4, RelayStepType
  <2> QED BY <1>5, <2>1, <2>2, <2>3, <2>4
       DEF Worker, PublicConnectRead, ClientConnectRead, Endpoint
<1>6. CASE UNCHANGED vars
  BY <1>6 DEF vars, TypeOK
<1> QED BY <1>1, <1>2, <1>3, <1>4, <1>5, <1>6 DEF Next

\* Every handler on both sides keeps every object in its type: counters in
\* their width, indices of the queues in range, and a thread in the middle of
\* a handler on a connection that exists.
THEOREM TypeCorrect == Spec => []TypeOK
BY InitType, NextType, PTL DEF Spec

-----------------------------------------------------------------------------
(* The account of the waiting public fds *)

\* The proxy connections that are made and not claimed.
Unclaimed == {c \in Proxy : life[c] \in {"backlog", "unclaimed"}}

\* The account.
Account ==
    Len(unhandled) = Cardinality(Notifies(ctl["client"])) + Cardinality(Unclaimed)

\* q holds at most one ProxyMetaSet, and only while its connection is in state l
\* of an unclaimed one.
MetaOK(q, l) ==
    \A i \in 1 .. Len(q) : q[i].kind = "meta" =>
        /\ l \in {"backlog", "unclaimed"}
        /\ \A j \in 1 .. Len(q) : q[j].kind = "meta" => i = j

MetaOnce == \A c \in Proxy : MetaOK(stream["server"][c], life[c])

IInv == TypeOK /\ MetaOnce /\ Account

-----------------------------------------------------------------------------
(* ProxyMetaSet on a stream that grows and shrinks *)

LEMMA MetaSuffix ==
    ASSUME NEW q \in Seq(Elem), NEW l, MetaOK(q, l), NEW k \in 1 .. Len(q)
    PROVE  MetaOK(SubSeq(q, k + 1, Len(q)), l)
BY DEF MetaOK

LEMMA MetaTail ==
    ASSUME NEW q \in Seq(Elem), NEW l, MetaOK(q, l), q # <<>>
    PROVE  MetaOK(Tail(q), l)
BY DEF MetaOK

LEMMA MetaConcat ==
    ASSUME NEW q \in Seq(Elem), NEW l, MetaOK(q, l), NEW r \in Seq(Elem),
           \A i \in 1 .. Len(r) : r[i].kind # "meta"
    PROVE  MetaOK(q \o r, l)
BY DEF MetaOK

LEMMA MetaAppend ==
    ASSUME NEW q \in Seq(Elem), NEW l, MetaOK(q, l), NEW x \in Elem,
           x.kind # "meta"
    PROVE  MetaOK(Append(q, x), l)
BY DEF MetaOK

LEMMA MetaFirst ==
    ASSUME NEW q \in Seq(Elem), MetaOK(q, "absent")
    PROVE  MetaOK(Append(q, MetaSet), "backlog")
BY DEF MetaOK, MetaSet

LEMMA MetaClaimed ==
    ASSUME NEW q \in Seq(Elem), NEW l, MetaOK(q, l), q # <<>>,
           Head(q).kind = "meta"
    PROVE  l \in {"backlog", "unclaimed"} /\ MetaOK(Tail(q), "claimed")
BY DEF MetaOK

\* pop_back
LEMMA DropLast ==
    ASSUME NEW S, NEW q \in Seq(S), q # <<>>
    PROVE  Len(PopBack(q)) = Len(q) - 1
<1> DEFINE n == Len(q) - 1
<1>1. n \in Nat /\ n + 1 = Len(q)
  OBVIOUS
<1>2. n = 0 \/ (1 <= n /\ n <= Len(q))
  BY <1>1
<1>3. Len(SubSeq(q, 1, n)) = IF 1 <= n THEN n - 1 + 1 ELSE 0
  <2> HIDE DEF n
  <2> QED BY <1>1
<1> QED BY <1>1, <1>2, <1>3 DEF PopBack

-----------------------------------------------------------------------------
(* Counting NotifyClient on the control connection *)

LEMMA NotifiesFinite ==
    ASSUME NEW q \in Seq(CtlMsg)
    PROVE  IsFiniteSet(Notifies(q)) /\ Cardinality(Notifies(q)) \in Nat
<1>1. IsFiniteSet(1 .. Len(q))
  BY FS_Interval
<1>2. Notifies(q) \in SUBSET (1 .. Len(q))
  BY DEF Notifies
<1> QED BY <1>1, <1>2, FS_Subset, FS_CardinalityType

LEMMA NotifiesAppend ==
    ASSUME NEW q \in Seq(CtlMsg), NEW m \in CtlMsg
    PROVE  Cardinality(Notifies(Append(q, m)))
             = Cardinality(Notifies(q)) + (IF m.kind = "notify" THEN 1 ELSE 0)
<1>1. CASE m.kind = "notify"
  <2>1. Notifies(Append(q, m)) = Notifies(q) \cup {Len(q) + 1}
    BY <1>1 DEF Notifies
  <2>2. Len(q) + 1 \notin Notifies(q)
    BY DEF Notifies
  <2> QED BY <1>1, <2>1, <2>2, NotifiesFinite, FS_AddElement
<1>2. CASE m.kind # "notify"
  <2>1. Notifies(Append(q, m)) = Notifies(q)
    BY <1>2 DEF Notifies
  <2> QED BY <1>2, <2>1, NotifiesFinite
<1> QED BY <1>1, <1>2

LEMMA NotifiesTail ==
    ASSUME NEW q \in Seq(CtlMsg), q # <<>>
    PROVE  Cardinality(Notifies(Tail(q)))
             = Cardinality(Notifies(q))
                 - (IF Head(q).kind = "notify" THEN 1 ELSE 0)
<1> DEFINE later == Notifies(q) \ {1}
           shift == [i \in later |-> i - 1]
<1>1. Tail(q) \in Seq(CtlMsg) /\ Len(Tail(q)) = Len(q) - 1
  OBVIOUS
<1>2. \A i \in Notifies(Tail(q)) : i + 1 \in later
  BY DEF Notifies
<1>3. \A i \in later : i - 1 \in Notifies(Tail(q))
  BY DEF Notifies
<1>4. later \subseteq Nat /\ Notifies(Tail(q)) \subseteq Nat
  BY DEF Notifies
<1>5. shift \in Bijection(later, Notifies(Tail(q)))
  <2>1. shift \in [later -> Notifies(Tail(q))]
    BY <1>3
  <2>2. shift \in Injection(later, Notifies(Tail(q)))
    BY <1>4, <2>1 DEF Injection, IsInjective
  <2>3. \A j \in Notifies(Tail(q)) : \E i \in later : shift[i] = j
    BY <1>2, <1>4
  <2> QED BY <2>1, <2>2, <2>3 DEF Bijection, Surjection
<1>6. IsFiniteSet(later)
        /\ Cardinality(later) = IF 1 \in Notifies(q) THEN Cardinality(Notifies(q)) - 1
                                ELSE Cardinality(Notifies(q))
  BY NotifiesFinite, FS_RemoveElement
<1>7. Cardinality(Notifies(Tail(q))) = Cardinality(later)
  BY <1>5, <1>6, FS_Bijection DEF ExistsBijection
<1>8. 1 \in Notifies(q) <=> Head(q).kind = "notify"
  BY DEF Notifies
<1> QED BY <1>6, <1>7, <1>8, NotifiesFinite

-----------------------------------------------------------------------------
(* What a handler does to the account *)

LEMMA UnclaimedFinite == IsFiniteSet(Unclaimed) /\ Cardinality(Unclaimed) \in Nat
<1>1. Unclaimed \in SUBSET Proxy
  BY DEF Unclaimed
<1> QED BY <1>1, ConstantsAssumption, FS_Subset, FS_CardinalityType

\* Most handlers touch neither the account nor what travels to the server.
LEMMA Untouched ==
    ASSUME MetaOnce, Account,
           stream'["server"] = stream["server"], ctl'["client"] = ctl["client"],
           life' = life, unhandled' = unhandled
    PROVE  MetaOnce' /\ Account'
<1>1. MetaOnce'
  BY DEF MetaOnce
<1>2. Account'
  BY DEF Account, Unclaimed
<1> QED BY <1>1, <1>2

\* One stream changes, and the state of its connection with it.
LEMMA OneStream ==
    ASSUME TypeOK, MetaOnce, NEW c \in Proxy, NEW q, MetaOK(q, life'[c]),
           stream'["server"] = [stream["server"] EXCEPT ![c] = q],
           \A d \in Proxy \ {c} : life'[d] = life[d]
    PROVE  MetaOnce'
<1>1. stream["server"] \in [Proxy -> Seq(Elem)]
  BY SideType DEF TypeOK
<1>2. ASSUME NEW d \in Proxy PROVE MetaOK(stream'["server"][d], life'[d])
  <2>1. CASE d = c
    BY <1>1, <2>1
  <2>2. CASE d # c
    BY <1>1, <2>2 DEF MetaOnce
  <2> QED BY <2>1, <2>2
<1> QED BY <1>2 DEF MetaOnce

\* One stream changes and the account does not.
LEMMA StreamOnly ==
    ASSUME IInv, NEW c \in Proxy, NEW q, MetaOK(q, life[c]),
           stream'["server"] = [stream["server"] EXCEPT ![c] = q],
           ctl' = ctl, life' = life, unhandled' = unhandled
    PROVE  MetaOnce' /\ Account'
<1>1. MetaOnce'
  BY OneStream DEF IInv
<1>2. Account'
  BY DEF Account, Unclaimed, IInv
<1> QED BY <1>1, <1>2

-----------------------------------------------------------------------------
(* The handlers *)

LEMMA ListenerAccount ==
    ASSUME IInv, Listener PROVE MetaOnce' /\ Account'
<1>1. CASE AddWaitProxyConn
  BY <1>1, Untouched DEF AddWaitProxyConn, IInv
<1>2. ASSUME NEW p \in Public, ReuseProxyConn(p) PROVE MetaOnce' /\ Account'
  <2>1. stream'["server"] = stream["server"]
    BY <1>2 DEF ReuseProxyConn, SendStream, IInv, TypeOK, Side
  <2> QED BY <1>2, <2>1, Untouched DEF ReuseProxyConn, IInv
<1>3. ASSUME NEW p \in Public, NotifyClientNeedProxy(p) PROVE MetaOnce' /\ Account'
  <2>1. MetaOnce'
    BY <1>3 DEF NotifyClientNeedProxy, MetaOnce, IInv
  <2>2. ctl["client"] \in Seq(CtlMsg) /\ unhandled \in Seq(Public)
    BY SideType DEF IInv, TypeOK
  <2>3. ctl'["client"] = Append(ctl["client"], NotifyClient)
    BY <1>3, SideType DEF NotifyClientNeedProxy, SendCtl, IInv, TypeOK
  <2>4. Cardinality(Notifies(ctl'["client"]))
          = Cardinality(Notifies(ctl["client"])) + 1
    BY <2>2, <2>3, NotifiesAppend, CtlMsgType DEF NotifyClient
  <2>5. Len(unhandled') = Len(unhandled) + 1 /\ Unclaimed' = Unclaimed
    BY <1>3, <2>2 DEF NotifyClientNeedProxy, Unclaimed
  <2>6. Account'
    BY <2>2, <2>4, <2>5, NotifiesFinite, UnclaimedFinite DEF Account, IInv
  <2> QED BY <2>1, <2>6
<1> QED BY <1>1, <1>2, <1>3 DEF Listener

LEMMA HandleProxyNotifyAccount ==
    ASSUME IInv, NEW c \in Proxy, HandleProxyNotify(c)
    PROVE  MetaOnce' /\ Account'
<1> DEFINE q == stream["server"][c]
<1>1. /\ q \in Seq(Elem) /\ ctl["client"] \in Seq(CtlMsg)
      /\ life \in [Proxy -> {"absent", "backlog", "unclaimed", "claimed"}]
      /\ life[c] = "absent" /\ ctl["client"] # <<>>
      /\ Head(ctl["client"]).kind = "notify"
  BY SideType DEF HandleProxyNotify, NextCtl, CreateProxyConn, NotifyClient, IInv, TypeOK
<1>2. MetaOnce'
  <2>1. stream'["server"] = [stream["server"] EXCEPT ![c] = Append(q, MetaSet)]
    BY SideType DEF HandleProxyNotify, NextCtl, CreateProxyConn, SendStream, IInv, TypeOK
  <2>2. life'[c] = "backlog" /\ \A d \in Proxy \ {c} : life'[d] = life[d]
    BY <1>1 DEF HandleProxyNotify, NextCtl, CreateProxyConn
  <2>3. MetaOK(Append(q, MetaSet), life'[c])
    BY <1>1, <2>2, MetaFirst DEF MetaOnce, IInv
  <2> QED BY <2>1, <2>2, <2>3, OneStream DEF IInv
<1>3. Account'
  <2>1. ctl'["client"] = Tail(ctl["client"]) /\ unhandled' = unhandled
    BY SideType DEF HandleProxyNotify, NextCtl, CreateProxyConn, IInv, TypeOK
  <2>2. Cardinality(Notifies(ctl'["client"]))
          = Cardinality(Notifies(ctl["client"])) - 1
    BY <1>1, <2>1, NotifiesTail
  <2>3. Unclaimed' = Unclaimed \cup {c} /\ c \notin Unclaimed
    BY <1>1 DEF HandleProxyNotify, NextCtl, CreateProxyConn, Unclaimed
  <2>4. Cardinality(Unclaimed') = Cardinality(Unclaimed) + 1
    BY <2>3, UnclaimedFinite, FS_AddElement
  <2> QED BY <1>1, <2>1, <2>2, <2>4, NotifiesFinite, UnclaimedFinite DEF Account, IInv
<1> QED BY <1>2, <1>3

LEMMA MainLoopAccount ==
    ASSUME IInv, MainLoop PROVE MetaOnce' /\ Account'
<1>1. ASSUME NEW c \in Proxy, HandleProxyNotify(c) PROVE MetaOnce' /\ Account'
  BY <1>1, HandleProxyNotifyAccount
<1>2. ASSUME NEW c \in Proxy, NewProxyConn(c) PROVE MetaOnce' /\ Account'
  <2>1. /\ life \in [Proxy -> {"absent", "backlog", "unclaimed", "claimed"}]
        /\ life[c] = "backlog" /\ life' = [life EXCEPT ![c] = "unclaimed"]
        /\ stream' = stream /\ ctl' = ctl /\ unhandled' = unhandled
    BY <1>2 DEF NewProxyConn, IInv, TypeOK
  <2>2. MetaOnce'
    BY <2>1 DEF MetaOnce, MetaOK, IInv
  <2>3. Unclaimed' = Unclaimed
    BY <2>1 DEF Unclaimed
  <2> QED BY <2>1, <2>2, <2>3 DEF Account, IInv
<1>3. ASSUME NEW s \in Side, HandleShutdownPeerConn(s) PROVE MetaOnce' /\ Account'
  <2>1. stream' = stream /\ life' = life /\ unhandled' = unhandled
    BY <1>3 DEF HandleShutdownPeerConn, NextCtl
  <2>2. CASE s = "server"
    <3>1. ctl'["client"] = ctl["client"]
      BY <1>3, <2>2 DEF HandleShutdownPeerConn, NextCtl, IInv, TypeOK, Side
    <3> QED BY <2>1, <3>1, Untouched DEF IInv
  <2>3. CASE s = "client"
    <3>1. /\ ctl["client"] \in Seq(CtlMsg) /\ ctl["client"] # <<>>
          /\ Head(ctl["client"]).kind = "shutdown"
          /\ ctl'["client"] = Tail(ctl["client"])
      BY <1>3, <2>3, SideType DEF HandleShutdownPeerConn, NextCtl, IInv, TypeOK
    <3>2. Cardinality(Notifies(ctl'["client"]))
            = Cardinality(Notifies(ctl["client"]))
      BY <3>1, NotifiesTail, NotifiesFinite
    <3>3. MetaOnce'
      BY <2>1 DEF MetaOnce, IInv
    <3> QED BY <2>1, <3>2, <3>3 DEF Account, Unclaimed, IInv
  <2> QED BY <2>2, <2>3 DEF Side
<1>4. CASE HandleFreeProxyConnReq
  <2>1. ctl'["client"] = ctl["client"]
    BY <1>4 DEF HandleFreeProxyConnReq, NextCtl, IInv, TypeOK, Side
  <2> QED BY <1>4, <2>1, Untouched DEF HandleFreeProxyConnReq, NextCtl, IInv
<1> QED BY <1>1, <1>2, <1>3, <1>4, SideType
    DEF MainLoop, HandleShutdownLocalConn, HandleShutdownPublicConn

LEMMA ThreadStepAccount ==
    ASSUME IInv, NEW s \in Side, NEW t \in Thread, ThreadStep(s, t)
    PROVE  MetaOnce' /\ Account'
<1>1. stream' = stream /\ life' = life /\ unhandled' = unhandled
  BY DEF ThreadStep, CompareCounts, ShutdownFromRemote, FreeProxyConn,
         RecycleProxyConn, SendFreeConnReq, StartLocalConn
<1>2. ctl'["client"] = ctl["client"]
  BY DEF ThreadStep, CompareCounts, ShutdownFromRemote, FreeProxyConn,
         RecycleProxyConn, SendFreeConnReq, StartLocalConn, SendCtl, IInv,
         TypeOK, Side
<1> QED BY <1>1, <1>2, Untouched DEF IInv

LEMMA ReadMsgAccount ==
    ASSUME IInv, NEW c \in Proxy, ReadMsg(c) PROVE MetaOnce' /\ Account'
<1> DEFINE q == stream["server"][c]
<1>1. /\ q \in Seq(Elem) /\ MetaOK(q, life[c])
      /\ unhandled \in Seq(Public) /\ ctl["client"] \in Seq(CtlMsg)
      /\ life \in [Proxy -> {"absent", "backlog", "unclaimed", "claimed"}]
  BY SideType DEF IInv, TypeOK, MetaOnce
<1>2. CASE ClaimProxyConn(c)
  <2>1. /\ q # <<>> /\ Head(q).kind = "meta"
        /\ unhandled # <<>> /\ unhandled' = PopBack(unhandled)
        /\ life' = [life EXCEPT ![c] = "claimed"] /\ ctl' = ctl
    BY <1>2 DEF ClaimProxyConn, NextMsg, Readable
  <2>2. life[c] \in {"backlog", "unclaimed"} /\ MetaOK(Tail(q), "claimed")
    BY <1>1, <2>1, MetaClaimed
  <2>3. stream'["server"] = [stream["server"] EXCEPT ![c] = Tail(q)]
    BY <1>2, SideType DEF ClaimProxyConn, IInv, TypeOK
  <2>4. life'[c] = "claimed" /\ \A d \in Proxy \ {c} : life'[d] = life[d]
    BY <1>1, <2>1
  <2>5. MetaOnce'
    BY <2>2, <2>3, <2>4, OneStream DEF IInv
  <2>6. Unclaimed' = Unclaimed \ {c} /\ c \in Unclaimed
    BY <1>1, <2>1, <2>2 DEF Unclaimed
  <2>7. Cardinality(Unclaimed') = Cardinality(Unclaimed) - 1
    BY <2>6, UnclaimedFinite, FS_RemoveElement
  <2>8. Len(unhandled') = Len(unhandled) - 1
    BY <1>1, <2>1, DropLast
  <2>9. Account'
    BY <1>1, <2>1, <2>7, <2>8, NotifiesFinite, UnclaimedFinite DEF Account, IInv
  <2> QED BY <2>5, <2>9
<1>3. CASE HandleStartProxyConnRsp(c)
  <2>1. stream'["server"] = [stream["server"] EXCEPT ![c] = Tail(q)]
    BY <1>3, SideType DEF HandleStartProxyConnRsp, IInv, TypeOK
  <2>2. MetaOK(Tail(q), life[c])
    BY <1>1, <1>3, MetaTail DEF HandleStartProxyConnRsp, NextMsg, Readable
  <2> QED BY <1>3, <2>1, <2>2, StreamOnly DEF HandleStartProxyConnRsp
<1>4. CASE HandleProxyConnectReq(c)
  <2> DEFINE x == Head(stream["client"][c])
  <2>1. x.fd \in Public
    BY <1>4, ReadableType, SideType, ElemType DEF HandleProxyConnectReq, NextMsg, IInv
  <2>2. ConnectRsp(x.fd) \in Elem /\ ConnectRsp(x.fd).kind # "meta"
    BY <2>1, ElemType DEF ConnectRsp
  <2>3. MetaOK(Append(q, ConnectRsp(x.fd)), life[c])
    BY <1>1, <2>2, MetaAppend
  <2>4. stream'["server"] = [stream["server"] EXCEPT ![c] =
                               Append(q, ConnectRsp(x.fd))]
    BY <1>4, SideType DEF HandleProxyConnectReq, IInv, TypeOK
  <2> QED BY <1>4, <2>3, <2>4, StreamOnly DEF HandleProxyConnectReq
<1> QED BY <1>2, <1>3, <1>4 DEF ReadMsg

LEMMA ReadProxyAccount ==
    ASSUME IInv, NEW s \in Side, NEW c \in Proxy, ReadProxy(s, c)
    PROVE  MetaOnce' /\ Account'
<1> DEFINE q == stream[s][c]
<1>1. q \in Seq(Elem) /\ q # <<>>
  <2>1. q # <<>>
    BY DEF ReadProxy, DropPayload, ReadnGoesOn, SplicePayload, NextMsg, Readable
  <2> QED BY <2>1 DEF IInv, TypeOK
<1>2. ctl' = ctl /\ life' = life /\ unhandled' = unhandled
  BY DEF ReadProxy, DropPayload, ReadnGoesOn, SplicePayload
<1>3. PICK r : stream' = [stream EXCEPT ![s][c] = r]
               /\ (MetaOK(q, life[c]) => MetaOK(r, life[c]))
  <2>1. CASE DropPayload(s, c) \/ ReadnGoesOn(s, c)
    BY <1>1, <2>1, MetaTail DEF DropPayload, ReadnGoesOn
  <2>2. CASE SplicePayload(s, c)
    BY <1>1, <2>2, MetaSuffix DEF SplicePayload, Unread
  <2> QED BY <2>1, <2>2 DEF ReadProxy
<1>4. CASE s = "server"
  <2>1. MetaOK(r, life[c])
    BY <1>3, <1>4 DEF IInv, MetaOnce
  <2>2. stream'["server"] = [stream["server"] EXCEPT ![c] = r]
    BY <1>3, <1>4, SideType DEF IInv, TypeOK
  <2> QED BY <1>2, <2>1, <2>2, StreamOnly
<1>5. CASE s = "client"
  <2>1. stream'["server"] = stream["server"]
    BY <1>3, <1>5 DEF IInv, TypeOK, Side
  <2> QED BY <1>2, <2>1, Untouched DEF IInv
<1> QED BY <1>4, <1>5 DEF Side

LEMMA SendShutdownAccount ==
    ASSUME IInv, NEW s \in Side, NEW c \in Proxy, SendShutdown(s, c)
    PROVE  MetaOnce' /\ Account'
<1> DEFINE e == job[s][c].end
           m == ShutdownPeerConn(c, relay[e].tran)
<1>1. stream' = stream /\ life' = life /\ unhandled' = unhandled
  BY DEF SendShutdown
<1>2. CASE s = "client"
  <2>1. ctl'["client"] = ctl["client"]
    BY <1>2 DEF SendShutdown, SendCtl, Other, IInv, TypeOK, Side
  <2> QED BY <1>1, <2>1, Untouched DEF IInv
<1>3. CASE s = "server"
  <2>1. e \in Endpoint
    BY JobType, EndpointType DEF SendShutdown, IInv, TypeOK
  <2>2. relay[e] \in Relay
    BY <2>1 DEF IInv, TypeOK
  <2>3. m \in CtlMsg /\ m.kind # "notify"
    BY <2>2, RelayType, CtlMsgType DEF ShutdownPeerConn
  <2>4. ctl["client"] \in Seq(CtlMsg)
    BY SideType DEF IInv, TypeOK
  <2>5. ctl'["client"] = Append(ctl["client"], m)
    BY <1>3, SideType DEF SendShutdown, SendCtl, Other, IInv, TypeOK
  <2>6. Cardinality(Notifies(ctl'["client"]))
          = Cardinality(Notifies(ctl["client"]))
    <3> HIDE DEF m
    <3> QED BY <2>3, <2>4, <2>5, NotifiesAppend, NotifiesFinite
  <2>7. MetaOnce'
    BY <1>1 DEF MetaOnce, IInv
  <2> QED BY <1>1, <2>6, <2>7 DEF Account, Unclaimed, IInv
<1> QED BY <1>2, <1>3 DEF Side

LEMMA RelayStepAccount ==
    ASSUME IInv, NEW e \in Endpoint, RelayPayload(e) \/ RelayEof(e)
    PROVE  MetaOnce' /\ Account'
<1> DEFINE s == SideOf(e)
           c == relay[e].conn
<1>1. relay[e] \in Relay /\ sock[e] \in Socket /\ s \in Side
  BY SideType DEF IInv, TypeOK
<1>2. c \in Proxy
  BY <1>1, RelayType DEF RelayPayload, RelayEof, RelayReadable
<1>3. CASE RelayEof(e)
  BY <1>3, Untouched DEF RelayEof, IInv
<1>4. CASE RelayPayload(e)
  <2> DEFINE q == stream[Other(s)][c]
             fed(k) == [i \in 1 .. k |-> Data(e, sock[e].read + i)]
  <2>1. PICK k \in 1 .. (sock[e].sent - sock[e].read) :
          stream' = [stream EXCEPT ![Other(s)][c] = @ \o fed(k)]
    BY <1>4 DEF RelayPayload
  <2>2. ctl' = ctl /\ life' = life /\ unhandled' = unhandled
    BY <1>4 DEF RelayPayload
  <2>3. CASE s = "server"
    <3>1. stream'["server"] = stream["server"]
      BY <2>1, <2>3 DEF Other, IInv, TypeOK, Side
    <3> QED BY <2>2, <3>1, Untouched DEF IInv
  <2>4. CASE s = "client"
    <3>1. Other(s) = "server"
      BY <2>4 DEF Other
    <3>2. q \in Seq(Elem) /\ MetaOK(q, life[c])
      BY <1>2, <3>1, SideType, SMTT(20) DEF IInv, TypeOK, MetaOnce
    <3>3. sock[e].sent \in 0 .. MaxUnits /\ sock[e].read \in 0 .. MaxUnits
      BY <1>1, SocketType
    <3>4. \A i \in 1 .. k : sock[e].read + i \in 1 .. MaxUnits
      BY <3>3, ConstantsAssumption
    <3>5. k \in Nat
      BY <3>3
    <3>6. fed(k) \in Seq(Elem) /\ \A i \in 1 .. Len(fed(k)) : fed(k)[i].kind # "meta"
      BY <3>4, <3>5, ElemType DEF Data
    <3>7. MetaOK(q \o fed(k), life[c])
      <4> HIDE DEF q, fed
      <4> QED BY <3>2, <3>6, MetaConcat
    <3>8. stream'["server"] = [stream["server"] EXCEPT ![c] = q \o fed(k)]
      <4> HIDE DEF fed
      <4> QED BY <1>2, <2>1, <3>1, SideType DEF IInv, TypeOK
    <3> HIDE DEF q, fed, c
    <3> QED BY <1>2, <2>2, <3>7, <3>8, StreamOnly
  <2> QED BY <1>1, <2>3, <2>4 DEF Side
<1> QED BY <1>3, <1>4

-----------------------------------------------------------------------------
(* The invariant *)

LEMMA InitAccount == Init => IInv
<1> SUFFICES ASSUME Init PROVE IInv
  OBVIOUS
<1>1. TypeOK
  BY InitType
<1>2. stream["server"] = [c \in Proxy |-> <<>>] /\ ctl["client"] = <<>>
  BY SideType DEF Init
<1>3. MetaOnce
  BY <1>2 DEF MetaOnce, MetaOK
<1>4. Notifies(ctl["client"]) = {} /\ Unclaimed = {}
  BY <1>2 DEF Notifies, Unclaimed, Init
<1>5. Account
  <2>1. Len(unhandled) = 0
    BY DEF Init
  <2>2. Cardinality(Notifies(ctl["client"])) = 0 /\ Cardinality(Unclaimed) = 0
    BY <1>4, FS_EmptySet
  <2> QED BY <2>1, <2>2 DEF Account
<1> QED BY <1>1, <1>3, <1>5 DEF IInv

LEMMA NextAccount == IInv /\ [Next]_vars => IInv'
<1> SUFFICES ASSUME IInv, [Next]_vars PROVE IInv'
  OBVIOUS
<1>1. TypeOK'
  BY NextType DEF IInv
<1>2. MetaOnce' /\ Account'
  <2>1. CASE Environment
    BY <2>1, Untouched DEF Environment, Send, Fin, IInv
  <2>2. CASE Listener
    BY <2>2, ListenerAccount
  <2>3. CASE MainLoop
    BY <2>3, MainLoopAccount
  <2>4. ASSUME NEW s \in Side, NEW t \in Thread, ThreadStep(s, t)
        PROVE  MetaOnce' /\ Account'
    BY <2>4, ThreadStepAccount
  <2>5. CASE Worker
    <3>1. ASSUME NEW c \in Proxy, ReadMsg(c) PROVE MetaOnce' /\ Account'
      BY <3>1, ReadMsgAccount
    <3>2. ASSUME NEW s \in Side, NEW c \in Proxy, ReadProxy(s, c)
          PROVE  MetaOnce' /\ Account'
      BY <3>2, ReadProxyAccount
    <3>3. ASSUME NEW s \in Side, NEW c \in Proxy, SendShutdown(s, c)
          PROVE  MetaOnce' /\ Account'
      BY <3>3, SendShutdownAccount
    <3>4. ASSUME NEW e \in Endpoint, RelayPayload(e) \/ RelayEof(e)
          PROVE  MetaOnce' /\ Account'
      BY <3>4, RelayStepAccount
    <3> QED BY <2>5, <3>1, <3>2, <3>3, <3>4
       DEF Worker, PublicConnectRead, ClientConnectRead, Endpoint
  <2>6. CASE UNCHANGED vars
    BY <2>6, Untouched DEF vars, IInv
  <2> QED BY <2>1, <2>2, <2>3, <2>4, <2>5, <2>6 DEF Next
<1> QED BY <1>1, <1>2 DEF IInv

LEMMA AccountPays == IInv => UndealtFdAvailable
<1> SUFFICES ASSUME IInv, NEW c \in Proxy, NextMsg("server", c, "meta"),
                    unhandled = <<>>
             PROVE  FALSE
  BY DEF UndealtFdAvailable
<1>1. stream["server"][c] \in Seq(Elem) /\ stream["server"][c] # <<>>
      /\ Head(stream["server"][c]).kind = "meta"
      /\ MetaOK(stream["server"][c], life[c])
  BY SideType DEF NextMsg, Readable, IInv, TypeOK, MetaOnce
<1>2. c \in Unclaimed
  BY <1>1, MetaClaimed DEF Unclaimed
<1>3. Cardinality(Unclaimed) # 0
  BY <1>2, UnclaimedFinite, FS_EmptySet
<1>4. ctl["client"] \in Seq(CtlMsg)
  BY SideType DEF IInv, TypeOK
<1> QED BY <1>3, <1>4, NotifiesFinite, UnclaimedFinite DEF Account, IInv

\* When the server handles a ProxyMetaSet, newPublicConnHandler has queued a
\* public fd that nobody has taken: back() and pop_back() in
\* getAndPopUndealPublicFd never meet an empty vector, for any number of
\* public clients, proxy connections and sessions.
THEOREM UndealtFdAlwaysAvailable == Spec => []UndealtFdAvailable
<1>1. Spec => []IInv
  BY InitAccount, NextAccount, PTL DEF Spec
<1> QED BY <1>1, AccountPays, PTL
-----------------------------------------------------------------------------
(* A public fd is in one place.  The places are unhandle_fds_, the streams,  *)
(* on which a request or its answer carries it, and the connections it was   *)
(* bound to; each is a sequence.                                             *)

Waiting == <<"waiting", "server", None>>
Asking(s, c) == <<"asking", s, c>>
BoundTo(c) == <<"bound", "server", c>>
Place ==
    {Waiting} \cup {Asking(s, c) : s \in Side, c \in Proxy}
              \cup {BoundTo(c) : c \in Proxy}

\* What is in place h, and what p looks like there.
Held(h) ==
    IF h[1] = "waiting" THEN unhandled
    ELSE IF h[1] = "asking" THEN stream[h[2]][h[3]]
    ELSE bound[h[3]]
Token(h, p) ==
    IF h[1] = "asking" THEN {ConnectReq(p), ConnectRsp(p)} ELSE {p}

Has(q, V) == \E i \in 1 .. Len(q) : q[i] \in V
Once(q, V) == \A i, j \in 1 .. Len(q) : q[i] \in V /\ q[j] \in V => i = j

\* q lost elements and gained none of V.
Shrinks(q, r, V) == (Once(q, V) => Once(r, V)) /\ (Has(r, V) => Has(q, V))

HasFd(h, p) == Has(Held(h), Token(h, p))
ShrinksAt(h, p) == Shrinks(Held(h), Held(h)', Token(h, p))

Nowhere(p) == \A h \in Place : ~HasFd(h, p)
OnePlace(p) ==
    /\ \A h \in Place : Once(Held(h), Token(h, p))
    /\ \A g, h \in Place : HasFd(g, p) /\ HasFd(h, p) => g = h

\* A public connection that has not been accepted is nowhere.
FdInv ==
    /\ TypeOK
    /\ \A p \in Public : OnePlace(p) /\ (~sock[p].open => Nowhere(p))

-----------------------------------------------------------------------------
(* Tokens in a sequence that grows and shrinks *)

LEMMA OnceAppend ==
    ASSUME NEW S, NEW q \in Seq(S), NEW x \in S, NEW V
    PROVE  /\ x \notin V => Shrinks(q, Append(q, x), V)
           /\ ~Has(q, V) => Once(Append(q, x), V)
<1>1. /\ Len(Append(q, x)) = Len(q) + 1 /\ Len(q) \in Nat
      /\ Append(q, x)[Len(q) + 1] = x
      /\ \A i \in 1 .. Len(q) : Append(q, x)[i] = q[i]
  OBVIOUS
<1> DEFINE r == Append(q, x)
<1> HIDE DEF r
<1>2. ASSUME x \notin V PROVE Shrinks(q, r, V)
  BY <1>1, <1>2 DEF Shrinks, Once, Has, r
<1>3. ASSUME ~Has(q, V) PROVE Once(r, V)
  <2>1. \A i \in 1 .. Len(r) : r[i] \in V => i = Len(q) + 1
    BY <1>1, <1>3 DEF Has, r
  <2> QED BY <2>1 DEF Once
<1> QED BY <1>2, <1>3 DEF r

LEMMA OnceTail ==
    ASSUME NEW S, NEW q \in Seq(S), q # <<>>, NEW V
    PROVE  /\ Shrinks(q, Tail(q), V)
           /\ Head(q) \in V /\ Once(q, V) => ~Has(Tail(q), V)
           /\ Head(q) \in V => Has(q, V)
<1>1. /\ Len(q) \in Nat /\ Len(q) >= 1 /\ Len(Tail(q)) = Len(q) - 1
      /\ \A i \in 1 .. Len(Tail(q)) : Tail(q)[i] = q[i + 1]
      /\ Head(q) = q[1]
  OBVIOUS
<1> DEFINE r == Tail(q)
<1>2. Shrinks(q, r, V)
  <2> HIDE DEF r
  <2> QED BY <1>1 DEF Shrinks, Once, Has, r
<1>3. Head(q) \in V => Has(q, V)
  BY <1>1 DEF Has
<1>4. ASSUME Head(q) \in V, Once(q, V), Has(r, V) PROVE FALSE
  <2>1. PICK i \in 1 .. Len(r) : r[i] \in V
    BY <1>4 DEF Has
  <2>2. q[i + 1] \in V /\ q[1] \in V /\ i + 1 \in 1 .. Len(q) /\ i + 1 # 1
    BY <1>1, <1>4, <2>1
  <2> HIDE DEF r
  <2> QED BY <1>1, <1>4, <2>2 DEF Once
<1> QED BY <1>2, <1>3, <1>4

LEMMA OnceSuffix ==
    ASSUME NEW S, NEW q \in Seq(S), NEW k \in 1 .. Len(q), NEW V
    PROVE  Shrinks(q, Unread(q, k), V)
<1> DEFINE r == SubSeq(q, k + 1, Len(q))
<1>1. /\ Len(q) \in Nat /\ Len(r) = Len(q) - k
      /\ \A i \in 1 .. Len(r) : r[i] = q[k + i] /\ k + i \in 1 .. Len(q)
  OBVIOUS
<1> HIDE DEF r
<1>2. ASSUME Once(q, V), NEW i \in 1 .. Len(r), NEW j \in 1 .. Len(r),
             r[i] \in V, r[j] \in V
      PROVE  i = j
  <2>1. /\ k + i \in 1 .. Len(q) /\ q[k + i] \in V
        /\ k + j \in 1 .. Len(q) /\ q[k + j] \in V
    BY <1>1, <1>2
  <2>2. k + i = k + j
    BY <1>2, <2>1 DEF Once
  <2>3. i \in Int /\ j \in Int /\ k \in Int
    BY <1>1
  <2> QED BY <2>2, <2>3
<1>3. ASSUME Has(r, V) PROVE Has(q, V)
  BY <1>1, <1>3 DEF Has
<1>4. Shrinks(q, r, V)
  BY <1>2, <1>3 DEF Shrinks, Once
<1> QED BY <1>4 DEF Unread, r

LEMMA OncePopBack ==
    ASSUME NEW S, NEW q \in Seq(S), q # <<>>, NEW V
    PROVE  /\ Shrinks(q, PopBack(q), V)
           /\ q[Len(q)] \in V /\ Once(q, V) => ~Has(PopBack(q), V)
           /\ q[Len(q)] \in V => Has(q, V)
<1> DEFINE n == Len(q) - 1
           r == SubSeq(q, 1, n)
<1>1. n \in Nat /\ n + 1 = Len(q)
  OBVIOUS
<1>2. Len(r) = n
  BY DropLast DEF PopBack
<1>3. \A i \in 1 .. n : r[i] = q[i]
  OBVIOUS
<1> HIDE DEF r, n
<1>4. Shrinks(q, r, V)
  BY <1>1, <1>2, <1>3 DEF Shrinks, Once, Has
<1>5. q[Len(q)] \in V /\ Once(q, V) => ~Has(r, V)
  BY <1>1, <1>2, <1>3 DEF Once, Has
<1>6. q[Len(q)] \in V => Has(q, V)
  BY <1>1 DEF Has
<1> QED BY <1>4, <1>5, <1>6 DEF PopBack, r, n

LEMMA OnceConcat ==
    ASSUME NEW S, NEW q \in Seq(S), NEW r \in Seq(S), NEW V,
           \A i \in 1 .. Len(r) : r[i] \notin V
    PROVE  Shrinks(q, q \o r, V)
<1> DEFINE t == q \o r
<1>1. /\ Len(q) \in Nat /\ Len(r) \in Nat /\ Len(t) = Len(q) + Len(r)
      /\ \A i \in 1 .. Len(q) : t[i] = q[i]
      /\ \A i \in 1 .. Len(r) : t[Len(q) + i] = r[i]
  OBVIOUS
<1> HIDE DEF t
<1>2. \A i \in 1 .. Len(t) : t[i] \in V => i \in 1 .. Len(q) /\ q[i] \in V
  <2> SUFFICES ASSUME NEW i \in 1 .. Len(t), t[i] \in V
               PROVE  i \in 1 .. Len(q) /\ q[i] \in V
    OBVIOUS
  <2>1. CASE i \in 1 .. Len(q)
    BY <1>1, <2>1
  <2>2. CASE i \notin 1 .. Len(q)
    <3>1. i - Len(q) \in 1 .. Len(r) /\ Len(q) + (i - Len(q)) = i
      BY <1>1, <2>2
    <3> QED BY <1>1, <3>1
  <2> QED BY <2>1, <2>2
<1>3. Shrinks(q, t, V)
  BY <1>1, <1>2 DEF Shrinks, Once, Has
<1> QED BY <1>3 DEF t

-----------------------------------------------------------------------------
(* The places *)

LEMMA Places ==
    /\ Waiting \in Place
    /\ \A s \in Side, c \in Proxy : Asking(s, c) \in Place
    /\ \A c \in Proxy : BoundTo(c) \in Place
    /\ \A h \in Place : \/ h = Waiting
                        \/ \E s \in Side, c \in Proxy : h = Asking(s, c)
                        \/ \E c \in Proxy : h = BoundTo(c)
    /\ \A s, c : Asking(s, c) # Waiting /\ BoundTo(c) # Waiting
    /\ \A s, c, d : Asking(s, c) # BoundTo(d)
    /\ \A s, t, c, d : Asking(s, c) = Asking(t, d) => s = t /\ c = d
    /\ \A c, d : BoundTo(c) = BoundTo(d) => c = d
BY DEF Place, Waiting, Asking, BoundTo

LEMMA HeldAt ==
    /\ Held(Waiting) = unhandled /\ Held(Waiting)' = unhandled'
    /\ \A s, c : /\ Held(Asking(s, c)) = stream[s][c]
                 /\ Held(Asking(s, c))' = stream'[s][c]
    /\ \A c : Held(BoundTo(c)) = bound[c] /\ Held(BoundTo(c))' = bound'[c]
BY DEF Held, Waiting, Asking, BoundTo

LEMMA TokenAt ==
    \A p : /\ Token(Waiting, p) = {p}
           /\ \A s, c : Token(Asking(s, c), p) = {ConnectReq(p), ConnectRsp(p)}
           /\ \A c : Token(BoundTo(c), p) = {p}
BY DEF Token, Waiting, Asking, BoundTo

-----------------------------------------------------------------------------
(* What a step does to one fd, in terms of the places *)

LEMMA AllShrink ==
    ASSUME NEW p, OnePlace(p), \A h \in Place : ShrinksAt(h, p)
    PROVE  OnePlace(p)' /\ (Nowhere(p) => Nowhere(p)')
<1>1. \A h \in Place : HasFd(h, p)' => HasFd(h, p)
  BY DEF HasFd, ShrinksAt, Shrinks, Token
<1>2. \A h \in Place : Once(Held(h)', Token(h, p))
  BY DEF OnePlace, ShrinksAt, Shrinks
<1>3. OnePlace(p)'
  BY <1>1, <1>2 DEF OnePlace, Token, Place
<1>4. Nowhere(p) => Nowhere(p)'
  BY <1>1 DEF Nowhere, Place
<1> QED BY <1>3, <1>4

\* The fd leaves place g, and h is the only place it can have gone to.
LEMMA Moves ==
    ASSUME NEW p, OnePlace(p), NEW g \in Place, NEW h \in Place,
           HasFd(g, p), ~HasFd(g, p)',
           \A x \in Place \ {h} : ShrinksAt(x, p),
           Once(Held(h)', Token(h, p))
    PROVE  OnePlace(p)'
<1>1. \A x \in Place \ {h} : HasFd(x, p)' => HasFd(x, p)
  BY DEF HasFd, ShrinksAt, Shrinks, Token
<1>2. \A x \in Place \ {h} : ~HasFd(x, p)'
  BY <1>1 DEF OnePlace
<1>3. \A x \in Place : Once(Held(x)', Token(x, p))
  BY DEF OnePlace, ShrinksAt, Shrinks
<1> QED BY <1>2, <1>3 DEF OnePlace, Token, Place

\* The fd is new, and h is the only place that can have it.
LEMMA Appears ==
    ASSUME NEW p, OnePlace(p), Nowhere(p), NEW h \in Place,
           \A x \in Place \ {h} : ShrinksAt(x, p),
           Once(Held(h)', Token(h, p))
    PROVE  OnePlace(p)'
<1>1. \A x \in Place \ {h} : ~HasFd(x, p)' /\ Once(Held(x)', Token(x, p))
  BY DEF OnePlace, Nowhere, HasFd, ShrinksAt, Shrinks, Token
<1> QED BY <1>1 DEF OnePlace, HasFd, Token, Place

LEMMA Same ==
    ASSUME NEW p, NEW h, Held(h)' = Held(h)
    PROVE  ShrinksAt(h, p)
BY DEF ShrinksAt, Shrinks

LEMMA PlacesUnchanged ==
    ASSUME NEW p, OnePlace(p),
           unhandled' = unhandled, stream' = stream, bound' = bound
    PROVE  OnePlace(p)' /\ (Nowhere(p) => Nowhere(p)')
<1>1. \A h \in Place : Held(h)' = Held(h)
  BY DEF Held
<1> QED BY <1>1, Same, AllShrink

LEMMA Streams ==
    ASSUME TypeOK, NEW s \in Side, NEW c \in Proxy, NEW r,
           stream' = [stream EXCEPT ![s][c] = r]
    PROVE  /\ stream'[s][c] = r
           /\ \A t \in Side, d \in Proxy :
                t # s \/ d # c => stream'[t][d] = stream[t][d]
BY DEF TypeOK

\* Only one stream changes.
LEMMA OtherPlaces ==
    ASSUME TypeOK, NEW s \in Side, NEW c \in Proxy, NEW r,
           stream' = [stream EXCEPT ![s][c] = r],
           unhandled' = unhandled, bound' = bound, NEW p
    PROVE  \A x \in Place \ {Asking(s, c)} : ShrinksAt(x, p)
<1> SUFFICES ASSUME NEW x \in Place, x # Asking(s, c) PROVE Held(x)' = Held(x)
  BY Same
<1>1. CASE x = Waiting
  BY <1>1, HeldAt
<1>2. ASSUME NEW t \in Side, NEW d \in Proxy, x = Asking(t, d)
      PROVE  Held(x)' = Held(x)
  <2>1. t # s \/ d # c
    BY <1>2
  <2>2. stream'[t][d] = stream[t][d]
    BY <2>1, Streams
  <2> QED BY <1>2, <2>2, HeldAt
<1>3. ASSUME NEW d \in Proxy, x = BoundTo(d) PROVE Held(x)' = Held(x)
  BY <1>3, HeldAt
<1> QED BY <1>1, <1>2, <1>3, Places

LEMMA StreamShrinks ==
    ASSUME TypeOK, NEW s \in Side, NEW c \in Proxy, NEW r,
           stream' = [stream EXCEPT ![s][c] = r],
           unhandled' = unhandled, bound' = bound,
           NEW p, OnePlace(p),
           Shrinks(stream[s][c], r, {ConnectReq(p), ConnectRsp(p)})
    PROVE  OnePlace(p)' /\ (Nowhere(p) => Nowhere(p)')
<1>1. \A x \in Place \ {Asking(s, c)} : ShrinksAt(x, p)
  BY OtherPlaces
<1>2. ShrinksAt(Asking(s, c), p)
  <2>1. stream'[s][c] = r
    BY DEF TypeOK
  <2> QED BY <2>1, HeldAt, TokenAt, ZenonT(30) DEF ShrinksAt
<1>3. \A h \in Place : ShrinksAt(h, p)
  BY <1>1, <1>2
<1> QED BY <1>3, AllShrink

-----------------------------------------------------------------------------
(* A public connection stays accepted. *)

OpenStays == \A e \in Endpoint : sock[e].open => sock'[e].open

LEMMA OpenUpdate ==
    ASSUME NEW f \in [Endpoint -> Socket], NEW e \in Endpoint, NEW v,
           f[e].open => v.open
    PROVE  \A x \in Endpoint : f[x].open => [f EXCEPT ![e] = v][x].open
OBVIOUS

LEMMA OpenField ==
    ASSUME NEW k \in Socket, NEW v
    PROVE  /\ [k EXCEPT !.sent = v].open = k.open
           /\ [k EXCEPT !.read = v].open = k.open
           /\ [k EXCEPT !.fin = v].open = k.open
           /\ [k EXCEPT !.got = v].open = k.open
           /\ [k EXCEPT !.eof = v].open = k.open
           /\ [k EXCEPT !.open = v].open = v
BY DEF Socket

LEMMA OpenStaysNext == TypeOK /\ Next => OpenStays
<1> SUFFICES ASSUME TypeOK, Next PROVE OpenStays
  OBVIOUS
<1>0. sock \in [Endpoint -> Socket]
  BY DEF TypeOK
<1>1. CASE sock' = sock
  BY <1>1 DEF OpenStays
<1>2. ASSUME NEW e \in Endpoint, NEW v, sock' = [sock EXCEPT ![e] = v],
             sock[e].open => v.open
      PROVE  OpenStays
  BY <1>0, <1>2, OpenUpdate DEF OpenStays
<1>3. ASSUME NEW e \in Endpoint, Send(e) \/ Fin(e) PROVE OpenStays
  <2>1. \/ sock' = [sock EXCEPT ![e] = [sock[e] EXCEPT !.sent = sock[e].sent + 1]]
        \/ sock' = [sock EXCEPT ![e] = [sock[e] EXCEPT !.fin = TRUE]]
    BY <1>3 DEF Send, Fin
  <2>2. sock[e] \in Socket
    BY <1>0
  <2>3. /\ [sock[e] EXCEPT !.sent = sock[e].sent + 1].open = sock[e].open
        /\ [sock[e] EXCEPT !.fin = TRUE].open = sock[e].open
    BY <2>2, OpenField
  <2> QED BY <1>2, <2>1, <2>3
<1>4. ASSUME NEW e \in Endpoint, sock' = [sock EXCEPT ![e].open = TRUE]
      PROVE  OpenStays
  <2>1. sock' = [sock EXCEPT ![e] = [sock[e] EXCEPT !.open = TRUE]]
    BY <1>4
  <2>2. sock[e] \in Socket
    BY <1>0
  <2>3. [sock[e] EXCEPT !.open = TRUE].open
    BY <2>2 DEF Socket
  <2> QED BY <1>2, <2>1, <2>3
<1>5. CASE Listener
  BY <1>1, <1>4, <1>5, EndpointType
     DEF Listener, AddWaitProxyConn, ReuseProxyConn, NotifyClientNeedProxy
<1>6. ASSUME NEW c \in Proxy, CreateLocalConn(c) PROVE OpenStays
  <2>1. <<c, ran[c] + 1>> \in Endpoint
    BY <1>6, CreateLocalConnType
  <2> QED BY <1>4, <1>6, <2>1 DEF CreateLocalConn
<1>7. CASE MainLoop
  <2>1. ASSUME NEW c \in Proxy, HandleProxyNotify(c) PROVE CreateLocalConn(c)
    BY <2>1 DEF HandleProxyNotify
  <2>2. ASSUME NEW c \in Proxy, NewProxyConn(c) PROVE sock' = sock
    BY <2>2 DEF NewProxyConn
  <2>3. ASSUME NEW s \in Side, HandleShutdownPeerConn(s) PROVE sock' = sock
    BY <2>3 DEF HandleShutdownPeerConn
  <2>4. HandleFreeProxyConnReq => sock' = sock
    BY DEF HandleFreeProxyConnReq
  <2> QED BY <1>1, <1>6, <1>7, <2>1, <2>2, <2>3, <2>4, SideType
      DEF MainLoop, HandleShutdownLocalConn, HandleShutdownPublicConn
<1>8. ASSUME NEW s \in Side, NEW t \in Thread, ThreadStep(s, t) PROVE OpenStays
  <2>1. CASE ShutdownFromRemote(s, t)
    <3> DEFINE k == pconn[s][job[s][t].conn]
    <3>0. job[s][t] \in Job
      BY DEF TypeOK
    <3>1. k \in ProxyConnect
      <4>1. job[s][t].pc = "shut"
        BY <2>1 DEF ShutdownFromRemote
      <4>2. job[s][t].conn \in Proxy
        BY <3>0, <4>1, JobType
      <4> QED BY <4>2 DEF TypeOK
    <3>2. k.peer \in Endpoint \cup {None}
      BY <3>1, ProxyConnectType
    <3>3. \/ sock' = sock
          \/ k.peer \in Endpoint /\ sock' = [sock EXCEPT ![k.peer].eof = TRUE]
      BY <2>1, <3>2 DEF ShutdownFromRemote
    <3> HIDE DEF k
    <3>4. CASE k.peer \in Endpoint /\ sock' = [sock EXCEPT ![k.peer].eof = TRUE]
      <4>1. sock' = [sock EXCEPT ![k.peer] = [sock[k.peer] EXCEPT !.eof = TRUE]]
        BY <3>4
      <4>2. sock[k.peer] \in Socket
        BY <1>0, <3>4
      <4>3. [sock[k.peer] EXCEPT !.eof = TRUE].open = sock[k.peer].open
        BY <4>2, OpenField
      <4> QED BY <1>2, <3>4, <4>1, <4>3
    <3> QED BY <1>1, <3>3, <3>4
  <2>2. ShutdownFromRemote(s, t) \/ sock' = sock
    BY <1>8 DEF ThreadStep, CompareCounts, FreeProxyConn, RecycleProxyConn,
                SendFreeConnReq, StartLocalConn
  <2> QED BY <1>1, <2>1, <2>2
<1>9. ASSUME NEW c \in Proxy, ReadMsg(c) PROVE OpenStays
  <2>1. sock' = sock \/ CreateLocalConn(c)
    BY <1>9 DEF ReadMsg, ClaimProxyConn, HandleStartProxyConnRsp,
                HandleProxyConnectReq
  <2> QED BY <1>1, <1>6, <2>1
<1>10. ASSUME NEW s \in Side, NEW c \in Proxy, SplicePayload(s, c)
       PROVE  OpenStays
  <2> DEFINE e == pconn[s][c].peer
  <2>1. PICK g : sock' = [sock EXCEPT ![e].got = g]
    <3>1. PICK k \in 1 .. Len(stream[s][c]) :
            sock' = [sock EXCEPT ![e].got = @ \o SubSeq(stream[s][c], 1, k)]
      BY <1>10, Zenon DEF SplicePayload
    <3>2. sock' = [sock EXCEPT ![e].got =
                     sock[e].got \o SubSeq(stream[s][c], 1, k)]
      BY <3>1
    <3> QED BY <3>2
  <2>2. CASE e \in Endpoint
    <3>1. sock' = [sock EXCEPT ![e] = [sock[e] EXCEPT !.got = g]]
      BY <2>1
    <3>2. sock[e] \in Socket
      BY <1>0, <2>2
    <3>3. [sock[e] EXCEPT !.got = g].open = sock[e].open
      BY <3>2, OpenField
    <3> QED BY <1>2, <2>2, <3>1, <3>3
  <2>3. CASE e \notin Endpoint
    <3>1. sock' = sock
      BY <1>0, <2>1, <2>3
    <3> QED BY <1>1, <3>1
  <2> QED BY <2>2, <2>3
<1>11. ASSUME NEW e \in Endpoint, RelayPayload(e) PROVE OpenStays
  <2>1. PICK k \in 1 .. (sock[e].sent - sock[e].read) :
          sock' = [sock EXCEPT ![e].read = @ + k]
    BY <1>11 DEF RelayPayload
  <2>2. sock' = [sock EXCEPT ![e] = [sock[e] EXCEPT !.read = sock[e].read + k]]
    BY <2>1
  <2>3. sock[e] \in Socket
    BY <1>0
  <2>4. [sock[e] EXCEPT !.read = sock[e].read + k].open = sock[e].open
    BY <2>3, OpenField
  <2> QED BY <1>2, <2>2, <2>4
<1>12. CASE Worker
  <2>1. ASSUME NEW s \in Side, NEW c \in Proxy,
               DropPayload(s, c) \/ ReadnGoesOn(s, c) \/ SendShutdown(s, c)
        PROVE  sock' = sock
    BY <2>1 DEF DropPayload, ReadnGoesOn, SendShutdown
  <2>2. ASSUME NEW e \in Endpoint, RelayEof(e) PROVE sock' = sock
    BY <2>2 DEF RelayEof
  <2> QED BY <1>1, <1>9, <1>10, <1>11, <1>12, <2>1, <2>2
      DEF Worker, ReadProxy, PublicConnectRead, ClientConnectRead, Endpoint
<1> QED BY <1>3, <1>5, <1>7, <1>8, <1>12 DEF Next, Environment

-----------------------------------------------------------------------------
(* The handlers move fds from place to place. *)

FdKept(p) == OnePlace(p)' /\ (Nowhere(p) => Nowhere(p)' \/ sock'[p].open)

LEMMA QuietKeeps ==
    ASSUME FdInv, unhandled' = unhandled, stream' = stream, bound' = bound
    PROVE  \A p \in Public : FdKept(p)
<1> SUFFICES ASSUME NEW p \in Public PROVE FdKept(p)
  OBVIOUS
<1>1. OnePlace(p)
  BY DEF FdInv
<1> QED BY <1>1, PlacesUnchanged DEF FdKept

\* What travels on a connection shrinks, or payload is added to it.
LEMMA StreamKeeps ==
    ASSUME FdInv, NEW s \in Side, NEW c \in Proxy, NEW r,
           stream' = [stream EXCEPT ![s][c] = r],
           unhandled' = unhandled, bound' = bound,
           \A p \in Public :
             Shrinks(stream[s][c], r, {ConnectReq(p), ConnectRsp(p)})
    PROVE  \A p \in Public : FdKept(p)
<1> SUFFICES ASSUME NEW p \in Public PROVE FdKept(p)
  OBVIOUS
<1>1. TypeOK /\ OnePlace(p)
  BY DEF FdInv
<1>2. Shrinks(stream[s][c], r, {ConnectReq(p), ConnectRsp(p)})
  OBVIOUS
<1>3. OnePlace(p)' /\ (Nowhere(p) => Nowhere(p)')
  BY <1>1, <1>2, StreamShrinks
<1> QED BY <1>3 DEF FdKept

LEMMA ReuseKeeps ==
    ASSUME FdInv, NEW p0 \in Public, ReuseProxyConn(p0)
    PROVE  \A p \in Public : FdKept(p)
<1> SUFFICES ASSUME NEW p \in Public PROVE FdKept(p)
  OBVIOUS
<1>1. TypeOK /\ OnePlace(p) /\ (~sock[p].open => Nowhere(p))
  BY DEF FdInv
<1>2. PICK c \in Proxy :
        stream' = [stream EXCEPT !["client"][c] = Append(@, ConnectReq(p0))]
  <2> DEFINE c == freeList[Len(freeList)]
  <2>1. c \in Proxy
    BY <1>1, SeqType DEF ReuseProxyConn, TypeOK
  <2>2. stream' = [stream EXCEPT !["client"][c] = Append(@, ConnectReq(p0))]
    BY DEF ReuseProxyConn, SendStream
  <2> QED BY <2>1, <2>2
<1> DEFINE q == stream["client"][c]
           r == Append(q, ConnectReq(p0))
<1>3. q \in Seq(Elem) /\ ConnectReq(p0) \in Elem /\ "client" \in Side
  BY <1>1, SideType, ElemType DEF TypeOK
<1>4. stream' = [stream EXCEPT !["client"][c] = r]
  BY <1>1, <1>2, SideType DEF TypeOK
<1>5. unhandled' = unhandled /\ bound' = bound
  BY DEF ReuseProxyConn
<1> HIDE DEF r
<1>6. CASE p # p0
  <2>1. ConnectReq(p0) \notin {ConnectReq(p), ConnectRsp(p)}
    BY <1>6 DEF ConnectReq, ConnectRsp
  <2>2. Shrinks(q, r, {ConnectReq(p), ConnectRsp(p)})
    BY <1>3, <2>1, OnceAppend DEF r
  <2>3. OnePlace(p)' /\ (Nowhere(p) => Nowhere(p)')
    BY <1>1, <1>3, <1>4, <1>5, <2>2, StreamShrinks
  <2> QED BY <2>3 DEF FdKept
<1>7. CASE p = p0
  <2> DEFINE h == Asking("client", c)
  <2>1. sock'[p].open /\ ~sock[p].open
    BY <1>1, <1>7, EndpointType DEF ReuseProxyConn, TypeOK, Socket
  <2>2. Nowhere(p)
    BY <1>1, <2>1
  <2>3. h \in Place
    BY <1>3, Places
  <2>4. ~Has(q, {ConnectReq(p), ConnectRsp(p)})
    <3>1. ~Has(Held(h), Token(h, p))
      BY <2>2, <2>3 DEF Nowhere, HasFd
    <3>2. Held(h) = q /\ Token(h, p) = {ConnectReq(p), ConnectRsp(p)}
      BY HeldAt, TokenAt
    <3> QED BY <3>1, <3>2
  <2>5. Once(r, {ConnectReq(p), ConnectRsp(p)})
    BY <1>3, <2>4, OnceAppend DEF r
  <2>6. stream'["client"][c] = r
    BY <1>1, <1>3, <1>4 DEF TypeOK
  <2>7. Once(Held(h)', Token(h, p))
    BY <2>5, <2>6, HeldAt, TokenAt
  <2>8. \A x \in Place \ {h} : ShrinksAt(x, p)
    BY <1>1, <1>3, <1>4, <1>5, OtherPlaces
  <2>9. OnePlace(p)'
    BY <1>1, <2>2, <2>3, <2>7, <2>8, Appears
  <2> QED BY <2>1, <2>9 DEF FdKept
<1> QED BY <1>6, <1>7

\* Only unhandle_fds_ changes.
LEMMA BesidesWaiting ==
    ASSUME stream' = stream, bound' = bound, NEW p
    PROVE  \A x \in Place \ {Waiting} : ShrinksAt(x, p)
<1> SUFFICES ASSUME NEW x \in Place, x # Waiting PROVE Held(x)' = Held(x)
  BY Same
<1> QED BY HeldAt, Places

LEMMA NotifyKeeps ==
    ASSUME FdInv, NEW p0 \in Public, NotifyClientNeedProxy(p0)
    PROVE  \A p \in Public : FdKept(p)
<1> SUFFICES ASSUME NEW p \in Public PROVE FdKept(p)
  OBVIOUS
<1>1. TypeOK /\ OnePlace(p) /\ (~sock[p].open => Nowhere(p))
  BY DEF FdInv
<1>2. /\ stream' = stream /\ bound' = bound /\ unhandled \in Seq(Public)
      /\ unhandled' = Append(unhandled, p0)
  BY <1>1 DEF NotifyClientNeedProxy, TypeOK
<1>3. \A x \in Place \ {Waiting} : ShrinksAt(x, p)
  BY <1>2, BesidesWaiting
<1>4. CASE p # p0
  <2>1. Shrinks(unhandled, unhandled', {p})
    BY <1>2, <1>4, OnceAppend
  <2>2. ShrinksAt(Waiting, p)
    BY <2>1, HeldAt, TokenAt DEF ShrinksAt
  <2>3. \A h \in Place : ShrinksAt(h, p)
    BY <1>3, <2>2
  <2> QED BY <1>1, <2>3, AllShrink DEF FdKept
<1>5. CASE p = p0
  <2>1. sock'[p].open /\ ~sock[p].open
    BY <1>1, <1>5, EndpointType DEF NotifyClientNeedProxy, TypeOK, Socket
  <2>2. Nowhere(p)
    BY <1>1, <2>1
  <2>3. ~Has(unhandled, {p})
    BY <2>2, Places, HeldAt, TokenAt DEF Nowhere, HasFd
  <2>4. Once(Held(Waiting)', Token(Waiting, p))
    BY <1>2, <2>3, OnceAppend, HeldAt, TokenAt, SMTT(20)
  <2>5. OnePlace(p)'
    BY <1>1, <1>3, <2>2, <2>4, Places, Appears
  <2> QED BY <2>1, <2>5 DEF FdKept
<1> QED BY <1>4, <1>5

\* bindPublicFdToProxyConn: p0 goes from g to the connections it was bound to.
LEMMA BindKeeps ==
    ASSUME FdInv, NEW c \in Proxy, NEW p0 \in Public,
           bound' = [bound EXCEPT ![c] = Append(@, p0)],
           \A p \in Public : \A x \in Place \ {BoundTo(c)} : ShrinksAt(x, p),
           NEW g \in Place, g # BoundTo(c), HasFd(g, p0), ~HasFd(g, p0)'
    PROVE  \A p \in Public : FdKept(p)
<1> SUFFICES ASSUME NEW p \in Public PROVE FdKept(p)
  OBVIOUS
<1> DEFINE h == BoundTo(c)
<1>1. TypeOK /\ OnePlace(p) /\ h \in Place
  BY Places DEF FdInv
<1>2. bound[c] \in Seq(Public) /\ bound'[c] = Append(bound[c], p0)
  BY <1>1 DEF TypeOK
<1>3. CASE p # p0
  <2>1. Shrinks(bound[c], bound'[c], {p})
    BY <1>2, <1>3, OnceAppend
  <2>2. ShrinksAt(h, p)
    BY <2>1, HeldAt, TokenAt DEF ShrinksAt
  <2>3. \A x \in Place : ShrinksAt(x, p)
    BY <2>2
  <2> QED BY <1>1, <2>3, AllShrink DEF FdKept
<1>4. CASE p = p0
  <2>1. ~HasFd(h, p)
    BY <1>1, <1>4 DEF OnePlace
  <2>2. ~Has(bound[c], {p})
    BY <2>1, HeldAt, TokenAt DEF HasFd
  <2>3. Once(Held(h)', Token(h, p))
    <3>1. Once(bound'[c], {p})
      BY <1>2, <1>4, <2>2, OnceAppend
    <3> QED BY <3>1, HeldAt, TokenAt
  <2>4. HasFd(g, p) /\ ~HasFd(g, p)'
    BY <1>4 DEF HasFd, Token
  <2>5. OnePlace(p)'
    BY <1>1, <2>3, <2>4, Moves
  <2>6. ~Nowhere(p)
    BY <2>4 DEF Nowhere
  <2> QED BY <2>5, <2>6 DEF FdKept
<1> QED BY <1>3, <1>4

LEMMA ClaimKeeps ==
    ASSUME FdInv, NEW c \in Proxy, ClaimProxyConn(c)
    PROVE  \A p \in Public : FdKept(p)
<1> DEFINE q == stream["server"][c]
<1>1. /\ TypeOK /\ unhandled \in Seq(Public) /\ unhandled # <<>>
      /\ "server" \in Side /\ q \in Seq(Elem) /\ q # <<>>
  <2>1. TypeOK /\ "server" \in Side
    BY SideType DEF FdInv
  <2>2. unhandled \in Seq(Public) /\ q \in Seq(Elem)
    BY <2>1 DEF TypeOK
  <2>3. unhandled # <<>> /\ q # <<>>
    BY DEF ClaimProxyConn, NextMsg, Readable
  <2> QED BY <2>1, <2>2, <2>3
<1>2. PICK p0 \in Public : p0 = unhandled[Len(unhandled)]
  BY <1>1, SeqType
<1>3. /\ unhandled' = PopBack(unhandled)
      /\ stream' = [stream EXCEPT !["server"][c] = Tail(q)]
      /\ bound' = [bound EXCEPT ![c] = Append(@, p0)]
  BY <1>1, <1>2 DEF ClaimProxyConn, BindPublicFd, TypeOK
<1>4. \A t \in Side, d \in Proxy :
        stream'[t][d] = IF t = "server" /\ d = c THEN Tail(q) ELSE stream[t][d]
  BY <1>1, <1>3 DEF TypeOK
<1>5. ASSUME NEW p \in Public, NEW x \in Place, x # BoundTo(c)
      PROVE  ShrinksAt(x, p)
  <2>1. CASE x = Waiting
    <3>1. Shrinks(unhandled, unhandled', {p})
      BY <1>1, <1>3, OncePopBack
    <3> QED BY <2>1, <3>1, HeldAt, TokenAt DEF ShrinksAt
  <2>2. ASSUME NEW t \in Side, NEW d \in Proxy, x = Asking(t, d)
        PROVE  ShrinksAt(x, p)
    <3>1. CASE t = "server" /\ d = c
      <4>1. Shrinks(q, Tail(q), {ConnectReq(p), ConnectRsp(p)})
        BY <1>1, OnceTail
      <4>2. stream'[t][d] = Tail(q)
        BY <1>4, <3>1
      <4> QED BY <2>2, <3>1, <4>1, <4>2, HeldAt, TokenAt DEF ShrinksAt
    <3>2. CASE ~(t = "server" /\ d = c)
      <4>1. stream'[t][d] = stream[t][d]
        BY <1>4, <3>2
      <4> QED BY <2>2, <4>1, HeldAt, Same
    <3> QED BY <3>1, <3>2
  <2>3. ASSUME NEW d \in Proxy, x = BoundTo(d) PROVE ShrinksAt(x, p)
    <3>1. bound'[d] = bound[d]
      BY <1>1, <1>3, <1>5, <2>3 DEF TypeOK
    <3> QED BY <2>3, <3>1, HeldAt, Same
  <2> QED BY <2>1, <2>2, <2>3, Places
<1>6. HasFd(Waiting, p0) /\ ~HasFd(Waiting, p0)'
  <2>0. Once(Held(Waiting), Token(Waiting, p0))
    BY <1>2, Places DEF FdInv, OnePlace
  <2>1. Once(unhandled, {p0})
    BY <2>0, HeldAt, TokenAt
  <2>2. Has(unhandled, {p0}) /\ ~Has(PopBack(unhandled), {p0})
    BY <1>1, <1>2, <2>1, OncePopBack
  <2>3. Held(Waiting) = unhandled /\ Held(Waiting)' = PopBack(unhandled)
    BY <1>3, HeldAt
  <2>4. Has(Held(Waiting), Token(Waiting, p0))
        /\ ~Has(Held(Waiting)', Token(Waiting, p0))
    BY <2>2, <2>3, TokenAt
  <2> QED BY <2>4 DEF HasFd, Token
<1>7. Waiting \in Place /\ Waiting # BoundTo(c)
  BY Places
<1> QED BY <1>2, <1>3, <1>5, <1>6, <1>7, BindKeeps

\* The answer or the request at the head of a stream.
LEMMA AskingElem ==
    \A x \in Elem : /\ x.kind = "req" => x.fd \in Public /\ x = ConnectReq(x.fd)
                    /\ x.kind = "rsp" => x.fd \in Public /\ x = ConnectRsp(x.fd)
BY DEF Elem, ConnectReq, ConnectRsp

LEMMA StartRspKeeps ==
    ASSUME FdInv, NEW c \in Proxy, HandleStartProxyConnRsp(c)
    PROVE  \A p \in Public : FdKept(p)
<1> DEFINE q == stream["server"][c]
           g == Asking("server", c)
<1>1. /\ TypeOK /\ "server" \in Side /\ q \in Seq(Elem) /\ q # <<>>
      /\ Head(q).kind = "rsp"
  <2>1. q # <<>> /\ Head(q).kind = "rsp"
    BY DEF HandleStartProxyConnRsp, NextMsg, Readable
  <2>2. TypeOK /\ "server" \in Side
    BY SideType DEF FdInv
  <2>3. q \in Seq(Elem)
    BY <2>2 DEF TypeOK
  <2> QED BY <2>1, <2>2, <2>3
<1>2. PICK p0 \in Public : p0 = Head(q).fd /\ Head(q) = ConnectRsp(p0)
  <2>1. Head(q) \in Elem
    BY <1>1, SeqType
  <2> QED BY <1>1, <2>1, AskingElem
<1>3. /\ unhandled' = unhandled
      /\ stream' = [stream EXCEPT !["server"][c] = Tail(q)]
  BY <1>1 DEF HandleStartProxyConnRsp, TypeOK
<1>4. \A p \in Public : Shrinks(q, Tail(q), {ConnectReq(p), ConnectRsp(p)})
  BY <1>1, OnceTail
<1>5. CASE c \notin waitMap
  <2>1. bound' = bound
    BY <1>5 DEF HandleStartProxyConnRsp
  <2> QED BY <1>1, <1>3, <1>4, <2>1, StreamKeeps
<1>6. CASE c \in waitMap
  <2>1. bound' = [bound EXCEPT ![c] = Append(@, p0)]
    BY <1>2, <1>6 DEF HandleStartProxyConnRsp, BindPublicFd
  <2>2. \A t \in Side, d \in Proxy :
          stream'[t][d] = IF t = "server" /\ d = c THEN Tail(q) ELSE stream[t][d]
    BY <1>1, <1>3 DEF TypeOK
  <2>3. ASSUME NEW p \in Public, NEW x \in Place, x # BoundTo(c)
        PROVE  ShrinksAt(x, p)
    <3>1. CASE x = Waiting
      BY <1>3, <3>1, HeldAt, Same
    <3>2. ASSUME NEW t \in Side, NEW d \in Proxy, x = Asking(t, d)
          PROVE  ShrinksAt(x, p)
      <4>1. CASE t = "server" /\ d = c
        <5>1. stream'[t][d] = Tail(q)
          BY <2>2, <4>1
        <5> QED BY <1>4, <3>2, <4>1, <5>1, HeldAt, TokenAt DEF ShrinksAt
      <4>2. CASE ~(t = "server" /\ d = c)
        <5>1. stream'[t][d] = stream[t][d]
          BY <2>2, <4>2
        <5> QED BY <3>2, <5>1, HeldAt, Same
      <4> QED BY <4>1, <4>2
    <3>3. ASSUME NEW d \in Proxy, x = BoundTo(d) PROVE ShrinksAt(x, p)
      <4>1. bound'[d] = bound[d]
        BY <1>1, <2>1, <2>3, <3>3 DEF TypeOK
      <4> QED BY <3>3, <4>1, HeldAt, Same
    <3> QED BY <3>1, <3>2, <3>3, Places
  <2>4. HasFd(g, p0) /\ ~HasFd(g, p0)'
    <3> DEFINE V == {ConnectReq(p0), ConnectRsp(p0)}
    <3>1. g \in Place /\ Held(g) = q /\ Held(g)' = Tail(q) /\ Token(g, p0) = V
      BY <1>1, <2>2, Places, HeldAt, TokenAt, ZenonT(40)
    <3>2. Once(q, V)
      BY <1>2, <3>1 DEF FdInv, OnePlace
    <3>3. Head(q) \in V
      BY <1>2
    <3>4. Has(q, V) /\ ~Has(Tail(q), V)
      <4> HIDE DEF V, q
      <4> QED BY <1>1, <3>2, <3>3, OnceTail
    <3>5. Has(Held(g), Token(g, p0)) /\ ~Has(Held(g)', Token(g, p0))
      BY <3>1, <3>4
    <3> QED BY <3>5 DEF HasFd, Token
  <2>5. g \in Place /\ g # BoundTo(c)
    BY <1>1, Places
  <2> HIDE DEF g
  <2> QED BY <1>2, <2>1, <2>3, <2>4, <2>5, BindKeeps
<1> QED BY <1>5, <1>6

LEMMA ConnectReqKeeps ==
    ASSUME FdInv, NEW c \in Proxy, HandleProxyConnectReq(c)
    PROVE  \A p \in Public : FdKept(p)
<1> SUFFICES ASSUME NEW p \in Public PROVE FdKept(p)
  OBVIOUS
<1> DEFINE q == stream["client"][c]
           w == stream["server"][c]
           V == {ConnectReq(p), ConnectRsp(p)}
           g == Asking("client", c)
           h == Asking("server", c)
<1>1. TypeOK /\ OnePlace(p) /\ "client" \in Side /\ "server" \in Side
  BY SideType DEF FdInv
<1>2. /\ q \in Seq(Elem) /\ q # <<>> /\ Head(q).kind = "req" /\ w \in Seq(Elem)
  BY <1>1 DEF HandleProxyConnectReq, NextMsg, Readable, TypeOK
<1>3. PICK p0 \in Public : p0 = Head(q).fd /\ Head(q) = ConnectReq(p0)
  <2>1. Head(q) \in Elem
    BY <1>2, SeqType
  <2> QED BY <1>2, <2>1, AskingElem
<1>4. ConnectRsp(p0) \in Elem
  BY ElemType
<1> DEFINE r == Append(w, ConnectRsp(p0))
<1>5. /\ unhandled' = unhandled /\ bound' = bound
      /\ stream'["client"][c] = Tail(q)
      /\ stream'["server"][c] = r
      /\ \A t \in Side, d \in Proxy : d # c => stream'[t][d] = stream[t][d]
  BY <1>1, <1>3 DEF HandleProxyConnectReq, TypeOK
<1>6. ASSUME NEW x \in Place, x # h PROVE ShrinksAt(x, p)
  <2>1. CASE x = Waiting
    BY <1>5, <2>1, HeldAt, Same
  <2>2. ASSUME NEW t \in Side, NEW d \in Proxy, x = Asking(t, d), d # c
        PROVE  ShrinksAt(x, p)
    <3>1. stream'[t][d] = stream[t][d]
      BY <1>5, <2>2
    <3> QED BY <2>2, <3>1, HeldAt, Same
  <2>3. CASE x = g
    <3>1. Shrinks(q, Tail(q), V)
      <4> HIDE DEF q, V
      <4> QED BY <1>2, OnceTail
    <3>2. Held(x) = q /\ Held(x)' = Tail(q) /\ Token(x, p) = V
      BY <1>5, <2>3, HeldAt, TokenAt
    <3> QED BY <3>1, <3>2 DEF ShrinksAt
  <2>4. ASSUME NEW d \in Proxy, x = BoundTo(d) PROVE ShrinksAt(x, p)
    BY <1>5, <2>4, HeldAt, Same
  <2>5. \A t \in Side : t = "client" \/ t = "server"
    BY DEF Side
  <2> QED BY <1>6, <2>1, <2>2, <2>3, <2>4, <2>5, Places
<1>7. /\ g \in Place /\ h \in Place /\ g # h
      /\ Held(g) = q /\ Held(g)' = Tail(q) /\ Held(h) = w /\ Held(h)' = r
      /\ Token(g, p) = V /\ Token(h, p) = V
  <2>1. g \in Place /\ h \in Place
    BY <1>1, Places
  <2>2. g # h
    BY DEF Asking
  <2>3. Held(g) = q /\ Held(g)' = Tail(q) /\ Held(h) = w /\ Held(h)' = r
    BY <1>5, HeldAt
  <2>4. Token(g, p) = V /\ Token(h, p) = V
    BY TokenAt
  <2> QED BY <2>1, <2>2, <2>3, <2>4
<1>8. CASE p # p0
  <2>1. ConnectRsp(p0) \notin V
    BY <1>8 DEF ConnectReq, ConnectRsp
  <2>2. Shrinks(w, r, V)
    <3> HIDE DEF w, V
    <3> QED BY <1>2, <1>4, <2>1, OnceAppend
  <2>3. ShrinksAt(h, p)
    <3> HIDE DEF r, w, V, h
    <3> QED BY <1>7, <2>2 DEF ShrinksAt
  <2>4. \A x \in Place : ShrinksAt(x, p)
    BY <1>6, <2>3
  <2> QED BY <1>1, <2>4, AllShrink DEF FdKept
<1>9. CASE p = p0
  <2>1. Head(q) \in V
    BY <1>3, <1>9
  <2> HIDE DEF q, w, V, g, h, r
  <2>2. Once(q, V)
    BY <1>1, <1>7 DEF OnePlace
  <2>3. Has(q, V) /\ ~Has(Tail(q), V)
    BY <1>2, <2>1, <2>2, OnceTail
  <2>4. Has(Held(g), Token(g, p)) /\ ~Has(Held(g)', Token(g, p))
    BY <1>7, <2>3
  <2>5. HasFd(g, p) /\ ~HasFd(g, p)'
    BY <2>4 DEF HasFd, Token, g
  <2>6. ~HasFd(h, p)
    BY <1>1, <1>7, <2>5 DEF OnePlace
  <2>7. ~Has(w, V)
    BY <1>7, <2>6 DEF HasFd
  <2>8. Once(r, V)
    BY <1>2, <1>4, <2>7, OnceAppend DEF r
  <2>9. Once(Held(h)', Token(h, p))
    BY <1>7, <2>8
  <2>10. OnePlace(p)'
    BY <1>1, <1>6, <1>7, <2>5, <2>9, Moves
  <2>11. ~Nowhere(p)
    BY <1>7, <2>5 DEF Nowhere
  <2> QED BY <2>10, <2>11 DEF FdKept
<1> QED BY <1>8, <1>9

LEMMA ReadProxyKeeps ==
    ASSUME FdInv, NEW s \in Side, NEW c \in Proxy, ReadProxy(s, c)
    PROVE  \A p \in Public : FdKept(p)
<1> DEFINE q == stream[s][c]
<1>1. TypeOK /\ q \in Seq(Elem) /\ q # <<>>
  <2>1. q # <<>>
    BY DEF ReadProxy, DropPayload, ReadnGoesOn, SplicePayload, NextMsg, Readable
  <2>2. TypeOK
    BY DEF FdInv
  <2>3. q \in Seq(Elem)
    BY <2>2 DEF TypeOK
  <2> QED BY <2>1, <2>2, <2>3
<1>2. unhandled' = unhandled /\ bound' = bound
  BY DEF ReadProxy, DropPayload, ReadnGoesOn, SplicePayload
<1>3. PICK r : stream' = [stream EXCEPT ![s][c] = r]
               /\ \A V : Shrinks(q, r, V)
  <2>1. CASE DropPayload(s, c) \/ ReadnGoesOn(s, c)
    <3>1. stream' = [stream EXCEPT ![s][c] = Tail(q)]
      BY <2>1 DEF DropPayload, ReadnGoesOn
    <3>2. \A V : Shrinks(q, Tail(q), V)
      <4> HIDE DEF q
      <4> QED BY <1>1, OnceTail
    <3> QED BY <3>1, <3>2
  <2>2. CASE SplicePayload(s, c)
    <3>1. PICK k \in 1 .. Len(q) :
            stream' = [stream EXCEPT ![s][c] = Unread(@, k)]
      BY <2>2, Zenon DEF SplicePayload
    <3>2. stream' = [stream EXCEPT ![s][c] = Unread(q, k)]
      BY <1>1, <3>1 DEF TypeOK
    <3>3. \A V : Shrinks(q, Unread(q, k), V)
      <4> HIDE DEF q
      <4> QED BY <1>1, OnceSuffix
    <3> QED BY <3>2, <3>3
  <2> QED BY <2>1, <2>2 DEF ReadProxy
<1> QED BY <1>2, <1>3, StreamKeeps

LEMMA RelayPayloadKeeps ==
    ASSUME FdInv, NEW e \in Endpoint, RelayPayload(e)
    PROVE  \A p \in Public : FdKept(p)
<1> DEFINE s == Other(SideOf(e))
           c == relay[e].conn
           q == stream[s][c]
           fed(k) == [i \in 1 .. k |-> Data(e, sock[e].read + i)]
<1>1. /\ TypeOK /\ relay[e] \in Relay /\ sock[e] \in Socket /\ s \in Side
  BY SideType DEF FdInv, TypeOK
<1>2. c \in Proxy
  BY <1>1, RelayType DEF RelayPayload, RelayReadable
<1>3. PICK k \in 1 .. (sock[e].sent - sock[e].read) :
        stream' = [stream EXCEPT ![s][c] = @ \o fed(k)]
  BY DEF RelayPayload
<1>4. q \in Seq(Elem)
  BY <1>1, <1>2 DEF TypeOK
<1>5. sock[e].sent \in 0 .. MaxUnits /\ sock[e].read \in 0 .. MaxUnits
  BY <1>1, SocketType
<1>6. \A i \in 1 .. k : sock[e].read + i \in 1 .. MaxUnits
  BY <1>5, ConstantsAssumption
<1>7. k \in Nat
  BY <1>5
<1>8. fed(k) \in Seq(Elem)
      /\ \A i \in 1 .. Len(fed(k)) : fed(k)[i].kind = "data"
  BY <1>6, <1>7, ElemType DEF Data
<1>9. \A p : Shrinks(q, q \o fed(k), {ConnectReq(p), ConnectRsp(p)})
  <2> HIDE DEF q, fed
  <2> TAKE p
  <2>1. \A i \in 1 .. Len(fed(k)) : fed(k)[i] \notin {ConnectReq(p), ConnectRsp(p)}
    BY <1>8 DEF ConnectReq, ConnectRsp
  <2> QED BY <1>4, <1>8, <2>1, OnceConcat
<1>10. stream' = [stream EXCEPT ![s][c] = q \o fed(k)]
  <2> HIDE DEF fed
  <2> QED BY <1>1, <1>2, <1>3 DEF TypeOK
<1>11. unhandled' = unhandled /\ bound' = bound
  BY DEF RelayPayload
<1> HIDE DEF q, fed, c, s
<1> QED BY <1>1, <1>2, <1>9, <1>10, <1>11, StreamKeeps DEF q

LEMMA MainLoopKeeps ==
    ASSUME FdInv, MainLoop PROVE \A p \in Public : FdKept(p)
<1>1. ASSUME NEW c \in Proxy, HandleProxyNotify(c)
      PROVE  \A p \in Public : FdKept(p)
  <2> DEFINE q == stream["server"][c]
             r == Append(q, MetaSet)
  <2>1. q \in Seq(Elem) /\ MetaSet \in Elem /\ "server" \in Side
    BY SideType, ElemType DEF FdInv, TypeOK
  <2>2. /\ stream' = [stream EXCEPT !["server"][c] = r]
        /\ unhandled' = unhandled /\ bound' = bound
    BY <1>1, <2>1 DEF HandleProxyNotify, NextCtl, CreateProxyConn, SendStream, FdInv,
                      TypeOK
  <2>3. \A p : MetaSet \notin {ConnectReq(p), ConnectRsp(p)}
    BY DEF MetaSet, ConnectReq, ConnectRsp
  <2>4. \A p : Shrinks(q, r, {ConnectReq(p), ConnectRsp(p)})
    <3> HIDE DEF q
    <3> QED BY <2>1, <2>3, OnceAppend
  <2> HIDE DEF r
  <2> QED BY <2>1, <2>2, <2>4, StreamKeeps
<1> QED BY <1>1, QuietKeeps
    DEF MainLoop, NewProxyConn, HandleShutdownLocalConn, HandleShutdownPublicConn,
        HandleShutdownPeerConn, HandleFreeProxyConnReq, NextCtl

-----------------------------------------------------------------------------
(* The invariant *)

LEMMA InitFd == Init => FdInv
<1> SUFFICES ASSUME Init PROVE FdInv
  OBVIOUS
<1>1. TypeOK
  BY InitType
<1>2. ASSUME NEW h \in Place PROVE Held(h) = <<>>
  <2>1. CASE h = Waiting
    BY <2>1, HeldAt DEF Init
  <2>2. ASSUME NEW s \in Side, NEW c \in Proxy, h = Asking(s, c)
        PROVE  Held(h) = <<>>
    <3>1. stream[s][c] = <<>>
      BY DEF Init
    <3> QED BY <2>2, <3>1, HeldAt
  <2>3. ASSUME NEW c \in Proxy, h = BoundTo(c) PROVE Held(h) = <<>>
    <3>1. bound[c] = <<>>
      BY DEF Init
    <3> QED BY <2>3, <3>1, HeldAt
  <2> QED BY <2>1, <2>2, <2>3, Places
<1>3. ASSUME NEW p \in Public PROVE Nowhere(p) /\ OnePlace(p)
  BY <1>2 DEF Nowhere, OnePlace, HasFd, Has, Once
<1> QED BY <1>1, <1>3 DEF FdInv

LEMMA NextFd == FdInv /\ [Next]_vars => FdInv'
<1> SUFFICES ASSUME FdInv, [Next]_vars PROVE FdInv'
  OBVIOUS
<1>1. TypeOK /\ TypeOK'
  BY NextType DEF FdInv
<1>2. OpenStays
  <2>1. CASE Next
    BY <1>1, <2>1, OpenStaysNext
  <2>2. CASE UNCHANGED vars
    BY <2>2 DEF vars, OpenStays
  <2> QED BY <2>1, <2>2
<1>3. \A p \in Public : FdKept(p)
  <2>1. CASE Environment
    BY <2>1, QuietKeeps DEF Environment, Send, Fin
  <2>2. CASE Listener
    <3>1. CASE AddWaitProxyConn
      BY <3>1, QuietKeeps DEF AddWaitProxyConn
    <3> QED BY <2>2, <3>1, ReuseKeeps, NotifyKeeps DEF Listener
  <2>3. CASE MainLoop
    BY <2>3, MainLoopKeeps
  <2>4. ASSUME NEW s \in Side, NEW t \in Thread, ThreadStep(s, t)
        PROVE  \A p \in Public : FdKept(p)
    BY <2>4, QuietKeeps
       DEF ThreadStep, CompareCounts, ShutdownFromRemote, FreeProxyConn,
           RecycleProxyConn, SendFreeConnReq, StartLocalConn
  <2>5. CASE Worker
    <3>1. ASSUME NEW c \in Proxy, ReadMsg(c) PROVE \A p \in Public : FdKept(p)
      BY <3>1, ClaimKeeps, StartRspKeeps, ConnectReqKeeps DEF ReadMsg
    <3>2. ASSUME NEW s \in Side, NEW c \in Proxy, ReadProxy(s, c)
          PROVE  \A p \in Public : FdKept(p)
      BY <3>2, ReadProxyKeeps
    <3>3. ASSUME NEW s \in Side, NEW c \in Proxy, SendShutdown(s, c)
          PROVE  \A p \in Public : FdKept(p)
      BY <3>3, QuietKeeps DEF SendShutdown
    <3>4. ASSUME NEW e \in Endpoint, RelayPayload(e) \/ RelayEof(e)
          PROVE  \A p \in Public : FdKept(p)
      <4>1. CASE RelayEof(e)
        BY <4>1, QuietKeeps DEF RelayEof
      <4> QED BY <3>4, <4>1, RelayPayloadKeeps
    <3> QED BY <2>5, <3>1, <3>2, <3>3, <3>4
       DEF Worker, PublicConnectRead, ClientConnectRead, Endpoint
  <2>6. CASE UNCHANGED vars
    BY <2>6, QuietKeeps DEF vars
  <2> QED BY <2>1, <2>2, <2>3, <2>4, <2>5, <2>6 DEF Next
<1>4. ASSUME NEW p \in Public
      PROVE  OnePlace(p)' /\ (~sock'[p].open => Nowhere(p)')
  <2>1. OnePlace(p)' /\ (Nowhere(p) => Nowhere(p)' \/ sock'[p].open)
    BY <1>3 DEF FdKept
  <2>2. ~sock'[p].open => ~sock[p].open
    BY <1>2, EndpointType DEF OpenStays
  <2>3. ~sock[p].open => Nowhere(p)
    BY DEF FdInv
  <2> QED BY <2>1, <2>2, <2>3
<1> QED BY <1>1, <1>4 DEF FdInv

LEMMA AtMostOne ==
    ASSUME NEW S, \A x, y \in S : x = y
    PROVE  Cardinality(S) \in 0 .. 1 /\ (S = {} => Cardinality(S) = 0)
<1>1. CASE S = {}
  BY <1>1, FS_EmptySet
<1>2. ASSUME NEW x \in S PROVE Cardinality(S) = 1 /\ S # {}
  <2>1. S = {x}
    BY <1>2
  <2> QED BY <2>1, FS_Singleton
<1> QED BY <1>1, <1>2

LEMMA OnePlaceOnce == FdInv => FdBoundOnce
<1> SUFFICES ASSUME FdInv, NEW p \in Public
             PROVE  Cardinality(WaitsAt(p)) + Cardinality(AsksAt(p))
                      + Cardinality(SessionsOf(p)) <= 1
  BY DEF FdBoundOnce
<1> DEFINE V == {ConnectReq(p), ConnectRsp(p)}
           waiting == WaitsAt(p)
           asking == AsksAt(p)
           owning == SessionsOf(p)
<1>1. TypeOK /\ OnePlace(p)
  BY DEF FdInv
<1>2. /\ Once(unhandled, {p})
      /\ \A s \in Side, c \in Proxy : Once(stream[s][c], V)
      /\ \A c \in Proxy : Once(bound[c], {p})
  <2>1. \A h \in Place : Once(Held(h), Token(h, p))
    BY <1>1 DEF OnePlace
  <2>2. Once(unhandled, {p})
    BY <2>1, Places, HeldAt, TokenAt, ZenonT(40)
  <2>3. ASSUME NEW s \in Side, NEW c \in Proxy PROVE Once(stream[s][c], V)
    <3>1. Once(Held(Asking(s, c)), Token(Asking(s, c), p))
      BY <2>1, Places
    <3> QED BY <3>1, HeldAt, TokenAt
  <2>4. ASSUME NEW c \in Proxy PROVE Once(bound[c], {p})
    <3>1. Once(Held(BoundTo(c)), Token(BoundTo(c), p))
      BY <2>1, Places
    <3> QED BY <3>1, HeldAt, TokenAt
  <2> QED BY <2>2, <2>3, <2>4
<1>3. /\ Has(unhandled, {p}) <=> HasFd(Waiting, p)
      /\ \A s \in Side, c \in Proxy : Has(stream[s][c], V) <=> HasFd(Asking(s, c), p)
      /\ \A c \in Proxy : Has(bound[c], {p}) <=> HasFd(BoundTo(c), p)
  BY HeldAt, TokenAt DEF HasFd
<1>4. waiting # {} => HasFd(Waiting, p)
  BY <1>3 DEF Has, WaitsAt
<1>5. \A x, y \in waiting : x = y
  BY <1>2 DEF Once, WaitsAt
<1>6. ASSUME NEW x \in asking
      PROVE  \E s \in Side, c \in Proxy : \E i \in 1 .. Len(stream[s][c]) :
               x = <<s, c, i>> /\ stream[s][c][i] \in V
  BY DEF Asks, AsksAt
<1>7. ASSUME NEW z \in owning
      PROVE  \E c \in Proxy : \E i \in 1 .. Len(bound[c]) :
               z = <<c, i>> /\ bound[c][i] \in {p}
  <2>1. /\ z \in Proxy \X (1 .. MaxSession) /\ z[2] <= Len(bound[z[1]])
        /\ bound[z[1]][z[2]] = p
    BY DEF SessionsOf, Session, Local, PublicEnd
  <2>2. PICK c \in Proxy, i \in 1 .. MaxSession : z = <<c, i>>
    BY <2>1
  <2>3. bound[c] \in Seq(Public)
    BY <1>1 DEF TypeOK
  <2>4. i \in 1 .. Len(bound[c])
    BY <2>1, <2>2, <2>3, ConstantsAssumption
  <2> QED BY <2>1, <2>2, <2>4
<1> HIDE DEF V, waiting, asking, owning
<1>8. ASSUME NEW x \in asking, NEW y \in asking PROVE x = y
  <2>1. PICK s \in Side, c \in Proxy :
          \E i \in 1 .. Len(stream[s][c]) :
            x = <<s, c, i>> /\ stream[s][c][i] \in V
    BY <1>6
  <2>2. PICK t \in Side, d \in Proxy :
          \E j \in 1 .. Len(stream[t][d]) :
            y = <<t, d, j>> /\ stream[t][d][j] \in V
    BY <1>6
  <2>3. HasFd(Asking(s, c), p) /\ HasFd(Asking(t, d), p)
    BY <1>3, <2>1, <2>2 DEF Has
  <2>4. s = t /\ c = d
    BY <1>1, <2>3, Places DEF OnePlace
  <2> QED BY <1>2, <2>1, <2>2, <2>4 DEF Once
<1>9. ASSUME NEW x \in owning, NEW y \in owning PROVE x = y
  <2>1. PICK c \in Proxy :
          \E i \in 1 .. Len(bound[c]) :
            x = <<c, i>> /\ bound[c][i] \in {p}
    BY <1>7
  <2>2. PICK d \in Proxy :
          \E j \in 1 .. Len(bound[d]) :
            y = <<d, j>> /\ bound[d][j] \in {p}
    BY <1>7
  <2>3. HasFd(BoundTo(c), p) /\ HasFd(BoundTo(d), p)
    BY <1>3, <2>1, <2>2 DEF Has
  <2>4. c = d
    BY <1>1, <2>3, Places DEF OnePlace
  <2> QED BY <1>2, <2>1, <2>2, <2>4 DEF Once
<1>10. asking # {} => \E s \in Side, c \in Proxy : HasFd(Asking(s, c), p)
  BY <1>3, <1>6 DEF Has
<1>11. owning # {} => \E c \in Proxy : HasFd(BoundTo(c), p)
  BY <1>3, <1>7 DEF Has
<1>12. /\ waiting = {} \/ asking = {}
       /\ waiting = {} \/ owning = {}
       /\ asking = {} \/ owning = {}
  BY <1>1, <1>4, <1>10, <1>11, Places DEF OnePlace
<1>13. /\ Cardinality(waiting) \in 0 .. 1
       /\ Cardinality(asking) \in 0 .. 1
       /\ Cardinality(owning) \in 0 .. 1
       /\ waiting = {} => Cardinality(waiting) = 0
       /\ asking = {} => Cardinality(asking) = 0
       /\ owning = {} => Cardinality(owning) = 0
  <2>1. Cardinality(waiting) \in 0 .. 1 /\ (waiting = {} => Cardinality(waiting) = 0)
    BY <1>5, AtMostOne
  <2>2. Cardinality(asking) \in 0 .. 1 /\ (asking = {} => Cardinality(asking) = 0)
    BY <1>8, AtMostOne
  <2>3. Cardinality(owning) \in 0 .. 1 /\ (owning = {} => Cardinality(owning) = 0)
    BY <1>9, AtMostOne
  <2> QED BY <2>1, <2>2, <2>3
<1>14. Cardinality(waiting) + Cardinality(asking) + Cardinality(owning) <= 1
  BY <1>12, <1>13
<1> QED BY <1>14 DEF waiting, asking, owning

\* A public fd waits in unhandle_fds_, or travels in one request or answer, or
\* is bound to one session of one proxy connection, and never two of these:
\* newPublicConnHandler, claimProxyConn, HandleProxyConnectReq and
\* handleStartProxyConnRsp hand it on without copying it, in whatever order
\* their threads meet.
THEOREM FdsBoundOnce == Spec => []FdBoundOnce
<1>1. Spec => []FdInv
  BY InitFd, NextFd, PTL DEF Spec
<1> QED BY <1>1, OnePlaceOnce, PTL

-----------------------------------------------------------------------------
(* What an update of one place leaves alone *)

LEMMA JobAt ==
    ASSUME TypeOK, NEW s \in Side, NEW t \in Thread, NEW j, SetJob(s, t, j)
    PROVE  /\ job'[s][t] = j
           /\ \A u \in Side, v \in Thread : u # s \/ v # t => job'[u][v] = job[u][v]
           /\ raced \subseteq raced'
           /\ \A c \in Proxy, v \in Thread :
                Completing(j, c) /\ v # t /\ Completing(job[s][v], c) => c \in raced'
BY DEF SetJob, TypeOK

LEMMA ConnAt ==
    ASSUME TypeOK, NEW s \in Side, NEW c \in Proxy, NEW k, SetConn(s, c, k)
    PROVE  /\ pconn'[s][c] = k
           /\ \A u \in Side, d \in Proxy : u # s \/ d # c => pconn'[u][d] = pconn[u][d]
BY DEF SetConn, TypeOK

LEMMA RunAt ==
    ASSUME TypeOK, NEW s \in Side, NEW c \in Proxy, NEW e \in Endpoint, Run(s, c, e)
    PROVE  /\ pconn'[s][c].start /\ pconn'[s][c].peer = e
           /\ \A u \in Side, d \in Proxy : u # s \/ d # c => pconn'[u][d] = pconn[u][d]
           /\ relay'[e].conn = c
           /\ \A x \in Endpoint \ {e} :
                relay'[x] = IF SideOf(x) = s /\ relay[x].conn = c THEN NoRelay
                            ELSE relay[x]
<1>1. pconn[s][c] \in ProxyConnect
  BY DEF TypeOK
<1>2. pconn'[s][c] = [pconn[s][c] EXCEPT !.start = TRUE, !.peer = e]
      /\ \A u \in Side, d \in Proxy : u # s \/ d # c => pconn'[u][d] = pconn[u][d]
  BY ConnAt DEF Run
<1>3. pconn'[s][c].start /\ pconn'[s][c].peer = e
  BY <1>1, <1>2 DEF ProxyConnect
<1>4. /\ relay'[e].conn = c
      /\ \A x \in Endpoint \ {e} :
           relay'[x] = IF SideOf(x) = s /\ relay[x].conn = c THEN NoRelay ELSE relay[x]
  BY DEF Run
<1> QED BY <1>2, <1>3, <1>4

LEMMA NextCtlAt ==
    ASSUME TypeOK, NEW s \in Side, NEW kind, NextCtl(s, kind)
    PROVE  /\ ctl[s] \in Seq(CtlMsg) /\ ctl[s] # <<>> /\ Head(ctl[s]) \in CtlMsg
           /\ ctl'[s] = Tail(ctl[s])
           /\ \A u \in Side : u # s => ctl'[u] = ctl[u]
<1>1. ctl[s] \in Seq(CtlMsg) /\ ctl[s] # <<>>
  BY DEF NextCtl, TypeOK
<1>2. Head(ctl[s]) \in CtlMsg
  BY <1>1, SeqType
<1> QED BY <1>1, <1>2 DEF NextCtl, TypeOK

LEMMA SendCtlAt ==
    ASSUME TypeOK, NEW s \in Side, NEW m, SendCtl(s, m)
    PROVE  /\ ctl'[s] = Append(ctl[s], m)
           /\ \A u \in Side : u # s => ctl'[u] = ctl[u]
BY DEF SendCtl, TypeOK

LEMMA Sides ==
    /\ "server" # "client"
    /\ \A s \in Side : s = "server" \/ s = "client"
    /\ \A p \in Public : p \in Endpoint /\ SideOf(p) = "server" /\ p \notin Local
    /\ \A z \in Local : z \in Endpoint /\ SideOf(z) = "client" /\ z \notin Public
    /\ \A e \in Endpoint : e \in Public \/ e \in Local
    /\ Other("server") = "client" /\ Other("client") = "server"
BY ConstantsAssumption DEF Side, SideOf, Endpoint, Other, Local

LEMMA Threads ==
    /\ Main \in Thread /\ Main \notin Proxy /\ None \notin Proxy
    /\ \A c \in Proxy : c \in Thread /\ c # Main
    /\ \A t \in Thread : t = Main \/ t \in Proxy
    /\ \A z \in Local : z[1] \in Proxy /\ z[2] \in 1 .. MaxSession /\ z = <<z[1], z[2]>>
    /\ \A c \in Proxy, i \in 1 .. MaxSession : <<c, i>> \in Local
BY ConstantsAssumption DEF Thread, Local

\* The actions, one by one.
LEMMA NextCases ==
    ASSUME Next
    PROVE  \/ \E e \in Endpoint : Send(e) \/ Fin(e) \/ RelayPayload(e) \/ RelayEof(e)
           \/ AddWaitProxyConn
           \/ \E p \in Public : ReuseProxyConn(p) \/ NotifyClientNeedProxy(p)
           \/ \E c \in Proxy : HandleProxyNotify(c) \/ NewProxyConn(c)
           \/ \E s \in Side : HandleShutdownPeerConn(s)
           \/ HandleFreeProxyConnReq
           \/ \E s \in Side, t \in Thread : CompareCounts(s, t) \/ ShutdownFromRemote(s, t)
           \/ \E t \in Thread : \/ FreeProxyConn(t) \/ RecycleProxyConn(t)
                                \/ SendFreeConnReq(t) \/ StartLocalConn(t)
           \/ \E c \in Proxy : \/ ClaimProxyConn(c) \/ HandleStartProxyConnRsp(c)
                               \/ HandleProxyConnectReq(c)
           \/ \E s \in Side, c \in Proxy : \/ DropPayload(s, c) \/ ReadnGoesOn(s, c)
                                           \/ SplicePayload(s, c)
                                           \/ SendShutdown(s, c)
BY Sides, SideType
   DEF Next, Environment, Listener, MainLoop, HandleShutdownLocalConn,
       HandleShutdownPublicConn, ThreadStep, Worker, ReadMsg, ReadProxy,
       PublicConnectRead, ClientConnectRead

-----------------------------------------------------------------------------
(* What a step can do to a job, to a ProxyConnect, to a relay, to a channel  *)

Runs(c, e) == [pc |-> "run", conn |-> c, end |-> e]
Fins(c, e) == [pc |-> "fin", conn |-> c, end |-> e]

\* The jobs thread t of side s can get.
JobStep(s, t, k) ==
    LET j == job[s][t] IN
    \/ k = j
    \/ k = Idle /\ j.pc # "run"
    \/ k = Idle /\ s = "client" /\ StartLocalConn(t)
    \/ /\ s = "client" /\ j = Idle
       /\ \E c \in Proxy :
            /\ \/ t = Main /\ life[c] = "absent"
               \/ t = c /\ NextMsg("client", c, "req")
            /\ k = Runs(c, <<c, ran[c] + 1>>)
            /\ ran' = [ran EXCEPT ![c] = @ + 1]
            /\ ran[c] < MaxSession
    \/ /\ t = Main /\ j = Idle /\ ctl[s] # <<>>
       /\ \/ k = Doing("compare", Head(ctl[s]).conn) /\ Head(ctl[s]).kind = "shutdown"
          \/ s = "server" /\ Head(ctl[s]).kind = "free" /\ k = Doing("free", Head(ctl[s]).conn)
    \/ j.pc = "compare" /\ k = Doing("shut", j.conn)
    \/ j.pc = "shut" /\ k = Doing("free", j.conn)
    \/ /\ s = "server" /\ j.pc = "free" /\ k = Doing("push", j.conn)
       /\ j.conn \in proxyMap /\ ~pconn["server"][j.conn].start
    \/ /\ t \in Proxy /\ j = Idle /\ k = Doing("compare", t)
       /\ Readable(s, t) /\ pconn[s][t].start
    \/ /\ t \in Proxy /\ j = Idle
       /\ \E e \in Endpoint :
            relay[e].conn = t /\ SideOf(e) = s /\ k = Fins(t, e)

LEMMA JobSteps ==
    ASSUME TypeOK, Next, NEW s \in Side, NEW t \in Thread
    PROVE  JobStep(s, t, job'[s][t])
<1> USE Sides, Threads
<1> DEFINE Goal == JobStep(s, t, job'[s][t])
<1>0. ASSUME NEW u \in Side, NEW v \in Thread, NEW k,
             SetJob(u, v, k), JobStep(u, v, k)
      PROVE  Goal
  <2>1. CASE u = s /\ v = t
    BY <1>0, <2>1, JobAt
  <2>2. CASE u # s \/ v # t
    BY <1>0, <2>2, JobAt DEF JobStep
  <2> QED BY <2>1, <2>2
<1>1. ASSUME job' = job PROVE Goal
  BY <1>1 DEF JobStep
<1>2. ASSUME NEW c \in Proxy, HandleProxyNotify(c) PROVE Goal
  <2> DEFINE k == Runs(c, <<c, ran[c] + 1>>)
  <2>1. SetJob("client", Main, k)
    BY <1>2 DEF HandleProxyNotify, Runs
  <2>2. job["client"][Main] = Idle /\ life[c] = "absent" /\ ran[c] < MaxSession
        /\ ran' = [ran EXCEPT ![c] = @ + 1]
    BY <1>2 DEF HandleProxyNotify, NextCtl, CreateProxyConn, CreateLocalConn
  <2>3. JobStep("client", Main, k)
    BY <2>2 DEF JobStep
  <2> QED BY <1>0, <2>1, <2>3, SideType
<1>3. ASSUME NEW u \in Side, HandleShutdownPeerConn(u) PROVE Goal
  <2> DEFINE k == Doing("compare", Head(ctl[u]).conn)
  <2>1. job' = job \/ SetJob(u, Main, k)
    BY <1>3 DEF HandleShutdownPeerConn
  <2>2. JobStep(u, Main, k)
    BY <1>3 DEF HandleShutdownPeerConn, NextCtl, JobStep
  <2> QED BY <1>0, <1>1, <2>1, <2>2
<1>4. ASSUME HandleFreeProxyConnReq PROVE Goal
  <2> DEFINE k == Doing("free", Head(ctl["server"]).conn)
  <2>1. SetJob("server", Main, k)
    BY <1>4 DEF HandleFreeProxyConnReq
  <2>2. job["server"][Main] = Idle /\ ctl["server"] # <<>>
        /\ Head(ctl["server"]).kind = "free"
    BY <1>4 DEF HandleFreeProxyConnReq, NextCtl
  <2>3. JobStep("server", Main, k)
    BY <2>2 DEF JobStep
  <2> QED BY <1>0, <2>1, <2>3, SideType
<1>5. ASSUME NEW u \in Side, NEW v \in Thread, ThreadStep(u, v) PROVE Goal
  <2> DEFINE j == job[u][v]
  <2>1. PICK k : SetJob(u, v, k) /\ JobStep(u, v, k)
    <3>1. CASE CompareCounts(u, v)
      <4>1. SetJob(u, v, Doing("shut", j.conn)) \/ SetJob(u, v, Idle)
        BY <3>1 DEF CompareCounts
      <4>2. JobStep(u, v, Doing("shut", j.conn)) /\ JobStep(u, v, Idle)
        BY <3>1 DEF CompareCounts, JobStep
      <4> QED BY <4>1, <4>2
    <3>2. CASE ShutdownFromRemote(u, v)
      <4>1. SetJob(u, v, Doing("free", j.conn)) \/ SetJob(u, v, Idle)
        BY <3>2 DEF ShutdownFromRemote
      <4>2. JobStep(u, v, Doing("free", j.conn)) /\ JobStep(u, v, Idle)
        BY <3>2 DEF ShutdownFromRemote, JobStep
      <4> QED BY <4>1, <4>2
    <3>3. CASE u = "server" /\ FreeProxyConn(v)
      <4>1. CASE j.conn \in proxyMap /\ ~pconn["server"][j.conn].start
        <5>1. SetJob(u, v, Doing("push", j.conn))
          BY <3>3, <4>1 DEF FreeProxyConn
        <5>2. JobStep(u, v, Doing("push", j.conn))
          BY <3>3, <4>1 DEF FreeProxyConn, JobStep
        <5> QED BY <5>1, <5>2
      <4>2. CASE ~(j.conn \in proxyMap /\ ~pconn["server"][j.conn].start)
        <5>1. SetJob(u, v, Idle)
          BY <3>3, <4>2 DEF FreeProxyConn
        <5>2. JobStep(u, v, Idle)
          BY <3>3 DEF FreeProxyConn, JobStep
        <5> QED BY <5>1, <5>2
      <4> QED BY <4>1, <4>2
    <3>4. (u = "server" /\ RecycleProxyConn(v)) \/ (u = "client" /\ SendFreeConnReq(v))
          => SetJob(u, v, Idle) /\ JobStep(u, v, Idle)
      BY DEF RecycleProxyConn, SendFreeConnReq, JobStep
    <3>5. u = "client" /\ StartLocalConn(v) => SetJob(u, v, Idle) /\ JobStep(u, v, Idle)
      BY DEF StartLocalConn, JobStep
    <3> QED BY <1>5, <3>1, <3>2, <3>3, <3>4, <3>5 DEF ThreadStep
  <2> QED BY <1>0, <2>1
<1>6. ASSUME NEW c \in Proxy, HandleProxyConnectReq(c) PROVE Goal
  <2> DEFINE k == Runs(c, <<c, ran[c] + 1>>)
  <2>1. SetJob("client", c, k)
    BY <1>6 DEF HandleProxyConnectReq, Runs
  <2>2. job["client"][c] = Idle /\ NextMsg("client", c, "req") /\ ran[c] < MaxSession
        /\ ran' = [ran EXCEPT ![c] = @ + 1]
    BY <1>6 DEF HandleProxyConnectReq, NextMsg, Readable, CreateLocalConn
  <2>3. JobStep("client", c, k)
    BY <2>2 DEF JobStep
  <2> QED BY <1>0, <2>1, <2>3, SideType
<1>7. ASSUME NEW u \in Side, NEW c \in Proxy, SplicePayload(u, c) PROVE Goal
  <2>1. SetJob(u, c, Doing("compare", c)) /\ Readable(u, c) /\ pconn[u][c].start
    BY <1>7 DEF SplicePayload
  <2>2. JobStep(u, c, Doing("compare", c))
    BY <2>1 DEF JobStep, Readable
  <2> QED BY <1>0, <2>1, <2>2
<1>8. ASSUME NEW e \in Endpoint, RelayEof(e) PROVE Goal
  <2> DEFINE u == SideOf(e)
             c == relay[e].conn
  <2>1. c \in Proxy /\ u \in Side /\ job[u][c] = Idle
    BY <1>8, SideType, RelayType DEF RelayEof, RelayReadable, TypeOK
  <2>2. job' = job \/ SetJob(u, c, Fins(c, e))
    BY <1>8 DEF RelayEof, Fins
  <2>3. JobStep(u, c, Fins(c, e))
    BY <2>1 DEF JobStep
  <2> QED BY <1>0, <1>1, <2>1, <2>2, <2>3
<1>9. ASSUME NEW u \in Side, NEW c \in Proxy, SendShutdown(u, c) PROVE Goal
  <2>1. SetJob(u, c, Idle) /\ JobStep(u, c, Idle)
    BY <1>9 DEF SendShutdown, JobStep
  <2> QED BY <1>0, <2>1
<1>10. /\ \A e \in Endpoint : Send(e) \/ Fin(e) \/ RelayPayload(e) => job' = job
       /\ AddWaitProxyConn => job' = job
       /\ \A p \in Public : ReuseProxyConn(p) \/ NotifyClientNeedProxy(p) => job' = job
       /\ \A c \in Proxy : NewProxyConn(c) \/ ClaimProxyConn(c) => job' = job
       /\ \A c \in Proxy : HandleStartProxyConnRsp(c) => job' = job
       /\ \A u \in Side, c \in Proxy : DropPayload(u, c) \/ ReadnGoesOn(u, c) => job' = job
  BY DEF Send, Fin, RelayPayload, AddWaitProxyConn, ReuseProxyConn,
         NotifyClientNeedProxy, NewProxyConn, ClaimProxyConn,
         HandleStartProxyConnRsp, DropPayload, ReadnGoesOn
<1> HIDE DEF Goal
<1>11. \A u \in Side, v \in Thread : CompareCounts(u, v) \/ ShutdownFromRemote(u, v) => Goal
  BY <1>5 DEF ThreadStep
<1>12. \A v \in Thread : FreeProxyConn(v) \/ RecycleProxyConn(v) => Goal
  BY <1>5, SideType DEF ThreadStep
<1>13. \A v \in Thread : SendFreeConnReq(v) \/ StartLocalConn(v) => Goal
  BY <1>5, SideType DEF ThreadStep
<1>14. Goal
  BY <1>1, <1>2, <1>3, <1>4, <1>6, <1>7, <1>8, <1>9, <1>10, <1>11, <1>12, <1>13,
     NextCases
<1> QED BY <1>14 DEF Goal

\* bindPublicFdToProxyConn, from either of its callers.
Binds(c, p) ==
    /\ BindPublicFd(p, c)
    /\ stream["server"][c] # <<>> /\ job["server"][c] = Idle
    /\ ~pconn["server"][c].start
    /\ \/ /\ ClaimProxyConn(c) /\ Head(stream["server"][c]).kind = "meta"
          /\ unhandled # <<>> /\ p = unhandled[Len(unhandled)]
       \/ /\ HandleStartProxyConnRsp(c) /\ Head(stream["server"][c]).kind = "rsp"
          /\ c \in waitMap /\ p = Head(stream["server"][c]).fd

\* The start of a local connection.
Starts(t) == job["client"][t].pc = "run" /\ StartLocalConn(t)

LEMMA Bindings ==
    ASSUME TypeOK, NEW c \in Proxy,
           ClaimProxyConn(c) \/ (HandleStartProxyConnRsp(c) /\ c \in waitMap)
    PROVE  \E p \in Public : Binds(c, p)
<1>1. CASE ClaimProxyConn(c)
  <2> DEFINE p == unhandled[Len(unhandled)]
  <2>1. p \in Public
    BY <1>1, SeqType DEF ClaimProxyConn, TypeOK
  <2>2. /\ BindPublicFd(p, c) /\ unhandled # <<>> /\ stream["server"][c] # <<>>
        /\ job["server"][c] = Idle /\ ~pconn["server"][c].start
        /\ Head(stream["server"][c]).kind = "meta"
    BY <1>1 DEF ClaimProxyConn, NextMsg, Readable
  <2>3. Binds(c, p)
    BY <1>1, <2>2 DEF Binds
  <2> QED BY <2>1, <2>3
<1>2. CASE HandleStartProxyConnRsp(c) /\ c \in waitMap
  <2> DEFINE p == Head(stream["server"][c]).fd
  <2>1. stream["server"][c] \in Seq(Elem) /\ stream["server"][c] # <<>>
    BY <1>2, SideType DEF HandleStartProxyConnRsp, NextMsg, Readable, TypeOK
  <2>2. p \in Public
    BY <1>2, <2>1, SeqType, ElemType DEF HandleStartProxyConnRsp, NextMsg
  <2>3. /\ BindPublicFd(p, c) /\ stream["server"][c] # <<>>
        /\ job["server"][c] = Idle /\ ~pconn["server"][c].start
        /\ Head(stream["server"][c]).kind = "rsp"
    BY <1>2 DEF HandleStartProxyConnRsp, NextMsg, Readable
  <2>4. Binds(c, p)
    BY <1>2, <2>3 DEF Binds
  <2> QED BY <2>2, <2>4
<1> QED BY <1>1, <1>2

LEMMA BindSteps ==
    ASSUME TypeOK, NEW c \in Proxy, ReadMsg(c)
    PROVE  \/ pconn' = pconn /\ relay' = relay /\ bound' = bound
           \/ \E p \in Public : Binds(c, p)
<1>1. CASE ClaimProxyConn(c) \/ (HandleStartProxyConnRsp(c) /\ c \in waitMap)
  BY <1>1, Bindings
<1>2. CASE (HandleStartProxyConnRsp(c) /\ c \notin waitMap) \/ HandleProxyConnectReq(c)
  BY <1>2 DEF HandleStartProxyConnRsp, HandleProxyConnectReq
<1> QED BY <1>1, <1>2 DEF ReadMsg

\* Only these two start a ProxyConnect; everything else leaves start_ and
\* conn2fd_ as they are or resets them.
Kept(k, l) == l.start => k.start /\ l.peer = k.peer

LEMMA FieldsKept ==
    ASSUME NEW k \in ProxyConnect
    PROVE  /\ Kept(k, NewProxyConnect) /\ Kept(k, HalfClose(k))
           /\ \A n : Kept(k, AddTotalCount(k, n)) /\ Kept(k, AddRecvCount(k, n))
BY DEF Kept, NewProxyConnect, HalfClose, ResetConn, AddTotalCount, AddRecvCount,
       ProxyConnect

LEMMA ConnSteps ==
    ASSUME TypeOK, Next, NEW s \in Side, NEW c \in Proxy
    PROVE  \/ s = "server" /\ \E p \in Public : Binds(c, p)
           \/ s = "client" /\ \E t \in Thread : Starts(t) /\ job["client"][t].conn = c
           \/ Kept(pconn[s][c], pconn'[s][c])
<1> DEFINE Goal == \/ s = "server" /\ \E p \in Public : Binds(c, p)
                   \/ s = "client" /\ \E t \in Thread : Starts(t) /\ job["client"][t].conn = c
                   \/ Kept(pconn[s][c], pconn'[s][c])
<1>0. \A u \in Side, d \in Proxy : pconn[u][d] \in ProxyConnect
  BY DEF TypeOK
<1>1. ASSUME NEW u \in Side, NEW d \in Proxy, NEW k, SetConn(u, d, k), Kept(pconn[u][d], k)
      PROVE  Goal
  <2>1. CASE u = s /\ d = c
    BY <1>1, <2>1, ConnAt
  <2>2. CASE u # s \/ d # c
    BY <1>1, <2>2, ConnAt DEF Kept
  <2> QED BY <2>1, <2>2
<1>2. ASSUME pconn' = pconn PROVE Goal
  BY <1>2 DEF Kept
<1>3. ASSUME NEW d \in Proxy, NewProxyConn(d) PROVE Goal
  BY <1>0, <1>1, <1>3, FieldsKept, SideType DEF NewProxyConn
<1>4. ASSUME NEW u \in Side, HandleShutdownPeerConn(u) PROVE Goal
  <2> DEFINE m == Head(ctl[u])
  <2>1. m \in CtlMsg /\ m.kind = "shutdown"
    BY <1>4, NextCtlAt DEF HandleShutdownPeerConn, NextCtl
  <2>2. m.conn \in Proxy
    BY <2>1, CtlMsgType
  <2>3. pconn' = pconn \/ SetConn(u, m.conn, AddTotalCount(pconn[u][m.conn], m.count))
    BY <1>4 DEF HandleShutdownPeerConn
  <2> QED BY <1>0, <1>1, <1>2, <2>2, <2>3, FieldsKept
<1>5. ASSUME NEW u \in Side, NEW t \in Thread, ShutdownFromRemote(u, t) PROVE Goal
  <2> DEFINE d == job[u][t].conn
  <2>1. d \in Proxy
    <3>1. job[u][t] \in Job /\ job[u][t].pc = "shut"
      BY <1>5 DEF ShutdownFromRemote, TypeOK
    <3> QED BY <3>1, JobType
  <2>2. SetConn(u, d, HalfClose(pconn[u][d]))
    BY <1>5 DEF ShutdownFromRemote
  <2> QED BY <1>0, <1>1, <2>1, <2>2, FieldsKept
<1>6. ASSUME NEW t \in Thread, StartLocalConn(t) PROVE Goal
  <2> DEFINE j == job["client"][t]
  <2>1. j.pc = "run" /\ j \in Job
    BY <1>6, SideType DEF StartLocalConn, TypeOK
  <2>2. j.conn \in Proxy /\ j.end \in Endpoint /\ Run("client", j.conn, j.end)
    BY <1>6, <2>1, JobType DEF StartLocalConn
  <2>3. CASE s = "client" /\ j.conn = c
    BY <1>6, <2>1, <2>3 DEF Starts
  <2>4. CASE s # "client" \/ j.conn # c
    BY <2>2, <2>4, RunAt, SideType DEF Kept
  <2> QED BY <2>3, <2>4
<1>7. ASSUME NEW d \in Proxy, ClaimProxyConn(d) \/ HandleStartProxyConnRsp(d)
      PROVE  Goal
  <2>1. pconn' = pconn \/ \E p \in Public : Binds(d, p)
    BY <1>7, BindSteps DEF ReadMsg
  <2>2. ASSUME NEW p \in Public, Binds(d, p) PROVE Goal
    <3>1. CASE s = "server" /\ d = c
      BY <2>2, <3>1
    <3>2. CASE s # "server" \/ d # c
      <4>1. Run("server", d, p) /\ p \in Endpoint
        BY <2>2, Sides DEF Binds, BindPublicFd
      <4> QED BY <3>2, <4>1, RunAt, SideType DEF Kept
    <3> QED BY <3>1, <3>2
  <2> QED BY <1>2, <2>1, <2>2
<1>8. ASSUME NEW u \in Side, NEW d \in Proxy, SplicePayload(u, d) PROVE Goal
  <2>1. PICK k : SetConn(u, d, AddRecvCount(pconn[u][d], k))
    BY <1>8 DEF SplicePayload
  <2> QED BY <1>0, <1>1, <2>1, FieldsKept
<1>9. ASSUME NEW e \in Endpoint, RelayEof(e) PROVE Goal
  <2> DEFINE u == SideOf(e)
             d == relay[e].conn
  <2>1. d \in Proxy /\ u \in Side
    BY <1>9, SideType, RelayType DEF RelayEof, RelayReadable, TypeOK
  <2>2. pconn' = pconn \/ SetConn(u, d, HalfClose(pconn[u][d]))
    BY <1>9 DEF RelayEof, ShutdownFromLocal
  <2> QED BY <1>0, <1>1, <1>2, <2>1, <2>2, FieldsKept
<1>10. /\ \A e \in Endpoint : Send(e) \/ Fin(e) \/ RelayPayload(e) => pconn' = pconn
       /\ AddWaitProxyConn \/ HandleFreeProxyConnReq => pconn' = pconn
       /\ \A p \in Public : ReuseProxyConn(p) \/ NotifyClientNeedProxy(p) => pconn' = pconn
       /\ \A d \in Proxy : HandleProxyNotify(d) \/ HandleProxyConnectReq(d)
                             => pconn' = pconn
       /\ \A u \in Side, t \in Thread : CompareCounts(u, t) => pconn' = pconn
       /\ \A t \in Thread : FreeProxyConn(t) \/ RecycleProxyConn(t) \/ SendFreeConnReq(t)
                              => pconn' = pconn
       /\ \A u \in Side, d \in Proxy : DropPayload(u, d) \/ ReadnGoesOn(u, d)
                                       \/ SendShutdown(u, d)
                                         => pconn' = pconn
  BY DEF Send, Fin, RelayPayload, AddWaitProxyConn, ReuseProxyConn,
         NotifyClientNeedProxy, HandleProxyNotify, HandleProxyConnectReq,
         HandleFreeProxyConnReq, CompareCounts, FreeProxyConn, RecycleProxyConn,
         SendFreeConnReq, DropPayload, ReadnGoesOn, SendShutdown
<1> HIDE DEF Goal
<1>11. Goal
  BY <1>2, <1>3, <1>4, <1>5, <1>6, <1>7, <1>8, <1>9, <1>10, NextCases
<1> QED BY <1>11 DEF Goal

LEMMA BoundSteps ==
    ASSUME TypeOK, Next
    PROVE  \/ bound' = bound
           \/ \E c \in Proxy, p \in Public :
                Binds(c, p) /\ bound' = [bound EXCEPT ![c] = Append(@, p)]
<1>1. ASSUME NEW c \in Proxy, ClaimProxyConn(c) \/ HandleStartProxyConnRsp(c)
      PROVE  bound' = bound \/ \E p \in Public :
               Binds(c, p) /\ bound' = [bound EXCEPT ![c] = Append(@, p)]
  BY <1>1, BindSteps DEF ReadMsg, Binds, BindPublicFd
<1>2. /\ \A e \in Endpoint : Send(e) \/ Fin(e) \/ RelayPayload(e) \/ RelayEof(e)
           => bound' = bound
      /\ AddWaitProxyConn \/ HandleFreeProxyConnReq => bound' = bound
      /\ \A p \in Public : ReuseProxyConn(p) \/ NotifyClientNeedProxy(p) => bound' = bound
      /\ \A d \in Proxy : HandleProxyNotify(d) \/ HandleProxyConnectReq(d)
                            => bound' = bound
      /\ \A u \in Side : HandleShutdownPeerConn(u) => bound' = bound
      /\ \A d \in Proxy : NewProxyConn(d) => bound' = bound
      /\ \A u \in Side, t \in Thread : CompareCounts(u, t) \/ ShutdownFromRemote(u, t)
                                         => bound' = bound
      /\ \A t \in Thread : FreeProxyConn(t) \/ RecycleProxyConn(t) \/ SendFreeConnReq(t)
                             => bound' = bound
      /\ \A t \in Thread : StartLocalConn(t) => bound' = bound
      /\ \A u \in Side, d \in Proxy : DropPayload(u, d) \/ ReadnGoesOn(u, d)
                                      \/ SendShutdown(u, d)
                                        => bound' = bound
      /\ \A u \in Side, d \in Proxy : SplicePayload(u, d) => bound' = bound
  BY ZenonT(40) DEF Send, Fin, RelayPayload, RelayEof, AddWaitProxyConn, ReuseProxyConn,
         NotifyClientNeedProxy, HandleProxyNotify, HandleProxyConnectReq, NewProxyConn,
         HandleShutdownPeerConn, ShutdownFromRemote, StartLocalConn, SplicePayload,
         HandleFreeProxyConnReq, CompareCounts, FreeProxyConn, RecycleProxyConn,
         SendFreeConnReq, DropPayload, ReadnGoesOn, SendShutdown
<1> QED BY <1>1, <1>2, NextCases

\* Endpoint e is fed to another connection only by Run.
LEMMA RelaySteps ==
    ASSUME TypeOK, Next, NEW e \in Endpoint
    PROVE  \/ relay'[e].conn \in {relay[e].conn, None}
           \/ \E c \in Proxy : Binds(c, e) /\ e \in Public /\ relay'[e].conn = c
           \/ \E t \in Thread : /\ Starts(t) /\ job["client"][t].end = e
                                /\ relay'[e].conn = job["client"][t].conn
<1> DEFINE Goal == \/ relay'[e].conn \in {relay[e].conn, None}
                   \/ \E c \in Proxy : Binds(c, e) /\ e \in Public /\ relay'[e].conn = c
                   \/ \E t \in Thread : /\ Starts(t) /\ job["client"][t].end = e
                                        /\ relay'[e].conn = job["client"][t].conn
<1>0. \A x \in Endpoint : relay[x] \in Relay
  BY DEF TypeOK
<1>1. ASSUME relay' = relay PROVE Goal
  BY <1>1
<1>2. ASSUME NEW x \in Endpoint, NEW r, relay' = [relay EXCEPT ![x] = r],
             r.conn = relay[x].conn
      PROVE  Goal
  BY <1>2 DEF TypeOK
<1>3. ASSUME NEW x \in Endpoint, RelayPayload(x) \/ RelayEof(x) PROVE Goal
  <2>1. PICK n, b : \/ relay' = relay
                    \/ relay' = [relay EXCEPT ![x] = [relay[x] EXCEPT !.tran = n]]
                    \/ relay' = [relay EXCEPT ![x] = [relay[x] EXCEPT !.closed = b]]
    <3>1. CASE RelayPayload(x)
      BY <3>1 DEF RelayPayload
    <3>2. CASE RelayEof(x)
      BY <3>2 DEF RelayEof
    <3> QED BY <1>3, <3>1, <3>2
  <2>2. [relay[x] EXCEPT !.tran = n].conn = relay[x].conn
        /\ [relay[x] EXCEPT !.closed = b].conn = relay[x].conn
    BY <1>0 DEF Relay
  <2> QED BY <1>1, <1>2, <2>1, <2>2
<1>4. ASSUME NEW s \in Side, NEW c \in Proxy, SendShutdown(s, c) PROVE Goal
  <2> DEFINE x == job[s][c].end
  <2>1. x \in Endpoint
    BY <1>4, JobType, Threads DEF SendShutdown, TypeOK
  <2>2. relay' = [relay EXCEPT ![x] = [relay[x] EXCEPT !.closed = TRUE]]
    BY <1>4 DEF SendShutdown
  <2>3. [relay[x] EXCEPT !.closed = TRUE].conn = relay[x].conn
    BY <1>0, <2>1 DEF Relay
  <2> QED BY <1>2, <2>1, <2>2, <2>3
<1>5. ASSUME NEW t \in Thread, StartLocalConn(t) PROVE Goal
  <2> DEFINE j == job["client"][t]
  <2>1. j.pc = "run" /\ j \in Job
    BY <1>5, SideType DEF StartLocalConn, TypeOK
  <2>2. j.conn \in Proxy /\ j.end \in Endpoint /\ Run("client", j.conn, j.end)
    BY <1>5, <2>1, JobType DEF StartLocalConn
  <2>3. CASE e = j.end
    BY <1>5, <2>1, <2>2, <2>3, RunAt, SideType DEF Starts
  <2>4. CASE e # j.end
    BY <2>2, <2>4, RunAt, SideType DEF NoRelay
  <2> QED BY <2>3, <2>4
<1>6. ASSUME NEW c \in Proxy, ClaimProxyConn(c) \/ HandleStartProxyConnRsp(c)
      PROVE  Goal
  <2>1. relay' = relay \/ \E p \in Public : Binds(c, p)
    BY <1>6, BindSteps DEF ReadMsg
  <2>2. ASSUME NEW p \in Public, Binds(c, p) PROVE Goal
    <3>1. p \in Endpoint /\ Run("server", c, p)
      BY <2>2, Sides DEF Binds, BindPublicFd
    <3>2. CASE e = p
      BY <2>2, <3>1, <3>2, RunAt, SideType
    <3>3. CASE e # p
      BY <3>1, <3>3, RunAt, SideType DEF NoRelay
    <3> QED BY <3>2, <3>3
  <2> QED BY <1>1, <2>1, <2>2
<1>7. /\ \A x \in Endpoint : Send(x) \/ Fin(x) => relay' = relay
      /\ AddWaitProxyConn \/ HandleFreeProxyConnReq => relay' = relay
      /\ \A p \in Public : ReuseProxyConn(p) \/ NotifyClientNeedProxy(p) => relay' = relay
      /\ \A d \in Proxy : HandleProxyNotify(d) \/ HandleProxyConnectReq(d)
                            => relay' = relay
      /\ \A u \in Side : HandleShutdownPeerConn(u) => relay' = relay
      /\ \A d \in Proxy : NewProxyConn(d) => relay' = relay
  BY DEF Send, Fin, AddWaitProxyConn, ReuseProxyConn,
         NotifyClientNeedProxy, HandleProxyNotify, HandleProxyConnectReq, NewProxyConn,
         HandleShutdownPeerConn, HandleFreeProxyConnReq
<1>71. /\ \A u \in Side, t \in Thread : CompareCounts(u, t) \/ ShutdownFromRemote(u, t)
                                         => relay' = relay
       /\ \A t \in Thread : FreeProxyConn(t) \/ RecycleProxyConn(t) \/ SendFreeConnReq(t)
                             => relay' = relay
  BY DEF ShutdownFromRemote, CompareCounts, FreeProxyConn, RecycleProxyConn, SendFreeConnReq
<1>72. \A u \in Side, d \in Proxy : DropPayload(u, d) \/ ReadnGoesOn(u, d)
                                  \/ SplicePayload(u, d) => relay' = relay
  BY DEF SplicePayload, DropPayload, ReadnGoesOn
<1> HIDE DEF Goal
<1>8. Goal
  BY <1>1, <1>3, <1>4, <1>5, <1>6, <1>7, <1>71, <1>72, NextCases
<1> QED BY <1>8 DEF Goal

\* What travels on a connection grows at the end and shrinks at the front.
Grows(s, c, r) == stream'[s][c] = stream[s][c] \o r
Payload(r) == r \in Seq(Elem) /\ \A i \in 1 .. Len(r) : r[i].kind = "data"

LEMMA StreamSteps ==
    ASSUME TypeOK, Next, NEW s \in Side, NEW c \in Proxy
    PROVE  \/ \A V : Shrinks(stream[s][c], stream'[s][c], V)
           \/ /\ s = "server" /\ HandleProxyNotify(c)
              /\ stream'[s][c] = Append(stream[s][c], MetaSet)
           \/ /\ s = "server" /\ HandleProxyConnectReq(c)
              /\ \E p \in Public : stream'[s][c] = Append(stream[s][c], ConnectRsp(p))
           \/ /\ s = "client"
              /\ \E p \in Public :
                   /\ ReuseProxyConn(p) /\ c = freeList[Len(freeList)]
                   /\ stream'[s][c] = Append(stream[s][c], ConnectReq(p))
           \/ \E e \in Endpoint : \E r :
                /\ RelayPayload(e) /\ s = Other(SideOf(e)) /\ relay[e].conn = c
                /\ Grows(s, c, r) /\ Payload(r)
<1> DEFINE Goal ==
           \/ \A V : Shrinks(stream[s][c], stream'[s][c], V)
           \/ /\ s = "server" /\ HandleProxyNotify(c)
              /\ stream'[s][c] = Append(stream[s][c], MetaSet)
           \/ /\ s = "server" /\ HandleProxyConnectReq(c)
              /\ \E p \in Public : stream'[s][c] = Append(stream[s][c], ConnectRsp(p))
           \/ /\ s = "client"
              /\ \E p \in Public :
                   /\ ReuseProxyConn(p) /\ c = freeList[Len(freeList)]
                   /\ stream'[s][c] = Append(stream[s][c], ConnectReq(p))
           \/ \E e \in Endpoint : \E r :
                /\ RelayPayload(e) /\ s = Other(SideOf(e)) /\ relay[e].conn = c
                /\ Grows(s, c, r) /\ Payload(r)
<1>1. ASSUME stream'[s][c] = stream[s][c] PROVE Goal
  BY <1>1 DEF Shrinks
<1>2. ASSUME NEW u \in Side, NEW d \in Proxy, NEW r, stream' = [stream EXCEPT ![u][d] = r],
             \A V : Shrinks(stream[u][d], r, V)
      PROVE  Goal
  <2>1. CASE u = s /\ d = c
    <3>1. stream'[u][d] = r
      BY <1>2 DEF TypeOK
    <3>2. stream'[s][c] = r /\ stream[u][d] = stream[s][c]
      BY <2>1, <3>1
    <3> QED BY <1>2, <3>2
  <2>2. CASE u # s \/ d # c
    BY <1>1, <1>2, <2>2, Streams
  <2> QED BY <2>1, <2>2
<1>3. ASSUME NEW u \in Side, NEW d \in Proxy, stream[u][d] # <<>>,
             stream' = [stream EXCEPT ![u][d] = Tail(@)]
      PROVE  Goal
  <2> DEFINE q == stream[u][d]
  <2>1. q \in Seq(Elem) /\ stream' = [stream EXCEPT ![u][d] = Tail(q)]
    BY <1>3 DEF TypeOK
  <2>2. \A V : Shrinks(q, Tail(q), V)
    <3> HIDE DEF q
    <3> QED BY <1>3, <2>1, OnceTail DEF q
  <2> QED BY <1>2, <2>1, <2>2
<1>4. ASSUME NEW d \in Proxy, ClaimProxyConn(d) \/ HandleStartProxyConnRsp(d)
      PROVE  Goal
  BY <1>3, <1>4, SideType DEF ClaimProxyConn, HandleStartProxyConnRsp, NextMsg, Readable
<1>5. ASSUME NEW u \in Side, NEW d \in Proxy, DropPayload(u, d) \/ ReadnGoesOn(u, d)
      PROVE  Goal
  BY <1>3, <1>5 DEF DropPayload, ReadnGoesOn, NextMsg, Readable
<1>6. ASSUME NEW u \in Side, NEW d \in Proxy, SplicePayload(u, d) PROVE Goal
  <2> DEFINE q == stream[u][d]
  <2>1. PICK k \in 1 .. Len(q) : stream' = [stream EXCEPT ![u][d] = Unread(@, k)]
    BY <1>6, Zenon DEF SplicePayload
  <2>2. q \in Seq(Elem) /\ stream' = [stream EXCEPT ![u][d] = Unread(q, k)]
    BY <2>1 DEF TypeOK
  <2>3. \A V : Shrinks(q, Unread(q, k), V)
    <3> HIDE DEF q
    <3> QED BY <2>2, OnceSuffix
  <2> QED BY <1>2, <2>2, <2>3
<1>7. ASSUME NEW d \in Proxy, HandleProxyNotify(d) PROVE Goal
  <2>1. stream' = [stream EXCEPT !["server"][d] = Append(stream["server"][d], MetaSet)]
    BY <1>7, SideType DEF HandleProxyNotify, SendStream, TypeOK
  <2>2. CASE s = "server" /\ d = c
    <3>1. stream'["server"][d] = Append(stream["server"][d], MetaSet)
      BY <2>1, SideType DEF TypeOK
    <3> QED BY <1>7, <2>2, <3>1
  <2>3. CASE s # "server" \/ d # c
    BY <1>1, <2>1, <2>3, SideType, Streams, SMTT(20)
  <2> QED BY <2>2, <2>3
<1>8. ASSUME NEW p \in Public, ReuseProxyConn(p) PROVE Goal
  <2> DEFINE d == freeList[Len(freeList)]
  <2>1. d \in Proxy
    BY <1>8, SeqType DEF ReuseProxyConn, TypeOK
  <2>2. stream' = [stream EXCEPT !["client"][d] = Append(stream["client"][d], ConnectReq(p))]
    BY <1>8, <2>1, SideType DEF ReuseProxyConn, SendStream, TypeOK
  <2>3. CASE s = "client" /\ d = c
    <3>1. stream'["client"][d] = Append(stream["client"][d], ConnectReq(p))
      BY <2>1, <2>2, SideType DEF TypeOK
    <3> QED BY <1>8, <2>3, <3>1
  <2>4. CASE s # "client" \/ d # c
    <3> HIDE DEF d
    <3>1. stream'[s][c] = stream[s][c]
      BY <2>1, <2>2, <2>4, SideType, Streams
    <3> QED BY <1>1, <3>1
  <2> QED BY <2>3, <2>4
<1>9. ASSUME NEW d \in Proxy, HandleProxyConnectReq(d) PROVE Goal
  <2> DEFINE q == stream["client"][d]
             p == Head(q).fd
  <2>1. q \in Seq(Elem) /\ q # <<>> /\ Head(q).kind = "req"
    BY <1>9, SideType DEF HandleProxyConnectReq, NextMsg, Readable, TypeOK
  <2>2. p \in Public
    BY <2>1, SeqType, ElemType
  <2>3. /\ stream'["client"][d] = Tail(q)
        /\ stream'["server"][d] = Append(stream["server"][d], ConnectRsp(p))
        /\ \A u \in Side, b \in Proxy : b # d => stream'[u][b] = stream[u][b]
    BY <1>9, SideType DEF HandleProxyConnectReq, TypeOK
  <2>4. \A V : Shrinks(q, Tail(q), V)
    <3> HIDE DEF q
    <3> QED BY <2>1, OnceTail
  <2>5. CASE d # c
    BY <1>1, <2>3, <2>5
  <2>6. CASE d = c /\ s = "client"
    BY <2>3, <2>4, <2>6
  <2>7. CASE d = c /\ s = "server"
    BY <1>9, <2>2, <2>3, <2>7
  <2> QED BY <2>5, <2>6, <2>7, Sides
<1>10. ASSUME NEW e \in Endpoint, RelayPayload(e) PROVE Goal
  <2> DEFINE u == Other(SideOf(e))
             d == relay[e].conn
             fed(k) == [i \in 1 .. k |-> Data(e, sock[e].read + i)]
  <2>1. d \in Proxy /\ u \in Side /\ sock[e] \in Socket
    BY <1>10, SideType, RelayType DEF RelayPayload, RelayReadable, TypeOK
  <2>2. PICK k \in 1 .. (sock[e].sent - sock[e].read) :
          stream' = [stream EXCEPT ![u][d] = @ \o fed(k)]
    BY <1>10 DEF RelayPayload
  <2>3. Payload(fed(k))
    <3>1. sock[e].sent \in 0 .. MaxUnits /\ sock[e].read \in 0 .. MaxUnits
      BY <2>1, SocketType
    <3>2. \A i \in 1 .. k : sock[e].read + i \in 1 .. MaxUnits
      BY <3>1, ConstantsAssumption
    <3>3. k \in Nat
      BY <3>1
    <3> QED BY <3>2, <3>3, ElemType DEF Payload, Data
  <2> HIDE DEF fed
  <2>4. stream' = [stream EXCEPT ![u][d] = stream[u][d] \o fed(k)]
    BY <2>1, <2>2 DEF TypeOK
  <2>5. CASE u = s /\ d = c
    <3>1. stream'[u][d] = stream[u][d] \o fed(k)
      BY <2>1, <2>4 DEF TypeOK
    <3>2. Grows(s, c, fed(k))
      BY <2>5, <3>1 DEF Grows
    <3> QED BY <1>10, <2>3, <2>5, <3>2
  <2>6. CASE u # s \/ d # c
    <3>1. stream'[s][c] = stream[s][c]
      BY <2>1, <2>4, <2>6 DEF TypeOK
    <3> QED BY <1>1, <3>1
  <2> QED BY <2>5, <2>6
<1>11. /\ \A e \in Endpoint : Send(e) \/ Fin(e) \/ RelayEof(e) => stream' = stream
       /\ AddWaitProxyConn \/ HandleFreeProxyConnReq => stream' = stream
       /\ \A p \in Public : NotifyClientNeedProxy(p) => stream' = stream
       /\ \A u \in Side : HandleShutdownPeerConn(u) => stream' = stream
       /\ \A d \in Proxy : NewProxyConn(d) => stream' = stream
       /\ \A u \in Side, t \in Thread : CompareCounts(u, t) \/ ShutdownFromRemote(u, t)
                                          => stream' = stream
       /\ \A t \in Thread : FreeProxyConn(t) \/ RecycleProxyConn(t) \/ SendFreeConnReq(t)
                              => stream' = stream
       /\ \A t \in Thread : StartLocalConn(t) => stream' = stream
       /\ \A u \in Side, d \in Proxy : SendShutdown(u, d) => stream' = stream
  BY DEF Send, Fin, RelayEof, AddWaitProxyConn, NotifyClientNeedProxy, NewProxyConn,
         HandleShutdownPeerConn, ShutdownFromRemote, StartLocalConn,
         HandleFreeProxyConnReq, CompareCounts, FreeProxyConn, RecycleProxyConn,
         SendFreeConnReq, SendShutdown
<1>12. stream' = stream => Goal
  BY <1>1
<1> HIDE DEF Goal
<1>13. Goal
  BY <1>4, <1>5, <1>6, <1>7, <1>8, <1>9, <1>10, <1>11, <1>12, NextCases
<1> QED BY <1>13 DEF Goal

\* New messages on the control connection.
LEMMA CtlSteps ==
    ASSUME TypeOK, Next, NEW s \in Side
    PROVE  \/ \A V : Shrinks(ctl[s], ctl'[s], V)
           \/ s = "client" /\ ctl'[s] = Append(ctl[s], NotifyClient)
           \/ /\ s = "server"
              /\ \E t \in Thread : /\ job["client"][t].pc = "free"
                                   /\ ctl'[s] = Append(ctl[s], FreeConnReq(job["client"][t].conn))
           \/ \E c \in Proxy, n \in Count :
                /\ job[Other(s)][c].pc = "fin" /\ SendShutdown(Other(s), c)
                /\ ctl'[s] = Append(ctl[s], ShutdownPeerConn(c, n))
<1> DEFINE Goal ==
           \/ \A V : Shrinks(ctl[s], ctl'[s], V)
           \/ s = "client" /\ ctl'[s] = Append(ctl[s], NotifyClient)
           \/ /\ s = "server"
              /\ \E t \in Thread : /\ job["client"][t].pc = "free"
                                   /\ ctl'[s] = Append(ctl[s], FreeConnReq(job["client"][t].conn))
           \/ \E c \in Proxy, n \in Count :
                /\ job[Other(s)][c].pc = "fin" /\ SendShutdown(Other(s), c)
                /\ ctl'[s] = Append(ctl[s], ShutdownPeerConn(c, n))
<1>1. ASSUME ctl'[s] = ctl[s] PROVE Goal
  BY <1>1 DEF Shrinks
<1>2. ASSUME NEW u \in Side, NEW kind, NextCtl(u, kind) PROVE Goal
  <2>1. CASE u = s
    <3>1. ctl[s] \in Seq(CtlMsg) /\ ctl[s] # <<>> /\ ctl'[s] = Tail(ctl[s])
      BY <1>2, <2>1, NextCtlAt
    <3>2. \A V : Shrinks(ctl[s], Tail(ctl[s]), V)
      BY <3>1, OnceTail
    <3> QED BY <3>1, <3>2
  <2>2. CASE u # s
    BY <1>1, <1>2, <2>2, NextCtlAt
  <2> QED BY <2>1, <2>2
<1>3. /\ \A c \in Proxy : HandleProxyNotify(c) => Goal
      /\ \A u \in Side : HandleShutdownPeerConn(u) => Goal
      /\ HandleFreeProxyConnReq => Goal
  <2> HIDE DEF Goal
  <2> QED BY <1>2, SideType DEF HandleProxyNotify, HandleShutdownPeerConn,
                                HandleFreeProxyConnReq
<1>4. ASSUME NEW p \in Public, NotifyClientNeedProxy(p) PROVE Goal
  BY <1>1, <1>4, SendCtlAt, SideType, Sides DEF NotifyClientNeedProxy
<1>5. ASSUME NEW t \in Thread, SendFreeConnReq(t) PROVE Goal
  <2>1. job["client"][t].pc = "free"
    BY <1>5 DEF SendFreeConnReq
  <2>2. SendCtl("server", FreeConnReq(job["client"][t].conn))
    BY <1>5 DEF SendFreeConnReq
  <2>3. CASE s = "server"
    BY <2>1, <2>2, <2>3, SendCtlAt
  <2>4. CASE s # "server"
    BY <1>1, <2>2, <2>4, SendCtlAt, SideType
  <2> QED BY <2>3, <2>4
<1>6. ASSUME NEW u \in Side, NEW c \in Proxy, SendShutdown(u, c) PROVE Goal
  <2> DEFINE n == relay[job[u][c].end].tran
  <2>1. job[u][c].pc = "fin" /\ SendCtl(Other(u), ShutdownPeerConn(c, n))
    BY <1>6 DEF SendShutdown
  <2>2. n \in Count
    <3>1. job[u][c] \in Job
      BY Threads DEF TypeOK
    <3>2. job[u][c].end \in Endpoint
      BY <2>1, <3>1, JobType
    <3> QED BY <3>2, RelayType DEF TypeOK
  <2>3. Other(u) \in Side /\ (Other(u) = s => u = Other(s))
    BY Sides, SideType
  <2>4. CASE Other(u) = s
    BY <1>6, <2>1, <2>2, <2>3, <2>4, SendCtlAt
  <2>5. CASE Other(u) # s
    BY <1>1, <2>1, <2>3, <2>5, SendCtlAt
  <2> QED BY <2>4, <2>5
<1>7. /\ \A e \in Endpoint : Send(e) \/ Fin(e) \/ RelayEof(e) \/ RelayPayload(e)
           => ctl' = ctl
      /\ AddWaitProxyConn => ctl' = ctl
      /\ \A p \in Public : ReuseProxyConn(p) => ctl' = ctl
      /\ \A d \in Proxy : NewProxyConn(d) \/ ClaimProxyConn(d) => ctl' = ctl
      /\ \A d \in Proxy : HandleStartProxyConnRsp(d) \/ HandleProxyConnectReq(d)
                            => ctl' = ctl
      /\ \A u \in Side, t \in Thread : CompareCounts(u, t) \/ ShutdownFromRemote(u, t)
                                         => ctl' = ctl
      /\ \A t \in Thread : FreeProxyConn(t) \/ RecycleProxyConn(t) => ctl' = ctl
      /\ \A t \in Thread : StartLocalConn(t) => ctl' = ctl
      /\ \A u \in Side, d \in Proxy : DropPayload(u, d) \/ ReadnGoesOn(u, d)
                                      \/ SplicePayload(u, d)
                                        => ctl' = ctl
  BY ZenonT(30)
     DEF Send, Fin, RelayEof, RelayPayload, AddWaitProxyConn, ReuseProxyConn,
         NewProxyConn, ClaimProxyConn, HandleStartProxyConnRsp, HandleProxyConnectReq,
         ShutdownFromRemote, StartLocalConn, CompareCounts, FreeProxyConn,
         RecycleProxyConn, DropPayload, ReadnGoesOn, SplicePayload
<1>8. ctl' = ctl => Goal
  BY <1>1
<1> HIDE DEF Goal
<1>9. Goal
  BY <1>3, <1>4, <1>5, <1>6, <1>7, <1>8, NextCases
<1> QED BY <1>9 DEF Goal

-----------------------------------------------------------------------------
\* The steps that touch the pool of proxy connections and their channels.

\* proxy_connect_map_, wait_proxy_connect_map_ and free_proxy_connects_.
LEMMA PoolSteps ==
    ASSUME Next
    PROVE  \/ UNCHANGED <<proxyMap, waitMap, pendingWait, freeList>>
           \/ \E p \in Public : ReuseProxyConn(p)
           \/ AddWaitProxyConn
           \/ \E t \in Thread : RecycleProxyConn(t)
           \/ \E c \in Proxy : ClaimProxyConn(c)
           \/ \E c \in Proxy : HandleStartProxyConnRsp(c) /\ c \in waitMap
<1> DEFINE same == UNCHANGED <<proxyMap, waitMap, pendingWait, freeList>>
<1>1. /\ \A e \in Endpoint : Send(e) \/ Fin(e) \/ RelayPayload(e) \/ RelayEof(e)
           => same
      /\ HandleFreeProxyConnReq => same
      /\ \A p \in Public : NotifyClientNeedProxy(p) => same
      /\ \A d \in Proxy : HandleProxyNotify(d) \/ HandleProxyConnectReq(d) => same
      /\ \A u \in Side : HandleShutdownPeerConn(u) => same
      /\ \A d \in Proxy : NewProxyConn(d) => same
      /\ \A u \in Side, t \in Thread : CompareCounts(u, t) \/ ShutdownFromRemote(u, t)
                                         => same
      /\ \A t \in Thread : FreeProxyConn(t) \/ SendFreeConnReq(t) => same
      /\ \A t \in Thread : StartLocalConn(t) => same
      /\ \A u \in Side, d \in Proxy : DropPayload(u, d) \/ ReadnGoesOn(u, d)
                                      \/ SendShutdown(u, d) => same
      /\ \A u \in Side, d \in Proxy : SplicePayload(u, d) => same
      /\ \A d \in Proxy : HandleStartProxyConnRsp(d) /\ d \notin waitMap => same
  BY ZenonT(40) DEF Send, Fin, RelayPayload, RelayEof, HandleStartProxyConnRsp,
         NotifyClientNeedProxy, HandleProxyNotify, HandleProxyConnectReq, NewProxyConn,
         HandleShutdownPeerConn, ShutdownFromRemote, StartLocalConn, SplicePayload,
         HandleFreeProxyConnReq, CompareCounts, FreeProxyConn,
         SendFreeConnReq, DropPayload, ReadnGoesOn, SendShutdown
<1> HIDE DEF same
<1>2. \/ same
      \/ \E p \in Public : ReuseProxyConn(p)
      \/ AddWaitProxyConn
      \/ \E t \in Thread : RecycleProxyConn(t)
      \/ \E c \in Proxy : ClaimProxyConn(c)
      \/ \E c \in Proxy : HandleStartProxyConnRsp(c) /\ c \in waitMap
  BY <1>1, NextCases
<1> QED BY <1>2 DEF same

LEMMA LifeSteps ==
    ASSUME Next
    PROVE  \/ life' = life
           \/ \E c \in Proxy : HandleProxyNotify(c) \/ NewProxyConn(c) \/ ClaimProxyConn(c)
<1>1. /\ \A e \in Endpoint : Send(e) \/ Fin(e) \/ RelayPayload(e) \/ RelayEof(e)
           => life' = life
      /\ AddWaitProxyConn \/ HandleFreeProxyConnReq => life' = life
      /\ \A p \in Public : ReuseProxyConn(p) \/ NotifyClientNeedProxy(p) => life' = life
      /\ \A d \in Proxy : HandleStartProxyConnRsp(d) \/ HandleProxyConnectReq(d)
                            => life' = life
      /\ \A u \in Side : HandleShutdownPeerConn(u) => life' = life
  BY DEF Send, Fin, RelayPayload, RelayEof, AddWaitProxyConn, ReuseProxyConn,
         NotifyClientNeedProxy, HandleStartProxyConnRsp, HandleProxyConnectReq,
         HandleShutdownPeerConn, HandleFreeProxyConnReq
<1>2. /\ \A u \in Side, t \in Thread : CompareCounts(u, t) \/ ShutdownFromRemote(u, t)
                                         => life' = life
      /\ \A t \in Thread : FreeProxyConn(t) \/ RecycleProxyConn(t) \/ SendFreeConnReq(t)
                             => life' = life
      /\ \A t \in Thread : StartLocalConn(t) => life' = life
  BY DEF CompareCounts, ShutdownFromRemote, FreeProxyConn, RecycleProxyConn,
         SendFreeConnReq, StartLocalConn
<1>3. /\ \A u \in Side, d \in Proxy : DropPayload(u, d) \/ ReadnGoesOn(u, d)
                                      \/ SendShutdown(u, d)
                                        => life' = life
      /\ \A u \in Side, d \in Proxy : SplicePayload(u, d) => life' = life
  BY DEF DropPayload, ReadnGoesOn, SendShutdown, SplicePayload
<1> QED BY <1>1, <1>2, <1>3, NextCases

LEMMA RanSteps ==
    ASSUME Next
    PROVE  \/ ran' = ran
           \/ \E c \in Proxy : HandleProxyNotify(c) \/ HandleProxyConnectReq(c)
<1>1. /\ \A e \in Endpoint : Send(e) \/ Fin(e) \/ RelayPayload(e) \/ RelayEof(e)
           => ran' = ran
      /\ AddWaitProxyConn \/ HandleFreeProxyConnReq => ran' = ran
      /\ \A p \in Public : ReuseProxyConn(p) \/ NotifyClientNeedProxy(p) => ran' = ran
      /\ \A d \in Proxy : HandleStartProxyConnRsp(d) \/ ClaimProxyConn(d) => ran' = ran
      /\ \A u \in Side : HandleShutdownPeerConn(u) => ran' = ran
      /\ \A d \in Proxy : NewProxyConn(d) => ran' = ran
  BY DEF Send, Fin, RelayPayload, RelayEof, AddWaitProxyConn, ReuseProxyConn,
         NotifyClientNeedProxy, HandleStartProxyConnRsp, ClaimProxyConn, NewProxyConn,
         HandleShutdownPeerConn, HandleFreeProxyConnReq
<1>2. /\ \A u \in Side, t \in Thread : CompareCounts(u, t) \/ ShutdownFromRemote(u, t)
                                         => ran' = ran
      /\ \A t \in Thread : FreeProxyConn(t) \/ RecycleProxyConn(t) \/ SendFreeConnReq(t)
                             => ran' = ran
      /\ \A t \in Thread : StartLocalConn(t) => ran' = ran
  BY DEF CompareCounts, ShutdownFromRemote, FreeProxyConn, RecycleProxyConn,
         SendFreeConnReq, StartLocalConn
<1>3. /\ \A u \in Side, d \in Proxy : DropPayload(u, d) \/ ReadnGoesOn(u, d)
                                      \/ SendShutdown(u, d)
                                        => ran' = ran
      /\ \A u \in Side, d \in Proxy : SplicePayload(u, d) => ran' = ran
  BY DEF DropPayload, ReadnGoesOn, SendShutdown, SplicePayload
<1> QED BY <1>1, <1>2, <1>3, NextCases

\* What an endpoint has received grows by what is spliced to it; what has been
\* read from it grows by what its relay reads.
LEMMA SockSteps ==
    ASSUME TypeOK, Next, NEW e \in Endpoint
    PROVE  /\ \/ sock'[e].got = sock[e].got
              \/ \E s \in Side, c \in Proxy : SplicePayload(s, c) /\ pconn[s][c].peer = e
           /\ sock'[e].read = sock[e].read \/ RelayPayload(e)
<1> DEFINE Goal ==
           /\ \/ sock'[e].got = sock[e].got
              \/ \E s \in Side, c \in Proxy : SplicePayload(s, c) /\ pconn[s][c].peer = e
           /\ sock'[e].read = sock[e].read \/ RelayPayload(e)
<1>0. \A x \in Endpoint : sock[x] \in Socket
  BY DEF TypeOK
<1>1. ASSUME NEW x \in Endpoint, NEW r, sock' = [sock EXCEPT ![x] = r],
             r.got = sock[x].got, r.read = sock[x].read
      PROVE  Goal
  BY <1>1 DEF TypeOK
<1>2. ASSUME NEW x \in Endpoint, NEW v,
             \/ sock' = [sock EXCEPT ![x] = [sock[x] EXCEPT !.open = v]]
             \/ sock' = [sock EXCEPT ![x] = [sock[x] EXCEPT !.sent = v]]
             \/ sock' = [sock EXCEPT ![x] = [sock[x] EXCEPT !.fin = v]]
             \/ sock' = [sock EXCEPT ![x] = [sock[x] EXCEPT !.eof = v]]
      PROVE  Goal
  <2>1. PICK r \in {[sock[x] EXCEPT !.open = v], [sock[x] EXCEPT !.sent = v],
                    [sock[x] EXCEPT !.fin = v], [sock[x] EXCEPT !.eof = v]} :
          sock' = [sock EXCEPT ![x] = r]
    BY <1>2
  <2>2. r.got = sock[x].got /\ r.read = sock[x].read
    BY <1>0 DEF Socket
  <2> QED BY <1>1, <2>1, <2>2
<1>3. ASSUME NEW x \in Endpoint, Send(x) \/ Fin(x) PROVE Goal
  BY <1>2, <1>3 DEF Send, Fin
<1>4. ASSUME NEW p \in Public, ReuseProxyConn(p) \/ NotifyClientNeedProxy(p) PROVE Goal
  BY <1>2, <1>4, Sides DEF ReuseProxyConn, NotifyClientNeedProxy
<1>5. ASSUME NEW d \in Proxy, HandleProxyNotify(d) \/ HandleProxyConnectReq(d) PROVE Goal
  <2> DEFINE x == <<d, ran[d] + 1>>
  <2>1. ran[d] < MaxSession /\ sock' = [sock EXCEPT ![x] = [sock[x] EXCEPT !.open = TRUE]]
    BY <1>5 DEF HandleProxyNotify, HandleProxyConnectReq, CreateLocalConn
  <2>2. ran[d] \in 0 .. MaxSession
    BY DEF TypeOK
  <2>3. x \in Endpoint
    BY <2>1, <2>2, Sides, Threads, ConstantsAssumption
  <2> QED BY <1>2, <2>1, <2>3
<1>6. ASSUME NEW u \in Side, NEW t \in Thread, ShutdownFromRemote(u, t) PROVE Goal
  <2> DEFINE d == job[u][t].conn
             x == pconn[u][d].peer
  <2>1. job[u][t] \in Job /\ job[u][t].pc = "shut"
    BY <1>6 DEF ShutdownFromRemote, TypeOK
  <2>2. d \in Proxy
    BY <2>1, JobType
  <2>3. x \in Endpoint \cup {None}
    BY <2>2 DEF TypeOK, ProxyConnect
  <2>4. \/ sock' = sock
        \/ x # None /\ sock' = [sock EXCEPT ![x] = [sock[x] EXCEPT !.eof = TRUE]]
    BY <1>6 DEF ShutdownFromRemote
  <2>5. CASE sock' = sock
    BY <2>5
  <2>6. CASE x # None /\ sock' = [sock EXCEPT ![x] = [sock[x] EXCEPT !.eof = TRUE]]
    BY <1>2, <2>3, <2>6
  <2> QED BY <2>4, <2>5, <2>6
<1>7. ASSUME NEW x \in Endpoint, RelayPayload(x) PROVE Goal
  <2>1. PICK k : sock' = [sock EXCEPT ![x] = [sock[x] EXCEPT !.read = k]]
    BY <1>7 DEF RelayPayload
  <2>2. [sock[x] EXCEPT !.read = k].got = sock[x].got
    BY <1>0 DEF Socket
  <2>3. CASE x = e
    BY <1>7, <2>1, <2>2, <2>3 DEF TypeOK
  <2>4. CASE x # e
    BY <2>1, <2>4 DEF TypeOK
  <2> QED BY <2>3, <2>4
<1>8. ASSUME NEW u \in Side, NEW d \in Proxy, SplicePayload(u, d) PROVE Goal
  <2> DEFINE x == pconn[u][d].peer
  <2>1. PICK k : sock' = [sock EXCEPT ![x] = [sock[x] EXCEPT !.got = k]]
    BY <1>8 DEF SplicePayload
  <2>2. CASE x = e
    <3>1. [sock[e] EXCEPT !.got = k].read = sock[e].read
      BY <1>0 DEF Socket
    <3> QED BY <1>8, <2>1, <2>2, <3>1 DEF TypeOK
  <2>3. CASE x # e
    BY <2>1, <2>3 DEF TypeOK
  <2> QED BY <2>2, <2>3
<1>9. /\ \A x \in Endpoint : RelayEof(x) => sock' = sock
      /\ AddWaitProxyConn \/ HandleFreeProxyConnReq => sock' = sock
      /\ \A d \in Proxy : HandleStartProxyConnRsp(d) \/ ClaimProxyConn(d) => sock' = sock
      /\ \A u \in Side : HandleShutdownPeerConn(u) => sock' = sock
      /\ \A d \in Proxy : NewProxyConn(d) => sock' = sock
      /\ \A u \in Side, t \in Thread : CompareCounts(u, t) => sock' = sock
      /\ \A t \in Thread : FreeProxyConn(t) \/ RecycleProxyConn(t) \/ SendFreeConnReq(t)
                             => sock' = sock
      /\ \A t \in Thread : StartLocalConn(t) => sock' = sock
      /\ \A u \in Side, d \in Proxy : DropPayload(u, d) \/ ReadnGoesOn(u, d)
                                      \/ SendShutdown(u, d)
                                        => sock' = sock
  BY DEF RelayEof, AddWaitProxyConn,
         HandleStartProxyConnRsp, ClaimProxyConn, NewProxyConn,
         HandleShutdownPeerConn, StartLocalConn,
         HandleFreeProxyConnReq, CompareCounts, FreeProxyConn, RecycleProxyConn,
         SendFreeConnReq, DropPayload, ReadnGoesOn, SendShutdown
<1>10. sock' = sock => Goal
  OBVIOUS
<1> HIDE DEF Goal
<1>11. Goal
  BY <1>3, <1>4, <1>5, <1>6, <1>7, <1>8, <1>9, <1>10, NextCases
<1> QED BY <1>11 DEF Goal

-----------------------------------------------------------------------------
\* Who works for whom: workers, local connections and the two ends of a
\* ProxyConnect.

Last(q) == q[Len(q)]
IsBound(p) == \E c \in Proxy : Has(bound[c], {p})

\* A worker works for its own connection.
OwnJobs == \A s \in Side, c \in Proxy : job[s][c].conn \in {c, None}

\* A local connection feeds the connection it was opened for.
OwnRuns ==
    \A t \in Thread : job["client"][t].pc = "run" =>
        /\ job["client"][t].end \in Local
        /\ job["client"][t].end[1] = job["client"][t].conn
OwnRelays == \A z \in Local : relay[z].conn \in {z[1], None}

\* conn2fd_ of a started ProxyConnect.
OwnPeers ==
    \A c \in Proxy :
      /\ pconn["client"][c].start => pconn["client"][c].peer \in Local
      /\ pconn["server"][c].start =>
           bound[c] # <<>> /\ pconn["server"][c].peer = Last(bound[c])

\* Only a bound public fd receives anything.
OwnGot == \A p \in Public : ~IsBound(p) => sock[p].got = <<>>

Owners == OwnJobs /\ OwnRuns /\ OwnRelays /\ OwnPeers /\ OwnGot

LEMMA BoundGrows ==
    ASSUME TypeOK, Next
    PROVE  \A c \in Proxy :
             /\ bound[c] \in Seq(Public) /\ bound'[c] \in Seq(Public)
             /\ \/ bound'[c] = bound[c]
                \/ \E p \in Public : Binds(c, p) /\ bound'[c] = Append(bound[c], p)
             /\ \A p : Binds(c, p) => bound'[c] = Append(bound[c], p)
             /\ \A p : Has(bound[c], {p}) => Has(bound'[c], {p})
<1> SUFFICES ASSUME NEW c \in Proxy
             PROVE  /\ bound[c] \in Seq(Public) /\ bound'[c] \in Seq(Public)
                    /\ \/ bound'[c] = bound[c]
                       \/ \E p \in Public : Binds(c, p) /\ bound'[c] = Append(bound[c], p)
                    /\ \A p : Binds(c, p) => bound'[c] = Append(bound[c], p)
                    /\ \A p : Has(bound[c], {p}) => Has(bound'[c], {p})
  OBVIOUS
<1>1. bound[c] \in Seq(Public)
  BY DEF TypeOK
<1>2. \/ bound'[c] = bound[c]
      \/ \E p \in Public : Binds(c, p) /\ bound'[c] = Append(bound[c], p)
  <2>1. CASE bound' = bound
    BY <2>1
  <2>2. ASSUME NEW d \in Proxy, NEW p \in Public, Binds(d, p),
               bound' = [bound EXCEPT ![d] = Append(@, p)]
        PROVE  \/ bound'[c] = bound[c]
               \/ Binds(c, p) /\ bound'[c] = Append(bound[c], p)
    <3>1. CASE c = d
      BY <2>2, <3>1 DEF TypeOK
    <3>2. CASE c # d
      BY <2>2, <3>2 DEF TypeOK
    <3> QED BY <3>1, <3>2
  <2> QED BY <2>1, <2>2, BoundSteps
<1>3. \A p : Binds(c, p) => bound'[c] = Append(bound[c], p)
  BY DEF Binds, BindPublicFd, TypeOK
<1>4. \A p : Has(bound[c], {p}) => Has(bound'[c], {p})
  <2>1. ASSUME NEW x \in Public, NEW p, Has(bound[c], {p}) PROVE Has(Append(bound[c], x), {p})
    <3>1. /\ Len(Append(bound[c], x)) = Len(bound[c]) + 1 /\ Len(bound[c]) \in Nat
          /\ \A i \in 1 .. Len(bound[c]) : Append(bound[c], x)[i] = bound[c][i]
      BY <1>1
    <3> QED BY <2>1, <3>1 DEF Has
  <2> QED BY <1>2, <2>1
<1>5. bound'[c] \in Seq(Public)
  BY <1>1, <1>2, SeqType
<1> QED BY <1>1, <1>2, <1>3, <1>4, <1>5

LEMMA JobFields ==
    /\ Idle.pc = "idle" /\ Idle.conn = None
    /\ \A pc, c : Doing(pc, c).pc = pc /\ Doing(pc, c).conn = c
    /\ \A c, e : Runs(c, e).pc = "run" /\ Runs(c, e).conn = c /\ Runs(c, e).end = e
    /\ \A c, e : Fins(c, e).pc = "fin" /\ Fins(c, e).conn = c /\ Fins(c, e).end = e
BY DEF Idle, Doing, Runs, Fins

\* The same, field by field.
LEMMA JobCases ==
    ASSUME NEW s, NEW t, NEW k, JobStep(s, t, k)
    PROVE  LET j == job[s][t] IN
           \/ k = j
           \/ k = Idle /\ (j.pc # "run" \/ (s = "client" /\ StartLocalConn(t)))
           \/ /\ k.pc = "run" /\ s = "client" /\ j = Idle
              /\ k.conn \in Proxy
              /\ \/ t = Main /\ life[k.conn] = "absent"
                 \/ t = k.conn /\ NextMsg("client", t, "req")
              /\ k.end = <<k.conn, ran[k.conn] + 1>>
              /\ ran' = [ran EXCEPT ![k.conn] = @ + 1]
              /\ ran[k.conn] < MaxSession
           \/ /\ k.pc \in {"compare", "free"} /\ t = Main /\ j = Idle
              /\ ctl[s] # <<>> /\ k.conn = Head(ctl[s]).conn
              /\ Head(ctl[s]).kind \in {"shutdown", "free"}
           \/ /\ k.pc \in {"shut", "free"} /\ k.conn = j.conn
              /\ j.pc \in {"compare", "shut"}
           \/ /\ k.pc = "push" /\ k.conn = j.conn /\ j.pc = "free" /\ s = "server"
              /\ k.conn \in proxyMap /\ ~pconn["server"][k.conn].start
           \/ /\ k.pc = "compare" /\ k.conn = t /\ t \in Proxy /\ j = Idle
              /\ Readable(s, t) /\ pconn[s][t].start
           \/ /\ k.pc = "fin" /\ k.conn = t /\ t \in Proxy /\ j = Idle
              /\ k.end \in Endpoint /\ relay[k.end].conn = t /\ SideOf(k.end) = s
<1>0. JobStep(s, t, k)
  OBVIOUS
<1> DEFINE Goal ==
           \/ k = job[s][t]
           \/ k = Idle /\ (job[s][t].pc # "run" \/ (s = "client" /\ StartLocalConn(t)))
           \/ /\ k.pc = "run" /\ s = "client" /\ job[s][t] = Idle
              /\ k.conn \in Proxy
              /\ \/ t = Main /\ life[k.conn] = "absent"
                 \/ t = k.conn /\ NextMsg("client", t, "req")
              /\ k.end = <<k.conn, ran[k.conn] + 1>>
              /\ ran' = [ran EXCEPT ![k.conn] = @ + 1]
              /\ ran[k.conn] < MaxSession
           \/ /\ k.pc \in {"compare", "free"} /\ t = Main /\ job[s][t] = Idle
              /\ ctl[s] # <<>> /\ k.conn = Head(ctl[s]).conn
              /\ Head(ctl[s]).kind \in {"shutdown", "free"}
           \/ /\ k.pc \in {"shut", "free"} /\ k.conn = job[s][t].conn
              /\ job[s][t].pc \in {"compare", "shut"}
           \/ /\ k.pc = "push" /\ k.conn = job[s][t].conn /\ job[s][t].pc = "free" /\ s = "server"
              /\ k.conn \in proxyMap /\ ~pconn["server"][k.conn].start
           \/ /\ k.pc = "compare" /\ k.conn = t /\ t \in Proxy /\ job[s][t] = Idle
              /\ Readable(s, t) /\ pconn[s][t].start
           \/ /\ k.pc = "fin" /\ k.conn = t /\ t \in Proxy /\ job[s][t] = Idle
              /\ k.end \in Endpoint /\ relay[k.end].conn = t /\ SideOf(k.end) = s
<1>1. ASSUME k = job[s][t] \/ (k = Idle /\ (job[s][t].pc # "run" \/ (s = "client" /\ StartLocalConn(t))))
      PROVE  Goal
  BY <1>1
<1>2. ASSUME s = "client", job[s][t] = Idle,
             \E c \in Proxy :
               /\ \/ t = Main /\ life[c] = "absent"
                  \/ t = c /\ NextMsg("client", c, "req")
               /\ k = Runs(c, <<c, ran[c] + 1>>)
               /\ ran' = [ran EXCEPT ![c] = @ + 1]
               /\ ran[c] < MaxSession
      PROVE  Goal
  <2>1. PICK c \in Proxy :
               /\ \/ t = Main /\ life[c] = "absent"
                  \/ t = c /\ NextMsg("client", c, "req")
               /\ k = Runs(c, <<c, ran[c] + 1>>)
               /\ ran' = [ran EXCEPT ![c] = @ + 1]
               /\ ran[c] < MaxSession
    BY <1>2
  <2>2. k.pc = "run" /\ k.conn = c /\ k.end = <<c, ran[c] + 1>>
    BY <2>1, JobFields
  <2> QED BY <1>2, <2>1, <2>2
<1>3. ASSUME NEW pc, NEW c, k = Doing(pc, c)
      PROVE  k.pc = pc /\ k.conn = c
  BY <1>3, JobFields
<1>4. ASSUME /\ t = Main /\ job[s][t] = Idle /\ ctl[s] # <<>>
             /\ \/ k = Doing("compare", Head(ctl[s]).conn) /\ Head(ctl[s]).kind = "shutdown"
                \/ s = "server" /\ Head(ctl[s]).kind = "free" /\ k = Doing("free", Head(ctl[s]).conn)
      PROVE  Goal
  <2>1. k.conn = Head(ctl[s]).conn /\ k.pc \in {"compare", "free"}
    BY <1>3, <1>4
  <2> QED BY <1>4, <2>1
<1>5. ASSUME \/ job[s][t].pc = "compare" /\ k = Doing("shut", job[s][t].conn)
             \/ job[s][t].pc = "shut" /\ k = Doing("free", job[s][t].conn)
      PROVE  Goal
  BY <1>3, <1>5
<1>6. ASSUME s = "server", job[s][t].pc = "free", k = Doing("push", job[s][t].conn),
             job[s][t].conn \in proxyMap, ~pconn["server"][job[s][t].conn].start
      PROVE  Goal
  BY <1>3, <1>6
<1>7. ASSUME t \in Proxy, job[s][t] = Idle, k = Doing("compare", t),
             Readable(s, t), pconn[s][t].start
      PROVE  Goal
  BY <1>3, <1>7
<1>8. ASSUME t \in Proxy, job[s][t] = Idle,
             \E e \in Endpoint : relay[e].conn = t /\ SideOf(e) = s /\ k = Fins(t, e)
      PROVE  Goal
  <2>1. PICK e \in Endpoint : relay[e].conn = t /\ SideOf(e) = s /\ k = Fins(t, e)
    BY <1>8
  <2>2. k.pc = "fin" /\ k.conn = t /\ k.end = e
    BY <2>1, JobFields
  <2> QED BY <1>8, <2>1, <2>2
<1> HIDE DEF Goal
<1>9. \/ k = job[s][t] \/ (k = Idle /\ (job[s][t].pc # "run" \/ (s = "client" /\ StartLocalConn(t))))
      \/ /\ s = "client" /\ job[s][t] = Idle
         /\ \E c \in Proxy :
               /\ \/ t = Main /\ life[c] = "absent"
                  \/ t = c /\ NextMsg("client", c, "req")
               /\ k = Runs(c, <<c, ran[c] + 1>>)
               /\ ran' = [ran EXCEPT ![c] = @ + 1]
               /\ ran[c] < MaxSession
      \/ /\ t = Main /\ job[s][t] = Idle /\ ctl[s] # <<>>
         /\ \/ k = Doing("compare", Head(ctl[s]).conn) /\ Head(ctl[s]).kind = "shutdown"
            \/ s = "server" /\ Head(ctl[s]).kind = "free" /\ k = Doing("free", Head(ctl[s]).conn)
      \/ \/ job[s][t].pc = "compare" /\ k = Doing("shut", job[s][t].conn)
         \/ job[s][t].pc = "shut" /\ k = Doing("free", job[s][t].conn)
      \/ /\ s = "server" /\ job[s][t].pc = "free" /\ k = Doing("push", job[s][t].conn)
         /\ job[s][t].conn \in proxyMap /\ ~pconn["server"][job[s][t].conn].start
      \/ /\ t \in Proxy /\ job[s][t] = Idle /\ k = Doing("compare", t)
         /\ Readable(s, t) /\ pconn[s][t].start
      \/ /\ t \in Proxy /\ job[s][t] = Idle
         /\ \E e \in Endpoint : relay[e].conn = t /\ SideOf(e) = s /\ k = Fins(t, e)
  BY <1>0 DEF JobStep
<1>10. Goal
  BY <1>1, <1>2, <1>4, <1>5, <1>6, <1>7, <1>8, <1>9
<1> QED BY <1>10 DEF Goal

LEMMA JobMoves ==
    ASSUME TypeOK, Next
    PROVE  \/ UNCHANGED <<job, raced>>
           \/ \E s \in Side, t \in Thread : \E k : SetJob(s, t, k)
<1> USE Sides, Threads, SideType
<1> DEFINE same == UNCHANGED <<job, raced>>
           set == \E s \in Side, t \in Thread : \E k : SetJob(s, t, k)
<1>1. /\ \A e \in Endpoint : Send(e) \/ Fin(e) \/ RelayPayload(e) => same
      /\ AddWaitProxyConn => same
      /\ \A p \in Public : ReuseProxyConn(p) \/ NotifyClientNeedProxy(p) => same
      /\ \A c \in Proxy : NewProxyConn(c) \/ ClaimProxyConn(c) => same
      /\ \A c \in Proxy : HandleStartProxyConnRsp(c) => same
      /\ \A u \in Side, c \in Proxy : DropPayload(u, c) \/ ReadnGoesOn(u, c) => same
  BY DEF Send, Fin, RelayPayload, AddWaitProxyConn, ReuseProxyConn,
         NotifyClientNeedProxy, NewProxyConn, ClaimProxyConn,
         HandleStartProxyConnRsp, DropPayload, ReadnGoesOn
<1>2. /\ \A c \in Proxy : HandleProxyNotify(c) \/ HandleProxyConnectReq(c) => set
      /\ \A u \in Side : HandleShutdownPeerConn(u) => same \/ set
      /\ HandleFreeProxyConnReq => set
  BY DEF HandleProxyNotify, HandleProxyConnectReq, HandleShutdownPeerConn,
         HandleFreeProxyConnReq
<1>3. /\ \A u \in Side, t \in Thread : CompareCounts(u, t) \/ ShutdownFromRemote(u, t) => set
  BY DEF CompareCounts, ShutdownFromRemote
<1>6. /\ \A t \in Thread : FreeProxyConn(t) \/ RecycleProxyConn(t) => set
      /\ \A t \in Thread : SendFreeConnReq(t) \/ StartLocalConn(t) => set
  BY DEF FreeProxyConn, RecycleProxyConn, SendFreeConnReq, StartLocalConn
<1>7. \A u \in Side, c \in Proxy : SendShutdown(u, c) \/ SplicePayload(u, c) => set
  BY DEF SendShutdown, SplicePayload
<1>4. ASSUME NEW e \in Endpoint, RelayEof(e) PROVE same \/ set
  <2>1. SideOf(e) \in Side /\ relay[e].conn \in Thread
    BY <1>4, RelayType DEF RelayEof, RelayReadable, TypeOK
  <2> QED BY <1>4, <2>1 DEF RelayEof
<1> HIDE DEF same, set
<1>5. same \/ set
  BY <1>1, <1>2, <1>3, <1>4, <1>6, <1>7, NextCases
<1> QED BY <1>5 DEF same, set

LEMMA OwnersStep ==
    ASSUME TypeOK, Owners, Next
    PROVE  Owners'
<1> USE Sides, Threads, SideType
<1>0. TypeOK /\ OwnJobs /\ OwnRuns /\ OwnRelays /\ OwnPeers /\ OwnGot
  BY DEF Owners
<1>1. OwnJobs'
  <2> SUFFICES ASSUME NEW s \in Side, NEW c \in Proxy
               PROVE  job'[s][c].conn \in {c, None}
    BY DEF OwnJobs
  <2>1. JobStep(s, c, job'[s][c])
    BY JobSteps
  <2>2. job[s][c].conn \in {c, None} /\ c # Main
    BY <1>0 DEF OwnJobs
  <2> QED BY <2>1, <2>2, JobCases, JobFields
<1>2. OwnRuns'
  <2> SUFFICES ASSUME NEW t \in Thread, job'["client"][t].pc = "run"
               PROVE  /\ job'["client"][t].end \in Local
                      /\ job'["client"][t].end[1] = job'["client"][t].conn
    BY DEF OwnRuns
  <2> DEFINE k == job'["client"][t]
  <2>1. JobStep("client", t, k)
    BY JobSteps
  <2>2. \/ k = job["client"][t]
        \/ /\ k.conn \in Proxy /\ k.end = <<k.conn, ran[k.conn] + 1>>
           /\ ran[k.conn] < MaxSession
    BY <2>1, JobCases, JobFields
  <2>3. CASE k = job["client"][t]
    BY <1>0, <2>3 DEF OwnRuns
  <2>4. CASE /\ k.conn \in Proxy /\ k.end = <<k.conn, ran[k.conn] + 1>>
             /\ ran[k.conn] < MaxSession
    <3>1. ran[k.conn] \in 0 .. MaxSession
      BY <2>4 DEF TypeOK
    <3>2. ran[k.conn] + 1 \in 1 .. MaxSession
      BY <2>4, <3>1, ConstantsAssumption
    <3> QED BY <2>4, <3>2 DEF Local
  <2> QED BY <2>2, <2>3, <2>4
<1>3. OwnRelays'
  <2> SUFFICES ASSUME NEW z \in Local
               PROVE  relay'[z].conn \in {z[1], None}
    BY DEF OwnRelays
  <2>1. relay[z].conn \in {z[1], None} /\ z \in Endpoint /\ z \notin Public
    BY <1>0 DEF OwnRelays
  <2>2. ASSUME NEW t \in Thread, Starts(t), job["client"][t].end = z,
               relay'[z].conn = job["client"][t].conn
        PROVE  relay'[z].conn = z[1]
    BY <1>0, <2>2 DEF Starts, OwnRuns
  <2> QED BY <2>1, <2>2, RelaySteps
<1>4. OwnPeers'
  <2> SUFFICES ASSUME NEW c \in Proxy
               PROVE  /\ pconn'["client"][c].start => pconn'["client"][c].peer \in Local
                      /\ pconn'["server"][c].start =>
                           bound'[c] # <<>> /\ pconn'["server"][c].peer = Last(bound'[c])
    BY DEF OwnPeers
  <2>1. ASSUME pconn'["client"][c].start PROVE pconn'["client"][c].peer \in Local
    <3>1. ASSUME NEW t \in Thread, Starts(t), job["client"][t].conn = c
          PROVE  pconn'["client"][c].peer \in Local
      <4>1. Run("client", c, job["client"][t].end) /\ job["client"][t].end \in Local
        BY <1>0, <3>1 DEF Starts, StartLocalConn, OwnRuns
      <4> QED BY <4>1, RunAt
    <3>2. CASE Kept(pconn["client"][c], pconn'["client"][c])
      BY <1>0, <2>1, <3>2 DEF Kept, OwnPeers
    <3> QED BY <3>1, <3>2, ConnSteps
  <2>2. ASSUME NEW p \in Public, Binds(c, p)
        PROVE  bound'[c] # <<>> /\ pconn'["server"][c].peer = Last(bound'[c])
    <3>1. Run("server", c, p) /\ bound'[c] = Append(bound[c], p) /\ bound[c] \in Seq(Public)
      BY <2>2, BoundGrows DEF Binds, BindPublicFd
    <3>2. pconn'["server"][c].peer = p
      BY <3>1, RunAt
    <3>3. bound'[c] # <<>> /\ bound'[c][Len(bound'[c])] = p
      BY <3>1
    <3> QED BY <3>2, <3>3 DEF Last
  <2>3. ASSUME pconn'["server"][c].start
        PROVE  bound'[c] # <<>> /\ pconn'["server"][c].peer = Last(bound'[c])
    <3>1. CASE \E p \in Public : Binds(c, p)
      BY <2>2, <3>1
    <3>2. CASE Kept(pconn["server"][c], pconn'["server"][c]) /\ bound'[c] = bound[c]
      BY <1>0, <2>3, <3>2 DEF Kept, OwnPeers
    <3> QED BY <3>1, <3>2, ConnSteps, BoundGrows
  <2> QED BY <2>1, <2>3
<1>5. OwnGot'
  <2> SUFFICES ASSUME NEW p \in Public, ~IsBound(p)'
               PROVE  sock'[p].got = <<>>
    BY DEF OwnGot
  <2>1. ~IsBound(p)
    BY BoundGrows DEF IsBound
  <2>2. sock[p].got = <<>>
    BY <1>0, <2>1 DEF OwnGot
  <2>3. ASSUME NEW s \in Side, NEW c \in Proxy, SplicePayload(s, c), pconn[s][c].peer = p
        PROVE  FALSE
    <3>1. pconn[s][c].start
      BY <2>3 DEF SplicePayload
    <3>2. s = "server"
      BY <1>0, <2>3, <3>1 DEF OwnPeers
    <3>3. bound[c] # <<>> /\ p = bound[c][Len(bound[c])] /\ bound[c] \in Seq(Public)
      BY <1>0, <2>3, <3>1, <3>2 DEF OwnPeers, Last, TypeOK
    <3>4. Len(bound[c]) \in 1 .. Len(bound[c])
      BY <3>3
    <3>5. Has(bound[c], {p})
      BY <3>3, <3>4 DEF Has
    <3> QED BY <2>1, <3>5 DEF IsBound
  <2>4. sock'[p].got = sock[p].got
    BY <2>3, SockSteps
  <2> QED BY <2>2, <2>4
<1> QED BY <1>1, <1>2, <1>3, <1>4, <1>5 DEF Owners

-----------------------------------------------------------------------------
BothComplete ==
    \A s \in Side, c \in Proxy, t, u \in Thread :
      t # u /\ Completing(job[s][t], c) /\ Completing(job[s][u], c) => c \in raced

LEMMA SetJobRaces ==
    ASSUME TypeOK, BothComplete, NEW s \in Side, NEW t \in Thread, NEW k, SetJob(s, t, k)
    PROVE  BothComplete'
<1> SUFFICES ASSUME NEW r \in Side, NEW c \in Proxy, NEW u \in Thread, NEW v \in Thread,
                    u # v, Completing(job'[r][u], c), Completing(job'[r][v], c)
             PROVE  c \in raced'
  BY DEF BothComplete, Completing
<1>1. CASE r = s /\ u = t
  BY <1>1, JobAt
<1>2. CASE r = s /\ v = t
  BY <1>2, JobAt
<1>3. CASE r # s \/ (u # t /\ v # t)
  BY <1>3, JobAt DEF BothComplete
<1> QED BY <1>1, <1>2, <1>3

LEMMA BothCompleteStep ==
    ASSUME TypeOK, BothComplete, Next
    PROVE  BothComplete' /\ raced \subseteq raced'
<1>1. CASE UNCHANGED <<job, raced>>
  BY <1>1 DEF BothComplete, Completing
<1>2. ASSUME NEW s \in Side, NEW t \in Thread, NEW k, SetJob(s, t, k)
      PROVE  BothComplete' /\ raced \subseteq raced'
  BY <1>2, SetJobRaces, JobAt
<1> QED BY <1>1, <1>2, JobMoves

-----------------------------------------------------------------------------
\* The places of a proxy connection in the pool.

\* The elements of one kind.
OfKind(k) == {x \in Elem : x.kind = k}
Requests(c) == Has(stream["client"][c], OfKind("req"))
Answers(c) == Has(stream["server"][c], OfKind("rsp"))
Offers(c) == Has(stream["server"][c], OfKind("meta"))
Free(c) == Has(freeList, {c})
Awaited(c) == pendingWait = c \/ c \in waitMap
Pushing(t, c) == job["server"][t].pc = "push" /\ job["server"][t].conn = c

NotInUse(c) ==
    /\ c \notin proxyMap /\ ~Awaited(c) /\ ~Free(c)
    /\ ~Requests(c) /\ ~Answers(c)
    /\ ~pconn["server"][c].start
    /\ \A t \in Thread : ~Pushing(t, c)
    /\ bound[c] = <<>>

\* Only a claimed connection is in use.
Claimed == \A c \in Proxy : life[c] # "claimed" => NotInUse(c)

LEMMA PoolGrows ==
    ASSUME TypeOK, Next, NEW c \in Proxy
    PROVE  /\ c \in proxyMap' => c \in proxyMap \/ \E p \in Public : Binds(c, p)
           /\ pendingWait' = c => pendingWait = c \/ Free(c)
           /\ c \in waitMap' => c \in waitMap \/ pendingWait = c
           /\ Free(c)' => Free(c) \/ \E t \in Thread : Pushing(t, c)
<1> USE Threads
<1> DEFINE Goal ==
           /\ c \in proxyMap' => c \in proxyMap \/ \E p \in Public : Binds(c, p)
           /\ pendingWait' = c => pendingWait = c \/ Free(c)
           /\ c \in waitMap' => c \in waitMap \/ pendingWait = c
           /\ Free(c)' => Free(c) \/ \E t \in Thread : Pushing(t, c)
<1>0. freeList \in Seq(Proxy)
  BY DEF TypeOK
<1>1. ASSUME UNCHANGED <<proxyMap, waitMap, pendingWait, freeList>> PROVE Goal
  BY <1>1 DEF Free
<1>2. ASSUME NEW p \in Public, ReuseProxyConn(p) PROVE Goal
  <2> DEFINE d == freeList[Len(freeList)]
  <2>1. /\ freeList # <<>> /\ pendingWait' = d /\ freeList' = PopBack(freeList)
        /\ proxyMap' = proxyMap /\ waitMap' = waitMap
    BY <1>2 DEF ReuseProxyConn
  <2>2. d \in {c} => Free(c)
    BY <1>0, <2>1, OncePopBack DEF Free
  <2>3. Free(c)' => Free(c)
    BY <1>0, <2>1, OncePopBack DEF Free, Shrinks
  <2> QED BY <2>1, <2>2, <2>3
<1>3. ASSUME AddWaitProxyConn PROVE Goal
  BY <1>3 DEF AddWaitProxyConn, Free
<1>4. ASSUME NEW t \in Thread, RecycleProxyConn(t) PROVE Goal
  <2> DEFINE d == job["server"][t].conn
  <2>1. /\ proxyMap' = proxyMap \ {d} /\ freeList' = Append(freeList, d)
        /\ job["server"][t].pc = "push"
        /\ waitMap' = waitMap /\ pendingWait' = pendingWait
    BY <1>4 DEF RecycleProxyConn
  <2>2. d \in Proxy
    BY <2>1, JobType, SideType DEF TypeOK
  <2>3. Free(c)' => Free(c) \/ c = d
    BY <1>0, <2>1, <2>2, OnceAppend DEF Free, Shrinks
  <2>4. c = d => Pushing(t, c)
    BY <2>1 DEF Pushing
  <2> QED BY <2>1, <2>3, <2>4
<1>5. ASSUME NEW d \in Proxy,
             ClaimProxyConn(d) \/ (HandleStartProxyConnRsp(d) /\ d \in waitMap)
      PROVE  Goal
  <2>1. \E p \in Public : Binds(d, p)
    BY <1>5, Bindings
  <2>2. /\ proxyMap' = proxyMap \cup {d} /\ waitMap' \subseteq waitMap
        /\ freeList' = freeList /\ pendingWait' = pendingWait
    BY <1>5 DEF ClaimProxyConn, HandleStartProxyConnRsp, BindPublicFd
  <2> QED BY <2>1, <2>2 DEF Free
<1> HIDE DEF Goal
<1>6. Goal
  BY <1>1, <1>2, <1>3, <1>4, <1>5, PoolSteps
<1> QED BY <1>6 DEF Goal

LEMMA Kinds ==
    /\ \A p \in Public : /\ ConnectReq(p) \notin OfKind("meta") \cup OfKind("rsp")
                         /\ ConnectRsp(p) \notin OfKind("meta") \cup OfKind("req")
                         /\ ConnectReq(p) \in OfKind("req")
                         /\ ConnectRsp(p) \in OfKind("rsp")
    /\ MetaSet \in OfKind("meta")
    /\ MetaSet \notin OfKind("rsp") \cup OfKind("req")
    /\ \A k : \A x \in Elem : x \in OfKind(k) <=> x.kind = k
BY ElemType DEF OfKind, ConnectReq, ConnectRsp, MetaSet

\* New requests, answers and offers.
LEMMA KindSteps ==
    ASSUME TypeOK, Next, NEW c \in Proxy
    PROVE  /\ \/ Shrinks(stream["client"][c], stream'["client"][c], OfKind("req"))
              \/ \E p \in Public : ReuseProxyConn(p) /\ c = freeList[Len(freeList)]
           /\ \/ Shrinks(stream["server"][c], stream'["server"][c], OfKind("rsp"))
              \/ HandleProxyConnectReq(c)
           /\ \/ Shrinks(stream["server"][c], stream'["server"][c], OfKind("meta"))
              \/ HandleProxyNotify(c)
<1> USE SideType, Sides
<1>1. \A s \in Side : stream[s][c] \in Seq(Elem)
  BY DEF TypeOK
<1>2. ASSUME NEW s \in Side, NEW r, Grows(s, c, r), Payload(r), NEW k \in {"req", "rsp", "meta"}
      PROVE  Shrinks(stream[s][c], stream'[s][c], OfKind(k))
  <2>1. \A i \in 1 .. Len(r) : r[i] \notin OfKind(k)
    BY <1>2, SeqType, Kinds DEF Payload
  <2> QED BY <1>1, <1>2, <2>1, OnceConcat DEF Grows, Payload
<1>3. ASSUME NEW s \in Side, NEW x \in Elem, NEW k, x \notin OfKind(k),
             stream'[s][c] = Append(stream[s][c], x)
      PROVE  Shrinks(stream[s][c], stream'[s][c], OfKind(k))
  BY <1>1, <1>3, OnceAppend
<1>4. \/ Shrinks(stream["client"][c], stream'["client"][c], OfKind("req"))
      \/ \E p \in Public : ReuseProxyConn(p) /\ c = freeList[Len(freeList)]
  BY <1>2, StreamSteps
<1>5. \/ Shrinks(stream["server"][c], stream'["server"][c], OfKind("rsp"))
      \/ HandleProxyConnectReq(c)
  BY <1>2, <1>3, StreamSteps, Kinds, ElemType
<1>6. \/ Shrinks(stream["server"][c], stream'["server"][c], OfKind("meta"))
      \/ HandleProxyNotify(c)
  BY <1>2, <1>3, StreamSteps, Kinds, ElemType
<1> QED BY <1>4, <1>5, <1>6

LEMMA HeadHas ==
    ASSUME NEW q \in Seq(Elem), q # <<>>
    PROVE  Has(q, OfKind(Head(q).kind))
<1>1. Head(q) \in OfKind(Head(q).kind)
  BY SeqType DEF OfKind
<1> QED BY <1>1, OnceTail

LEMMA ClaimedStep ==
    ASSUME TypeOK, Claimed, Next
    PROVE  Claimed'
<1> USE Sides, Threads, SideType
<1> SUFFICES ASSUME NEW c \in Proxy, life'[c] # "claimed"
             PROVE  NotInUse(c)'
  BY DEF Claimed
<1>1. life[c] # "claimed" /\ ~ClaimProxyConn(c)
  <2>1. ~ClaimProxyConn(c)
    BY DEF ClaimProxyConn, TypeOK
  <2>2. \A d \in Proxy : HandleProxyNotify(d) \/ NewProxyConn(d) => life'[c] = life[c] \/ life[c] # "claimed"
    BY DEF HandleProxyNotify, NewProxyConn, CreateProxyConn, TypeOK
  <2>3. \A d \in Proxy : ClaimProxyConn(d) => life'[c] = life[c]
    BY <2>1 DEF ClaimProxyConn, TypeOK
  <2> QED BY <2>1, <2>2, <2>3, LifeSteps
<1>2. NotInUse(c)
  BY <1>1 DEF Claimed
<1>3. stream["server"][c] \in Seq(Elem) /\ stream["client"][c] \in Seq(Elem)
  BY DEF TypeOK
<1>4. \A p : ~Binds(c, p)
  BY <1>1, <1>2, <1>3, HeadHas DEF Binds, NotInUse, Answers
<1>5. c \notin proxyMap' /\ ~Awaited(c)' /\ ~Free(c)'
  BY <1>2, <1>4, PoolGrows DEF NotInUse, Awaited
<1>6. ~Requests(c)'
  <2>1. ASSUME NEW p \in Public, ReuseProxyConn(p), c = freeList[Len(freeList)]
        PROVE  FALSE
    <3>1. freeList \in Seq(Proxy) /\ freeList # <<>>
      BY <2>1 DEF ReuseProxyConn, TypeOK
    <3>2. Free(c)
      BY <2>1, <3>1, OncePopBack DEF Free
    <3> QED BY <1>2, <3>2 DEF NotInUse
  <2> QED BY <1>2, <2>1, KindSteps DEF NotInUse, Requests, Shrinks
<1>7. ~Answers(c)'
  <2>1. ~HandleProxyConnectReq(c)
    BY <1>2, <1>3, HeadHas DEF HandleProxyConnectReq, NextMsg, Readable, NotInUse, Requests
  <2> QED BY <1>2, <2>1, KindSteps DEF NotInUse, Answers, Shrinks
<1>8. ~pconn'["server"][c].start
  BY <1>2, <1>4, ConnSteps DEF NotInUse, Kept
<1>9. \A t \in Thread : ~Pushing(t, c)'
  <2> SUFFICES ASSUME NEW t \in Thread PROVE ~Pushing(t, c)'
    OBVIOUS
  <2>1. JobStep("server", t, job'["server"][t]) /\ ~Pushing(t, c)
    BY <1>2, JobSteps DEF NotInUse
  <2> QED BY <1>2, <2>1, JobCases, JobFields DEF NotInUse, Pushing
<1>10. bound'[c] = <<>>
  BY <1>2, <1>4, BoundGrows DEF NotInUse
<1> QED BY <1>5, <1>6, <1>7, <1>8, <1>9, <1>10 DEF NotInUse

-----------------------------------------------------------------------------
\* Proxy connections that have not been made, or not yet been used.

\* The control messages about c.
About(c) == {m \in CtlMsg : m.conn = c}

\* Of a connection that has not been made there is no trace.
Unmade(c) ==
    /\ \A s \in Side : /\ stream[s][c] = <<>>
                       /\ ~Has(ctl[s], About(c))
                       /\ \A t \in Thread : job[s][t].conn # c
    /\ \A e \in Endpoint : relay[e].conn # c
    /\ ~pconn["client"][c].start

Opening(c) == job["client"][Main].pc = "run" /\ job["client"][Main].conn = c

\* Until handleProxyNotify has started the local connection, nothing comes from
\* the client's side of c.
Quiet(c) ==
    /\ \A k \in {"req", "rsp", "data"} : ~Has(stream["server"][c], OfKind(k))
    /\ ~Requests(c)
    /\ ~Has(ctl["server"], About(c))
    /\ \A t \in Thread : ~Completing(job["server"][t], c)
    /\ ~Free(c) /\ ~Awaited(c)
    /\ \A z \in Local : relay[z].conn # c
    /\ ~pconn["client"][c].start
    /\ job["client"][c].conn # c

Fresh ==
    /\ \A c \in Proxy : life[c] = "absent" <=> ran[c] = 0
    /\ \A c \in Proxy : life[c] = "absent" => Unmade(c)
    /\ \A c \in Proxy : Opening(c) => Quiet(c)

LEMMA AboutFields ==
    /\ \A c \in Proxy : NotifyClient \notin About(c)
    /\ \A c, d : c # d => FreeConnReq(d) \notin About(c)
    /\ \A c, d : c # d => \A n : ShutdownPeerConn(d, n) \notin About(c)
    /\ \A c : \A m \in CtlMsg : m \in About(c) <=> m.conn = c
BY Threads DEF About, NotifyClient, FreeConnReq, ShutdownPeerConn

LEMMA AbsentStep ==
    ASSUME TypeOK, Claimed, Next, NEW c \in Proxy, life[c] = "absent" <=> ran[c] = 0
    PROVE  /\ life'[c] = "absent" <=> ran'[c] = 0
           /\ life'[c] = "absent" => life[c] = "absent" /\ ~HandleProxyNotify(c)
<1>0. life \in [Proxy -> {"absent", "backlog", "unclaimed", "claimed"}]
      /\ ran \in [Proxy -> 0 .. MaxSession]
  BY DEF TypeOK
<1>1. CASE HandleProxyNotify(c)
  <2>1. life'[c] = "backlog" /\ ran'[c] = ran[c] + 1
    BY <1>0, <1>1 DEF HandleProxyNotify, CreateProxyConn, CreateLocalConn
  <2> QED BY <1>0, <2>1, ConstantsAssumption
<1>2. CASE ~HandleProxyNotify(c)
  <2>1. life'[c] = "absent" <=> life[c] = "absent"
    <3>1. \A d \in Proxy : HandleProxyNotify(d) => life'[c] = life[c]
      BY <1>0, <1>2 DEF HandleProxyNotify, CreateProxyConn
    <3>2. \A d \in Proxy : NewProxyConn(d) => (life'[c] = "absent" <=> life[c] = "absent")
      BY <1>0 DEF NewProxyConn
    <3>3. \A d \in Proxy : ClaimProxyConn(d) => (life'[c] = "absent" <=> life[c] = "absent")
      <4>1. ASSUME NEW d \in Proxy, ClaimProxyConn(d)
            PROVE  life[d] # "absent" /\ life' = [life EXCEPT ![d] = "claimed"]
        BY <4>1 DEF ClaimProxyConn, NextMsg, Readable
      <4> QED BY <1>0, <4>1
    <3> QED BY <3>1, <3>2, <3>3, LifeSteps
  <2>2. ran'[c] = 0 <=> ran[c] = 0
    <3>1. \A d \in Proxy : HandleProxyNotify(d) => ran'[c] = ran[c]
      BY <1>0, <1>2 DEF HandleProxyNotify, CreateLocalConn
    <3>2. \A d \in Proxy : HandleProxyConnectReq(d) /\ d # c => ran'[c] = ran[c]
      BY <1>0 DEF HandleProxyConnectReq, CreateLocalConn
    <3>3. ASSUME HandleProxyConnectReq(c) PROVE ran'[c] # 0 /\ ran[c] # 0
      <4>1. Requests(c)
        BY <3>3, HeadHas, SideType DEF HandleProxyConnectReq, NextMsg, Readable, Requests, TypeOK
      <4>2. life[c] # "absent"
        BY <4>1 DEF Claimed, NotInUse
      <4>3. ran'[c] = ran[c] + 1
        BY <1>0, <3>3 DEF HandleProxyConnectReq, CreateLocalConn
      <4> QED BY <1>0, <4>2, <4>3, ConstantsAssumption
    <3> QED BY <3>1, <3>2, <3>3, RanSteps
  <2> QED BY <1>2, <2>1, <2>2
<1> QED BY <1>1, <1>2

LEMMA UnmadeStep ==
    ASSUME TypeOK, TypeOK', Owners, Claimed, Next, NEW c \in Proxy, Unmade(c),
           life[c] = "absent" <=> ran[c] = 0, life'[c] = "absent"
    PROVE  Unmade(c)'
<1> USE Sides, Threads, SideType
<1>1. life[c] = "absent" /\ ~HandleProxyNotify(c) /\ ran[c] = 0 /\ ran'[c] = 0
  BY AbsentStep
<1>2. NotInUse(c)
  BY <1>1 DEF Claimed
<1>3. ASSUME NEW s \in Side PROVE stream'[s][c] = <<>>
  <2>1. stream[s][c] = <<>> /\ stream'[s][c] \in Seq(Elem)
    BY DEF Unmade, TypeOK
  <2>2. ~HandleProxyConnectReq(c)
    BY DEF Unmade, HandleProxyConnectReq, NextMsg, Readable
  <2>3. \A p \in Public : ~(ReuseProxyConn(p) /\ c = freeList[Len(freeList)])
    <3>1. ASSUME NEW p \in Public, ReuseProxyConn(p), c = freeList[Len(freeList)]
          PROVE  FALSE
      <4>1. freeList \in Seq(Proxy) /\ freeList # <<>>
        BY <3>1 DEF ReuseProxyConn, TypeOK
      <4>2. Free(c)
        BY <3>1, <4>1, OncePopBack DEF Free
      <4> QED BY <1>2, <4>2 DEF NotInUse
    <3> QED BY <3>1
  <2>4. Shrinks(stream[s][c], stream'[s][c], Elem)
    <3>1. \A e \in Endpoint : relay[e].conn # c
      BY DEF Unmade
    <3>2. ~ \E e \in Endpoint : RelayPayload(e) /\ relay[e].conn = c
      BY <3>1
    <3>3. ~HandleProxyNotify(c)
      BY <1>1
    <3> HIDE <1>1
    <3>4. \A V : Shrinks(stream[s][c], stream'[s][c], V)
      BY <2>2, <2>3, <3>2, <3>3, StreamSteps, Zenon
    <3> QED BY <3>4
  <2>5. ~Has(stream'[s][c], Elem)
    BY <2>1, <2>4 DEF Shrinks, Has
  <2> QED BY <2>1, <2>5, SeqType DEF Has
<1>4. ASSUME NEW s \in Side PROVE ~Has(ctl'[s], About(c))
  <2>1. ctl[s] \in Seq(CtlMsg) /\ ~Has(ctl[s], About(c))
    BY DEF TypeOK, Unmade
  <2>2. ASSUME NEW m \in CtlMsg, m \notin About(c), ctl'[s] = Append(ctl[s], m)
        PROVE  ~Has(ctl'[s], About(c))
    BY <2>1, <2>2, OnceAppend DEF Shrinks
  <2>3. ASSUME NEW t \in Thread, job["client"][t].pc = "free",
               ctl'[s] = Append(ctl[s], FreeConnReq(job["client"][t].conn))
        PROVE  ~Has(ctl'[s], About(c))
    <3>1. job["client"][t] \in Job
      BY DEF TypeOK
    <3>2. job["client"][t].conn \in Proxy
      BY <2>3, <3>1, JobType
    <3>3. job["client"][t].conn # c
      BY DEF Unmade
    <3> QED BY <2>2, <2>3, <3>2, <3>3, AboutFields, CtlMsgType
  <2>4. ASSUME NEW d \in Proxy, NEW n \in Count, job[Other(s)][d].pc = "fin",
               ctl'[s] = Append(ctl[s], ShutdownPeerConn(d, n))
        PROVE  ~Has(ctl'[s], About(c))
    <3>0. job[Other(s)][d] \in Job
      BY DEF TypeOK
    <3>1. job[Other(s)][d].conn \in Proxy
      BY <2>4, <3>0, JobType
    <3>2. job[Other(s)][d].conn = d
      BY <3>1 DEF Owners, OwnJobs
    <3>3. d # c
      BY <3>2 DEF Unmade
    <3> QED BY <2>2, <2>4, <3>3, AboutFields, CtlMsgType
  <2>5. ctl'[s] = Append(ctl[s], NotifyClient) => ~Has(ctl'[s], About(c))
    BY <2>2, AboutFields, CtlMsgType
  <2>6. (\A V : Shrinks(ctl[s], ctl'[s], V)) => ~Has(ctl'[s], About(c))
    BY <2>1 DEF Shrinks
  <2> QED BY <2>3, <2>4, <2>5, <2>6, CtlSteps
<1>5. ASSUME NEW s \in Side, NEW t \in Thread PROVE job'[s][t].conn # c
  <2>1. JobStep(s, t, job'[s][t]) /\ job[s][t].conn # c
    BY JobSteps DEF Unmade
  <2>2. ~NextMsg("client", c, "req") /\ ~Readable(s, c)
    BY DEF Unmade, NextMsg, Readable
  <2>3. ran' = [ran EXCEPT ![c] = @ + 1] => FALSE
    BY <1>1 DEF TypeOK
  <2>4. ctl[s] # <<>> => Head(ctl[s]).conn # c
    <3>1. ctl[s] \in Seq(CtlMsg) /\ ~Has(ctl[s], About(c))
      BY DEF TypeOK, Unmade
    <3>2. ctl[s] # <<>> => Head(ctl[s]) \in CtlMsg /\ Head(ctl[s]) \notin About(c)
      BY <3>1, SeqType, OnceTail
    <3> QED BY <3>2, AboutFields
  <2>5. \A e \in Endpoint : relay[e].conn # c
    BY DEF Unmade
  <2> QED BY <2>1, <2>2, <2>3, <2>4, <2>5, JobCases, JobFields
<1>6. \A e \in Endpoint : relay'[e].conn # c
  <2>1. \A p : ~Binds(c, p)
    BY DEF Binds, Unmade
  <2> QED BY <2>1, RelaySteps DEF Unmade
<1>7. ~pconn'["client"][c].start
  BY ConnSteps DEF Unmade, Kept
<1> QED BY <1>3, <1>4, <1>5, <1>6, <1>7 DEF Unmade

-----------------------------------------------------------------------------
\* A connection comes into use through handleProxyNotify alone.

\* On a connection without payload no splice can happen: what is left is a
\* ProxyMetaSet, which is not claimed.
LEMMA QuietRead ==
    ASSUME TypeOK, Claimed, MetaOnce, NEW c \in Proxy, Quiet(c)
    PROVE  ~(Readable("server", c) /\ pconn["server"][c].start)
<1> SUFFICES ASSUME Readable("server", c) PROVE ~pconn["server"][c].start
  OBVIOUS
<1> DEFINE q == stream["server"][c]
<1>1. q \in Seq(Elem) /\ q # <<>>
  BY SideType DEF Readable, TypeOK
<1>2. Head(q).kind \in {"meta", "req", "rsp", "data"}
  BY <1>1, SeqType DEF Elem
<1>3. Has(q, OfKind(Head(q).kind))
  <2> HIDE DEF q
  <2> QED BY <1>1, HeadHas
<1>4. Head(q).kind = "meta"
  BY <1>2, <1>3 DEF Quiet
<1>5. q[1].kind = "meta" /\ 1 \in 1 .. Len(q)
  BY <1>1, <1>4
<1>6. life[c] \in {"backlog", "unclaimed"}
  BY <1>5 DEF MetaOnce, MetaOK
<1> QED BY <1>6 DEF Claimed, NotInUse

LEMMA QuietStep ==
    ASSUME TypeOK, TypeOK', Owners, Claimed, MetaOnce, Next, NEW c \in Proxy,
           Quiet(c), Opening(c)',
           \A t \in Thread : job["client"][t].conn = c =>
               t = Main /\ job["client"][t].pc = "run"
    PROVE  Quiet(c)'
<1> USE Sides, Threads, SideType
<1>0. /\ stream["server"][c] \in Seq(Elem) /\ stream["client"][c] \in Seq(Elem)
      /\ \A s \in Side : ctl[s] \in Seq(CtlMsg)
      /\ \A s \in Side, t \in Thread : job[s][t] \in Job
  <2>1. \A s \in Side : ctl[s] \in Seq(CtlMsg) /\ stream[s][c] \in Seq(Elem)
    BY DEF TypeOK
  <2>2. \A s \in Side, t \in Thread : job[s][t] \in Job
    BY DEF TypeOK
  <2> QED BY <2>1, <2>2
<1>1. ~HandleProxyConnectReq(c)
  BY <1>0, HeadHas DEF HandleProxyConnectReq, NextMsg, Readable, Quiet, Requests
<1>2. \A t \in Thread : ~(Starts(t) /\ job["client"][t].conn = c)
  <2> SUFFICES ASSUME NEW t \in Thread, Starts(t), job["client"][t].conn = c
               PROVE  FALSE
    OBVIOUS
  <2>1. t = Main /\ SetJob("client", Main, Idle)
    BY DEF Starts, StartLocalConn
  <2>2. job'["client"][Main] = Idle
    BY <2>1, JobAt
  <2> QED BY <2>2, JobFields DEF Opening
<1>3. \A k \in {"req", "rsp", "data"} : ~Has(stream'["server"][c], OfKind(k))
  <2> SUFFICES ASSUME NEW k \in {"req", "rsp", "data"}
               PROVE  ~Has(stream'["server"][c], OfKind(k))
    OBVIOUS
  <2>1. ~Has(stream["server"][c], OfKind(k))
    BY DEF Quiet
  <2>2. MetaSet \in Elem /\ MetaSet \notin OfKind(k)
    BY ElemType DEF OfKind, MetaSet
  <2>3. \A e \in Endpoint : relay[e].conn = c => "server" # Other(SideOf(e))
    BY DEF Quiet, Other
  <2>4. \/ Shrinks(stream["server"][c], stream'["server"][c], OfKind(k))
        \/ stream'["server"][c] = Append(stream["server"][c], MetaSet)
    <3>1. (\A V : Shrinks(stream["server"][c], stream'["server"][c], V))
            => Shrinks(stream["server"][c], stream'["server"][c], OfKind(k))
      OBVIOUS
    <3> QED BY <1>1, <2>3, <3>1, StreamSteps
  <2>5. Shrinks(stream["server"][c], Append(stream["server"][c], MetaSet), OfKind(k))
    BY <1>0, <2>2, OnceAppend
  <2> QED BY <2>1, <2>4, <2>5 DEF Shrinks
<1>4. ~Requests(c)'
  <2>1. ASSUME NEW p \in Public, ReuseProxyConn(p), c = freeList[Len(freeList)]
        PROVE  FALSE
    <3>1. freeList \in Seq(Proxy) /\ freeList # <<>>
      BY <2>1 DEF ReuseProxyConn, TypeOK
    <3>2. Free(c)
      BY <2>1, <3>1, OncePopBack DEF Free
    <3> QED BY <3>2 DEF Quiet
  <2> QED BY <2>1, KindSteps DEF Quiet, Requests, Shrinks
<1>5. ~Has(ctl'["server"], About(c))
  <2>1. ctl["server"] \in Seq(CtlMsg) /\ ~Has(ctl["server"], About(c))
    BY <1>0 DEF Quiet
  <2>2. ASSUME NEW m \in CtlMsg, m \notin About(c), ctl'["server"] = Append(ctl["server"], m)
        PROVE  ~Has(ctl'["server"], About(c))
    BY <2>1, <2>2, OnceAppend DEF Shrinks
  <2>3. ASSUME NEW t \in Thread, job["client"][t].pc = "free",
               ctl'["server"] = Append(ctl["server"], FreeConnReq(job["client"][t].conn))
        PROVE  ~Has(ctl'["server"], About(c))
    <3>1. job["client"][t].conn \in Proxy /\ job["client"][t].conn # c
      BY <1>0, <2>3, JobType
    <3> QED BY <2>2, <2>3, <3>1, AboutFields, CtlMsgType
  <2>4. ASSUME NEW d \in Proxy, NEW n \in Count, job["client"][d].pc = "fin",
               ctl'["server"] = Append(ctl["server"], ShutdownPeerConn(d, n))
        PROVE  ~Has(ctl'["server"], About(c))
    <3>1. job["client"][d].conn \in Proxy
      BY <1>0, <2>4, JobType
    <3>2. job["client"][d].conn = d
      BY <3>1 DEF Owners, OwnJobs
    <3>3. d # c
      BY <3>2 DEF Quiet
    <3> QED BY <2>2, <2>4, <3>3, AboutFields, CtlMsgType
  <2> QED BY <2>1, <2>3, <2>4, CtlSteps DEF Shrinks
<1>6. \A t \in Thread : ~Completing(job'["server"][t], c)
  <2> SUFFICES ASSUME NEW t \in Thread PROVE ~Completing(job'["server"][t], c)
    OBVIOUS
  <2>1. JobStep("server", t, job'["server"][t]) /\ ~Completing(job["server"][t], c)
    BY JobSteps DEF Quiet
  <2>2. ctl["server"] # <<>> => Head(ctl["server"]).conn # c
    <3>1. ctl["server"] \in Seq(CtlMsg) /\ ~Has(ctl["server"], About(c))
      BY <1>0 DEF Quiet
    <3>2. ctl["server"] # <<>> =>
            Head(ctl["server"]) \in CtlMsg /\ Head(ctl["server"]) \notin About(c)
      BY <3>1, SeqType, OnceTail
    <3> QED BY <3>2, AboutFields
  <2>3. ~(Readable("server", c) /\ pconn["server"][c].start)
    BY QuietRead
  <2> QED BY <2>1, <2>2, <2>3, JobCases, JobFields DEF Completing
<1>7. ~Free(c)' /\ ~Awaited(c)'
  <2>1. \A t \in Thread : ~Pushing(t, c)
    BY DEF Quiet, Completing, Pushing
  <2> QED BY <2>1, PoolGrows DEF Quiet, Awaited
<1>8. \A z \in Local : relay'[z].conn # c
  BY <1>2, RelaySteps DEF Quiet
<1>9. ~pconn'["client"][c].start
  BY <1>2, ConnSteps DEF Quiet, Kept
<1>10. job'["client"][c].conn # c
  <2>1. JobStep("client", c, job'["client"][c]) /\ job["client"][c].conn # c
    BY JobSteps DEF Quiet
  <2>2. ~NextMsg("client", c, "req")
    BY <1>0, HeadHas DEF NextMsg, Readable, Quiet, Requests
  <2>3. ~pconn["client"][c].start /\ \A z \in Local : relay[z].conn # c
    BY DEF Quiet
  <2>4. \A e \in Endpoint : SideOf(e) = "client" => e \in Local
    OBVIOUS
  <2> QED BY <2>1, <2>2, <2>3, <2>4, JobCases, JobFields
<1> QED BY <1>3, <1>4, <1>5, <1>6, <1>7, <1>8, <1>9, <1>10 DEF Quiet

LEMMA FreshStep ==
    ASSUME TypeOK, TypeOK', Owners, Claimed, MetaOnce, Fresh, Next
    PROVE  Fresh'
<1> USE Sides, Threads, SideType
<1>1. ASSUME NEW c \in Proxy PROVE life'[c] = "absent" <=> ran'[c] = 0
  BY <1>1, AbsentStep DEF Fresh
<1>2. ASSUME NEW c \in Proxy, life'[c] = "absent" PROVE Unmade(c)'
  <2>1. life[c] = "absent"
    BY <1>2, AbsentStep DEF Fresh
  <2> QED BY <1>2, <2>1, UnmadeStep DEF Fresh
<1>3. ASSUME NEW c \in Proxy, Opening(c)' PROVE Quiet(c)'
  <2>1. CASE Opening(c)
    <3>1. Quiet(c)
      BY <2>1 DEF Fresh
    <3>2. \A t \in Thread : job["client"][t].conn = c =>
               t = Main /\ job["client"][t].pc = "run"
      BY <2>1, <3>1 DEF Opening, Quiet, Owners, OwnJobs
    <3> QED BY <1>3, <3>1, <3>2, QuietStep
  <2>2. CASE ~Opening(c)
    <3>1. JobStep("client", Main, job'["client"][Main])
      BY JobSteps
    <3>2. life[c] = "absent"
      BY <1>3, <2>2, <3>1, JobCases, JobFields DEF Opening
    <3>3. Unmade(c) /\ NotInUse(c)
      BY <3>2 DEF Fresh, Claimed
    <3>4. Quiet(c)
      BY <3>3 DEF Unmade, NotInUse, Quiet, Completing, Has
    <3> QED BY <1>3, <3>3, <3>4, QuietStep DEF Unmade
  <2> QED BY <2>1, <2>2
<1> QED BY <1>1, <1>2, <1>3 DEF Fresh

-----------------------------------------------------------------------------
\* From the map to the free list and back.

\* A proxy connection is in one place: in the map, in the free list, or between
\* the two, where the request or its answer is on its way at most once.
Flow(c) ==
    /\ c \in proxyMap => ~Awaited(c) /\ ~Free(c)
    /\ Free(c) => ~Awaited(c)
    /\ ~(pendingWait = c /\ c \in waitMap)
    /\ Once(freeList, {c})
    /\ Once(stream["client"][c], OfKind("req"))
    /\ Once(stream["server"][c], OfKind("rsp"))
    /\ ~(Requests(c) /\ Answers(c))
    /\ Requests(c) \/ Answers(c) => Awaited(c)
    /\ pconn["server"][c].start => c \in proxyMap
    /\ \A t \in Thread : Pushing(t, c) => c \in proxyMap /\ ~pconn["server"][c].start

\* What other connections and most steps leave: nothing about c has grown.
Calmer(c) ==
    /\ c \in proxyMap' <=> c \in proxyMap
    /\ pendingWait' = c <=> pendingWait = c
    /\ c \in waitMap' <=> c \in waitMap
    /\ Shrinks(freeList, freeList', {c})
    /\ Shrinks(stream["client"][c], stream'["client"][c], OfKind("req"))
    /\ Shrinks(stream["server"][c], stream'["server"][c], OfKind("rsp"))
    /\ pconn'["server"][c].start => pconn["server"][c].start
    /\ \A t \in Thread : Pushing(t, c)' =>
         Pushing(t, c) \/ (c \in proxyMap /\ ~pconn["server"][c].start)

LEMMA FlowFrame ==
    ASSUME NEW c \in Proxy, Flow(c), Calmer(c)
    PROVE  Flow(c)'
BY DEF Flow, Calmer, Awaited, Free, Requests, Answers, Shrinks

LEMMA SameShrinks ==
    \A q, V : Shrinks(q, q, V)
BY DEF Shrinks

\* The head of the server's stream when a fd is bound.
LEMMA BindsHead ==
    ASSUME TypeOK, Claimed, MetaOnce, NEW c \in Proxy, NEW p, Binds(c, p)
    PROVE  /\ stream["server"][c] \in Seq(Elem) /\ stream["server"][c] # <<>>
           /\ stream'["server"][c] = Tail(stream["server"][c])
           /\ \/ NotInUse(c) /\ life'[c] = "claimed" /\ waitMap' = waitMap
              \/ /\ Answers(c) /\ c \in waitMap /\ waitMap' = waitMap \ {c}
                 /\ Head(stream["server"][c]) \in OfKind("rsp")
                 /\ life' = life
           /\ proxyMap' = proxyMap \cup {c}
           /\ UNCHANGED <<pendingWait, freeList, job, ran, sock, ctl>>
           /\ \A d \in Proxy \ {c} : pconn'["server"][d] = pconn["server"][d]
           /\ \A s \in Side, d \in Proxy :
                s # "server" \/ d # c => stream'[s][d] = stream[s][d]
<1> USE SideType, Sides
<1> DEFINE q == stream["server"][c]
<1>1. q \in Seq(Elem) /\ q # <<>> /\ Head(q) \in Elem
  BY SeqType DEF Binds, TypeOK
<1>2. stream' = [stream EXCEPT !["server"][c] = Tail(q)]
  BY DEF Binds, ClaimProxyConn, HandleStartProxyConnRsp, TypeOK
<1>3. UNCHANGED <<pendingWait, freeList, job, ran, sock, ctl>>
      /\ proxyMap' = proxyMap \cup {c}
  BY DEF Binds, ClaimProxyConn, HandleStartProxyConnRsp, BindPublicFd
<1>4. \A d \in Proxy \ {c} : pconn'["server"][d] = pconn["server"][d]
  <2>1. Run("server", c, p)
    BY DEF Binds, BindPublicFd
  <2> QED BY <2>1, ConnAt DEF Run
<1>5. /\ stream'["server"][c] = Tail(q)
      /\ \A s \in Side, d \in Proxy : s # "server" \/ d # c => stream'[s][d] = stream[s][d]
  <2> HIDE DEF q
  <2> QED BY <1>2 DEF TypeOK
<1>6. CASE ClaimProxyConn(c) /\ Head(q).kind = "meta"
  <2>1. q[1].kind = "meta" /\ 1 \in 1 .. Len(q)
    BY <1>1, <1>6
  <2>2. life[c] \in {"backlog", "unclaimed"}
    BY <2>1 DEF MetaOnce, MetaOK
  <2>3. NotInUse(c)
    BY <2>2 DEF Claimed
  <2>4. life'[c] = "claimed" /\ waitMap' = waitMap
    BY <1>6 DEF ClaimProxyConn, TypeOK
  <2> QED BY <1>1, <1>3, <1>4, <1>5, <2>3, <2>4
<1>7. CASE HandleStartProxyConnRsp(c) /\ Head(q).kind = "rsp" /\ c \in waitMap
  <2>1. Head(q) \in OfKind("rsp")
    BY <1>1, <1>7, Kinds
  <2>2. Answers(c)
    <3> HIDE DEF q
    <3>1. Has(q, OfKind("rsp"))
      BY <1>1, <2>1, OnceTail
    <3> QED BY <3>1 DEF Answers, q
  <2>3. waitMap' = waitMap \ {c} /\ life' = life
    BY <1>7 DEF HandleStartProxyConnRsp
  <2> QED BY <1>1, <1>3, <1>4, <1>5, <1>7, <2>1, <2>2, <2>3
<1> QED BY <1>6, <1>7 DEF Binds

LEMMA FlowBinds ==
    ASSUME TypeOK, Claimed, MetaOnce, NEW c \in Proxy, Flow(c),
           NEW d \in Proxy, NEW p, Binds(d, p)
    PROVE  Flow(c)'
<1> USE SideType, Sides
<1>1. CASE d = c
  <2> DEFINE q == stream["server"][c]
  <2>1. /\ stream'["server"][c] = Tail(q) /\ stream'["client"][c] = stream["client"][c]
        /\ q \in Seq(Elem) /\ q # <<>>
        /\ proxyMap' = proxyMap \cup {c}
        /\ UNCHANGED <<pendingWait, freeList, job>>
        /\ \/ NotInUse(c) /\ waitMap' = waitMap
           \/ /\ Answers(c) /\ c \in waitMap /\ waitMap' = waitMap \ {c}
              /\ Head(q) \in OfKind("rsp")
    BY <1>1, BindsHead
  <2>2. /\ Shrinks(q, Tail(q), OfKind("rsp"))
        /\ Head(q) \in OfKind("rsp") /\ Once(q, OfKind("rsp")) => ~Has(Tail(q), OfKind("rsp"))
    <3> HIDE DEF q
    <3> QED BY <2>1, OnceTail
  <2>3. ~Answers(c)' /\ ~Requests(c)' /\ ~Awaited(c)' /\ ~Free(c)'
    <3>1. CASE NotInUse(c) /\ waitMap' = waitMap
      BY <2>1, <2>2, <3>1 DEF NotInUse, Answers, Requests, Awaited, Free, Shrinks
    <3>2. CASE Answers(c) /\ c \in waitMap /\ waitMap' = waitMap \ {c} /\ Head(q) \in OfKind("rsp")
      BY <2>1, <2>2, <3>2 DEF Flow, Answers, Requests, Awaited, Free
    <3> QED BY <2>1, <3>1, <3>2
  <2>4. \A t \in Thread : ~Pushing(t, c)'
    <3>1. \A t \in Thread : ~Pushing(t, c)
      BY <2>1 DEF Flow, NotInUse, Awaited
    <3> QED BY <2>1, <3>1 DEF Pushing
  <2>5. /\ Once(freeList, {c})' /\ Once(stream["client"][c], OfKind("req"))'
        /\ Once(stream["server"][c], OfKind("rsp"))'
    BY <2>1, <2>2 DEF Flow, Shrinks
  <2> QED BY <2>1, <2>3, <2>4, <2>5 DEF Flow, Awaited
<1>2. CASE d # c
  <2>1. /\ stream'["server"][c] = stream["server"][c]
        /\ stream'["client"][c] = stream["client"][c]
        /\ proxyMap' = proxyMap \cup {d}
        /\ UNCHANGED <<pendingWait, freeList, job>>
        /\ waitMap' = waitMap \/ waitMap' = waitMap \ {d}
        /\ pconn'["server"][c] = pconn["server"][c]
    BY <1>2, BindsHead
  <2>2. Calmer(c)
    BY <1>2, <2>1, SameShrinks DEF Calmer, Pushing
  <2> QED BY <2>2, FlowFrame
<1> QED BY <1>1, <1>2

LEMMA FlowReuse ==
    ASSUME TypeOK, NEW c \in Proxy, Flow(c), NEW p \in Public, ReuseProxyConn(p)
    PROVE  Flow(c)'
<1> USE SideType, Sides
<1> DEFINE d == freeList[Len(freeList)]
           r == stream["client"][c]
<1>1. /\ freeList \in Seq(Proxy) /\ freeList # <<>> /\ freeList' = PopBack(freeList)
      /\ pendingWait = None /\ pendingWait' = d
      /\ UNCHANGED <<pconn, proxyMap, waitMap, job>>
  BY DEF ReuseProxyConn, TypeOK
<1>2. d \in Proxy /\ r \in Seq(Elem)
  BY <1>1, SeqType DEF TypeOK
<1>3. /\ Shrinks(freeList, freeList', {c})
      /\ d \in {c} /\ Once(freeList, {c}) => ~Has(freeList', {c})
      /\ d \in {c} => Has(freeList, {c})
  BY <1>1, OncePopBack
<1>4. /\ stream'["server"][c] = stream["server"][c]
      /\ stream'["client"][c] = IF d = c THEN Append(r, ConnectReq(p)) ELSE r
  BY <1>2 DEF ReuseProxyConn, SendStream, TypeOK
<1>5. CASE d = c
  <2>1. Free(c) /\ ~Free(c)' /\ Once(freeList', {c})
    BY <1>3, <1>5 DEF Free, Flow, Shrinks
  <2>2. c \notin proxyMap /\ ~Awaited(c) /\ ~Requests(c) /\ ~Answers(c)
    BY <2>1 DEF Flow
  <2>3. Once(stream'["client"][c], OfKind("req"))
    <3>1. ~Has(r, OfKind("req"))
      BY <2>2 DEF Requests
    <3> HIDE DEF r
    <3> QED BY <1>2, <1>4, <1>5, <3>1, OnceAppend, ElemType
  <2>4. ~Answers(c)' /\ Once(stream'["server"][c], OfKind("rsp"))
    BY <1>4, <2>2 DEF Flow, Answers
  <2>5. Awaited(c)' /\ ~(pendingWait' = c /\ c \in waitMap')
    BY <1>1, <1>5, <2>2 DEF Awaited
  <2>6. ~pconn'["server"][c].start /\ \A t \in Thread : ~Pushing(t, c)'
    BY <1>1, <2>2 DEF Flow, Pushing
  <2> QED BY <1>1, <2>1, <2>2, <2>3, <2>4, <2>5, <2>6 DEF Flow
<1>6. CASE d # c
  <2>1. Calmer(c)
    BY <1>1, <1>2, <1>3, <1>4, <1>6, SameShrinks, Threads DEF Calmer, Pushing
  <2> QED BY <2>1, FlowFrame
<1> QED BY <1>5, <1>6

LEMMA FlowRecycle ==
    ASSUME TypeOK, BothComplete, NEW c \in Proxy, c \notin raced, Flow(c),
           NEW t \in Thread, RecycleProxyConn(t)
    PROVE  Flow(c)'
<1> USE SideType, Sides
<1> DEFINE d == job["server"][t].conn
<1>1. /\ freeList \in Seq(Proxy) /\ freeList' = Append(freeList, d)
      /\ proxyMap' = proxyMap \ {d}
      /\ job["server"][t].pc = "push" /\ SetJob("server", t, Idle)
      /\ UNCHANGED <<pconn, stream, waitMap, pendingWait>>
  BY DEF RecycleProxyConn, TypeOK
<1>2. d \in Proxy
  <2>1. job["server"][t] \in Job
    BY DEF TypeOK
  <2> QED BY <1>1, <2>1, JobType
<1>3. \A u \in Thread : Pushing(u, c)' => u # t /\ Pushing(u, c)
  <2>1. job'["server"][t] = Idle /\ \A u \in Thread \ {t} : job'["server"][u] = job["server"][u]
    BY <1>1, JobAt
  <2> QED BY <2>1, JobFields DEF Pushing
<1>4. /\ d # c => Shrinks(freeList, freeList', {c})
      /\ ~Has(freeList, {c}) => Once(freeList', {c})
  BY <1>1, <1>2, OnceAppend
<1>5. CASE d = c
  <2>1. c \in proxyMap /\ ~pconn["server"][c].start
    BY <1>1, <1>5 DEF Flow, Pushing
  <2>2. \A u \in Thread : ~Pushing(u, c)'
    BY <1>1, <1>3, <1>5 DEF BothComplete, Pushing, Completing
  <2>3. ~Awaited(c)' /\ Once(freeList', {c}) /\ ~Requests(c)' /\ ~Answers(c)'
    BY <1>1, <1>4, <2>1 DEF Flow, Awaited, Free, Requests, Answers
  <2> QED BY <1>1, <1>5, <2>1, <2>2, <2>3 DEF Flow, Awaited
<1>6. CASE d # c
  <2>1. Calmer(c)
    BY <1>1, <1>3, <1>4, <1>6, SameShrinks DEF Calmer
  <2> QED BY <2>1, FlowFrame
<1> QED BY <1>5, <1>6

LEMMA FlowAnswer ==
    ASSUME TypeOK, NEW c \in Proxy, Flow(c), HandleProxyConnectReq(c)
    PROVE  Flow(c)'
<1> USE SideType, Sides, Threads
<1> DEFINE q == stream["client"][c]
           r == stream["server"][c]
           p == Head(q).fd
<1>1. /\ q \in Seq(Elem) /\ q # <<>> /\ Head(q).kind = "req" /\ Head(q) \in Elem
      /\ r \in Seq(Elem)
  BY SeqType DEF HandleProxyConnectReq, NextMsg, Readable, TypeOK
<1>2. /\ stream'["client"][c] = Tail(q) /\ stream'["server"][c] = Append(r, ConnectRsp(p))
      /\ UNCHANGED <<pconn, proxyMap, waitMap, pendingWait, freeList>>
  BY DEF HandleProxyConnectReq, TypeOK
<1>3. Head(q) \in OfKind("req") /\ p \in Public
  BY <1>1, Kinds, ElemType
<1>4. Requests(c) /\ Once(q, OfKind("req"))
  <2>1. Once(q, OfKind("req"))
    BY DEF Flow
  <2> QED BY <1>1, <1>3, <2>1, OnceTail DEF Requests
<1>5. ~Has(Tail(q), OfKind("req")) /\ Once(Tail(q), OfKind("req"))
  <2> HIDE DEF q
  <2> QED BY <1>1, <1>3, <1>4, OnceTail DEF Shrinks
<1>6. Once(Append(r, ConnectRsp(p)), OfKind("rsp"))
  <2>1. ~Has(r, OfKind("rsp"))
    BY <1>4 DEF Flow, Answers
  <2> HIDE DEF r, p
  <2> QED BY <1>1, <1>3, <2>1, OnceAppend, ElemType
<1>7. \A t \in Thread : Pushing(t, c)' <=> Pushing(t, c)
  <2>1. PICK k : SetJob("client", c, k)
    BY DEF HandleProxyConnectReq
  <2> QED BY <2>1, JobAt DEF Pushing
<1>8. Awaited(c) /\ (Awaited(c)' <=> Awaited(c)) /\ (Free(c)' <=> Free(c))
  BY <1>2, <1>4 DEF Flow, Awaited, Free
<1>9. ~Requests(c)'
  BY <1>2, <1>5 DEF Requests
<1> QED BY <1>2, <1>5, <1>6, <1>7, <1>8, <1>9 DEF Flow

LEMMA FlowStep ==
    ASSUME TypeOK, Claimed, MetaOnce, BothComplete, Next,
           NEW c \in Proxy, c \notin raced, Flow(c)
    PROVE  Flow(c)'
<1> USE SideType, Sides, Threads
<1>1. CASE \E d \in Proxy, p \in Public : Binds(d, p)
  BY <1>1, FlowBinds
<1>2. CASE \E p \in Public : ReuseProxyConn(p)
  BY <1>2, FlowReuse
<1>3. CASE \E t \in Thread : RecycleProxyConn(t)
  BY <1>3, FlowRecycle
<1>4. CASE HandleProxyConnectReq(c)
  BY <1>4, FlowAnswer
<1>5. CASE AddWaitProxyConn
  BY <1>5 DEF AddWaitProxyConn, Flow, Awaited, Free, Requests, Answers, Pushing
<1>6. ASSUME ~\E d \in Proxy, p \in Public : Binds(d, p),
             UNCHANGED <<proxyMap, waitMap, pendingWait, freeList>>,
             ~\E p \in Public : ReuseProxyConn(p),
             ~HandleProxyConnectReq(c)
      PROVE  Flow(c)'
  <2>1. /\ Shrinks(stream["client"][c], stream'["client"][c], OfKind("req"))
        /\ Shrinks(stream["server"][c], stream'["server"][c], OfKind("rsp"))
    BY <1>6, KindSteps
  <2>2. pconn'["server"][c].start => pconn["server"][c].start
    BY <1>6, ConnSteps DEF Kept
  <2>3. ASSUME NEW t \in Thread, Pushing(t, c)'
        PROVE  Pushing(t, c) \/ (c \in proxyMap /\ ~pconn["server"][c].start)
    <3>1. JobStep("server", t, job'["server"][t])
      BY JobSteps
    <3> QED BY <2>3, <3>1, JobCases, JobFields DEF Pushing
  <2>4. Calmer(c)
    BY <1>6, <2>1, <2>2, <2>3, SameShrinks DEF Calmer
  <2> QED BY <2>4, FlowFrame
<1> QED BY <1>1, <1>2, <1>3, <1>4, <1>5, <1>6, PoolSteps, Bindings

-----------------------------------------------------------------------------
\* How many sessions a connection has carried, on the server and on the
\* client.

\* A connection at rest has carried as many sessions as local connections were
\* opened for it; one that is offered is one behind.
Counts(c) ==
    /\ c \in proxyMap \/ Free(c) \/ Requests(c) => Len(bound[c]) = ran[c]
    /\ Offers(c) \/ Answers(c) => Len(bound[c]) + 1 = ran[c]

\* The newest local connection of c is the one that feeds it.
Newest(c) ==
    /\ \A t \in Thread :
         job["client"][t].pc = "run" /\ job["client"][t].conn = c
           => job["client"][t].end = <<c, ran[c]>>
    /\ \A z \in Local : relay[z].conn = c =>
         z[2] = ran[c] \/ (job["client"][c].pc = "run" /\ z[2] < ran[c])
    /\ \A i \in 1 .. MaxSession : i > ran[c] => sock[<<c, i>>].read = 0

LEMMA RanAt ==
    ASSUME TypeOK, Next, NEW c \in Proxy
    PROVE  /\ ran[c] \in 0 .. MaxSession /\ ran[c] \in Nat
           /\ \/ ran'[c] = ran[c]
              \/ /\ HandleProxyNotify(c) \/ HandleProxyConnectReq(c)
                 /\ ran'[c] = ran[c] + 1 /\ ran[c] < MaxSession
<1>0. ran \in [Proxy -> 0 .. MaxSession]
  BY DEF TypeOK
<1>1. ASSUME NEW d \in Proxy, HandleProxyNotify(d) \/ HandleProxyConnectReq(d)
      PROVE  /\ ran'[c] = ran[c] \/ c = d
             /\ ran'[d] = ran[d] + 1 /\ ran[d] < MaxSession
  BY <1>0, <1>1 DEF HandleProxyNotify, HandleProxyConnectReq, CreateLocalConn
<1> QED BY <1>0, <1>1, RanSteps, ConstantsAssumption

LEMMA HeadKinds ==
    ASSUME TypeOK, NEW c \in Proxy
    PROVE  /\ HandleProxyConnectReq(c) => Requests(c)
           /\ NextMsg("server", c, "meta") => Offers(c)
           /\ NextMsg("server", c, "rsp") => Answers(c)
<1> USE SideType
<1>1. \A s \in Side : stream[s][c] \in Seq(Elem)
  BY DEF TypeOK
<1> QED BY <1>1, HeadHas DEF HandleProxyConnectReq, NextMsg, Readable, Requests, Offers,
                             Answers

LEMMA ClaimedOffersNothing ==
    ASSUME MetaOnce, NEW c \in Proxy, life[c] = "claimed"
    PROVE  ~Offers(c)
BY DEF MetaOnce, MetaOK, Offers, Has, OfKind

LEMMA CountsStep ==
    ASSUME TypeOK, TypeOK', Claimed, Fresh, MetaOnce, MetaOnce', Next,
           NEW c \in Proxy, Flow(c), Flow(c)', Counts(c)
    PROVE  Counts(c)'
<1> USE SideType, Sides, Threads
<1>1. CASE \E p \in Public : Binds(c, p)
  <2>1. PICK p \in Public : Binds(c, p)
    BY <1>1
  <2>2. Len(bound'[c]) = Len(bound[c]) + 1
    BY <2>1, BoundGrows
  <2>3. ran' = ran /\ c \in proxyMap'
        /\ \/ NotInUse(c) /\ life'[c] = "claimed"
           \/ Answers(c) /\ life' = life
    BY <2>1, BindsHead
  <2>4. Offers(c) \/ Answers(c)
    BY <2>1, HeadKinds, HeadHas DEF Binds, ClaimProxyConn, HandleStartProxyConnRsp
  <2>5. life'[c] = "claimed"
    BY <2>3 DEF Claimed, NotInUse
  <2>6. ~Offers(c)'
    BY <2>5 DEF MetaOnce, MetaOK, Offers, Has, OfKind
  <2>7. ~Answers(c)'
    BY <2>3 DEF Flow
  <2> QED BY <2>2, <2>3, <2>4, <2>6, <2>7 DEF Counts
<1>2. CASE HandleProxyNotify(c)
  <2>1. life[c] = "absent"
    BY <1>2 DEF HandleProxyNotify, CreateProxyConn
  <2>2. ran[c] = 0 /\ NotInUse(c)
    BY <2>1 DEF Fresh, Claimed
  <2>3. bound'[c] = <<>> /\ ran'[c] = 1
    BY <1>2, <2>2 DEF HandleProxyNotify, CreateLocalConn, NotInUse, TypeOK
  <2>4. c \notin proxyMap' /\ ~Free(c)' /\ ~Requests(c)'
    <3>1. proxyMap' = proxyMap /\ freeList' = freeList
      BY <1>2 DEF HandleProxyNotify
    <3>2. stream'["client"][c] = stream["client"][c]
      BY <1>2 DEF HandleProxyNotify, SendStream, TypeOK
    <3> QED BY <2>2, <3>1, <3>2 DEF NotInUse, Free, Requests
  <2> QED BY <2>3, <2>4 DEF Counts
<1>3. CASE HandleProxyConnectReq(c)
  <2>1. Requests(c)
    BY <1>3, HeadKinds
  <2>2. bound' = bound /\ ran'[c] = ran[c] + 1
    BY <1>3 DEF HandleProxyConnectReq, CreateLocalConn, TypeOK
  <2>3. Answers(c)'
    <3> DEFINE r == stream["server"][c]
               p == Head(stream["client"][c]).fd
    <3>0. stream \in [Side -> [Proxy -> Seq(Elem)]] /\ r \in Seq(Elem)
      BY DEF TypeOK
    <3>1. stream'["server"][c] = Append(r, ConnectRsp(p))
      BY <1>3, <3>0 DEF HandleProxyConnectReq
    <3>2. stream["client"][c] \in Seq(Elem) /\ stream["client"][c] # <<>>
          /\ Head(stream["client"][c]).kind = "req"
      BY <1>3 DEF HandleProxyConnectReq, NextMsg, Readable, TypeOK
    <3>3. p \in Public
      BY <3>2, SeqType, ElemType
    <3>4. Append(r, ConnectRsp(p))[Len(r) + 1] = ConnectRsp(p)
          /\ Len(r) + 1 \in 1 .. Len(Append(r, ConnectRsp(p)))
      <4> HIDE DEF r, p
      <4> QED BY <3>1
    <3>5. ConnectRsp(p) \in OfKind("rsp")
      BY <3>3, Kinds
    <3>6. /\ stream'["server"][c][Len(r) + 1] \in OfKind("rsp")
          /\ Len(r) + 1 \in 1 .. Len(stream'["server"][c])
      BY <3>1, <3>4, <3>5
    <3> QED BY <3>6 DEF Answers, Has
  <2>4. c \notin proxyMap' /\ ~Free(c)' /\ ~Requests(c)'
    BY <2>3 DEF Flow
  <2> QED BY <2>1, <2>2, <2>4 DEF Counts
<1>4. ASSUME ~\E p \in Public : Binds(c, p), ~HandleProxyNotify(c), ~HandleProxyConnectReq(c)
      PROVE  Counts(c)'
  <2>1. ran'[c] = ran[c] /\ bound'[c] = bound[c]
    BY <1>4, RanAt, BoundGrows
  <2>2. c \in proxyMap' \/ Free(c)' => c \in proxyMap \/ Free(c)
    BY <1>4, PoolGrows DEF Flow
  <2>3. Requests(c)' => Requests(c) \/ Free(c)
    <3>1. ASSUME NEW p \in Public, ReuseProxyConn(p), c = freeList[Len(freeList)]
          PROVE  Free(c)
      <4>1. freeList \in Seq(Proxy) /\ freeList # <<>>
        BY <3>1 DEF ReuseProxyConn, TypeOK
      <4> QED BY <3>1, <4>1, OncePopBack DEF Free
    <3> QED BY <3>1, KindSteps DEF Requests, Shrinks
  <2>4. Offers(c)' \/ Answers(c)' => Offers(c) \/ Answers(c)
    BY <1>4, KindSteps DEF Offers, Answers, Shrinks
  <2> QED BY <2>1, <2>2, <2>3, <2>4 DEF Counts
<1> QED BY <1>1, <1>2, <1>3, <1>4

LEMMA NewestStep ==
    ASSUME TypeOK, TypeOK', Owners, Claimed, Fresh, Next, NEW c \in Proxy, Newest(c)
    PROVE  Newest(c)'
<1> USE SideType, Sides, Threads
<1>0. ran[c] \in Nat
  BY RanAt
<1>1. HandleProxyNotify(c) => /\ \A t \in Thread : job["client"][t].conn # c
                              /\ \A e \in Endpoint : relay[e].conn # c
  BY DEF HandleProxyNotify, CreateProxyConn, Fresh, Unmade
<1>2. HandleProxyConnectReq(c) =>
        /\ job["client"][c] = Idle
        /\ \A t \in Thread : job["client"][t].conn = c => job["client"][t].pc # "run"
  <2>1. HandleProxyConnectReq(c) => job["client"][c] = Idle /\ Requests(c)
    BY HeadKinds DEF HandleProxyConnectReq, NextMsg, Readable
  <2>2. HandleProxyConnectReq(c) => ~Opening(c)
    BY <2>1 DEF Fresh, Quiet
  <2>3. \A d \in Proxy : job["client"][d].conn \in {d, None}
    BY DEF Owners, OwnJobs
  <2> QED BY <2>1, <2>2, <2>3, JobFields DEF Opening
<1>3. ASSUME NEW t \in Thread, job'["client"][t].pc = "run", job'["client"][t].conn = c
      PROVE  job'["client"][t].end = <<c, ran'[c]>>
  <2> DEFINE k == job'["client"][t]
  <2>1. JobStep("client", t, k)
    BY JobSteps
  <2>2. \/ k = job["client"][t]
        \/ k.end = <<c, ran[c] + 1>> /\ ran' = [ran EXCEPT ![c] = @ + 1]
    BY <1>3, <2>1, JobCases, JobFields
  <2>3. CASE k = job["client"][t]
    <3>1. ~HandleProxyNotify(c) /\ ~HandleProxyConnectReq(c)
      BY <1>1, <1>2, <1>3, <2>3
    <3>2. ran'[c] = ran[c]
      BY <3>1, RanAt
    <3> QED BY <1>3, <2>3, <3>2 DEF Newest
  <2>4. CASE k.end = <<c, ran[c] + 1>> /\ ran' = [ran EXCEPT ![c] = @ + 1]
    BY <2>4 DEF TypeOK
  <2> QED BY <2>2, <2>3, <2>4
<1>4. ASSUME NEW z \in Local, relay'[z].conn = c
      PROVE  z[2] = ran'[c] \/ (job'["client"][c].pc = "run" /\ z[2] < ran'[c])
  <2>0. z[2] \in Nat
    BY ConstantsAssumption
  <2>1. CASE relay[z].conn = c
    <3>1. z[2] = ran[c] \/ (job["client"][c].pc = "run" /\ z[2] < ran[c])
      BY <2>1 DEF Newest
    <3>2. CASE HandleProxyConnectReq(c)
      <4>1. z[2] = ran[c]
        BY <1>2, <3>1, <3>2, JobFields
      <4>2. ran'[c] = ran[c] + 1
        BY <3>2 DEF HandleProxyConnectReq, CreateLocalConn, TypeOK
      <4>3. job'["client"][c].pc = "run"
        <5> DEFINE k == [pc |-> "run", conn |-> c, end |-> <<c, ran[c] + 1>>]
        <5>1. SetJob("client", c, k)
          BY <3>2 DEF HandleProxyConnectReq
        <5>2. job'["client"][c] = k
          BY <5>1, JobAt
        <5> QED BY <5>2
      <4> QED BY <1>0, <4>1, <4>2, <4>3
    <3>3. CASE ~HandleProxyConnectReq(c)
      <4>1. ran'[c] = ran[c]
        BY <1>1, <2>1, <3>3, RanAt
      <4>2. CASE z[2] = ran[c]
        BY <4>1, <4>2
      <4>3. CASE job["client"][c].pc = "run" /\ z[2] < ran[c]
        <5> DEFINE j == job["client"][c]
        <5>1. j \in Job
          BY DEF TypeOK
        <5>2. j.conn = c
          BY <4>3, <5>1, JobType DEF Owners, OwnJobs
        <5>3. j.end = <<c, ran[c]>>
          BY <4>3, <5>2 DEF Newest
        <5>4. ~StartLocalConn(c)
          <6>1. ASSUME StartLocalConn(c) PROVE FALSE
            <7>1. Run("client", c, j.end) /\ j.end \in Endpoint
              BY <4>3, <5>1, <5>2, <6>1, JobType DEF StartLocalConn
            <7>2. z # j.end
              BY <1>0, <2>0, <4>3, <5>3
            <7>3. relay'[z] = NoRelay
              BY <2>1, <7>1, <7>2, RunAt
            <7> QED BY <1>4, <7>3 DEF NoRelay
          <6> QED BY <6>1
        <5>5. JobStep("client", c, job'["client"][c])
          BY JobSteps
        <5>6. job'["client"][c] = j
          <6> DEFINE k == job'["client"][c]
          <6>1. JobStep("client", c, k) /\ j.pc = "run" /\ j # Idle
            BY <4>3, <5>5, JobFields
          <6> HIDE DEF k
          <6>2. k = j
            BY <5>4, <6>1, JobCases
          <6> QED BY <6>2 DEF k
        <5> QED BY <4>1, <4>3, <5>6
      <4> QED BY <3>1, <4>2, <4>3
    <3> QED BY <3>2, <3>3
  <2>2. ASSUME NEW t \in Thread, Starts(t), job["client"][t].end = z,
               job["client"][t].conn = c
        PROVE  z[2] = ran'[c]
    <3>1. z = <<c, ran[c]>> /\ ran' = ran
      BY <2>2 DEF Starts, StartLocalConn, Newest
    <3> QED BY <3>1
  <2> QED BY <1>4, <2>1, <2>2, RelaySteps
<1>5. ASSUME NEW i \in 1 .. MaxSession, i > ran'[c]
      PROVE  sock'[<<c, i>>].read = 0
  <2> DEFINE z == <<c, i>>
  <2>1. i > ran[c] /\ z \in Local /\ z[1] = c /\ z[2] = i
    BY <1>0, <1>5, RanAt, ConstantsAssumption
  <2>2. sock[z].read = 0
    BY <2>1 DEF Newest
  <2>3. ~RelayPayload(z)
    <3>1. relay[z].conn \in {c, None}
      BY <2>1 DEF Owners, OwnRelays
    <3>2. relay[z].conn # c
      BY <1>0, <2>1 DEF Newest
    <3> QED BY <3>1, <3>2 DEF RelayPayload, RelayReadable
  <2> QED BY <2>1, <2>2, <2>3, SockSteps
<1> QED BY <1>3, <1>4, <1>5 DEF Newest

-----------------------------------------------------------------------------
\* Sequences of units of one local connection.

\* Behind a ProxyMetaSet or a ProxyConnectRsp in q come exactly the first n
\* units of z.
BehindOn(q, z, n) ==
    \A i \in 1 .. Len(q) : q[i].kind \in {"meta", "rsp"} =>
        /\ Len(q) = i + n
        /\ \A j \in 1 .. n : q[i + j] = Data(z, j)

\* got and then q are the first n units of z.
CarriesOn(got, q, z, n) ==
    /\ Len(got) + Len(q) = n
    /\ \A j \in 1 .. Len(q) : q[j] = Data(z, Len(got) + j)

PrefixOf(got, z) == \A j \in 1 .. Len(got) : got[j] = Data(z, j)

LEMMA BehindUnread ==
    ASSUME NEW q \in Seq(Elem), NEW z, NEW n \in Nat, BehindOn(q, z, n),
           NEW k \in 1 .. Len(q)
    PROVE  BehindOn(Unread(q, k), z, n)
<1> DEFINE r == SubSeq(q, k + 1, Len(q))
<1>1. /\ Len(q) \in Nat /\ k \in Nat /\ Len(r) = Len(q) - k
      /\ \A i \in 1 .. Len(r) : r[i] = q[k + i] /\ k + i \in 1 .. Len(q)
  OBVIOUS
<1> HIDE DEF r
<1>2. ASSUME NEW i \in 1 .. Len(r), r[i].kind \in {"meta", "rsp"}
      PROVE  Len(r) = i + n /\ \A j \in 1 .. n : r[i + j] = Data(z, j)
  <2>1. i \in Nat /\ k + i \in 1 .. Len(q) /\ q[k + i].kind \in {"meta", "rsp"}
    BY <1>1, <1>2
  <2>2. Len(q) = (k + i) + n /\ \A j \in 1 .. n : q[(k + i) + j] = Data(z, j)
    BY <2>1 DEF BehindOn
  <2>3. Len(r) = i + n
    BY <1>1, <2>1, <2>2
  <2>4. ASSUME NEW j \in 1 .. n PROVE r[i + j] = Data(z, j)
    <3>0. /\ Len(r) \in Nat /\ i \in Nat /\ k \in Nat /\ i >= 1
          /\ Len(r) = i + n /\ n \in Nat /\ j \in 1 .. n
      <4>1. Len(r) \in Nat
        BY <1>1
      <4> QED BY <4>1, <2>1, <2>3
    <3>1. i + j \in 1 .. Len(r) /\ k + (i + j) = (k + i) + j
      BY <3>0
    <3> QED BY <1>1, <2>2, <3>1
  <2> QED BY <2>3, <2>4
<1>3. BehindOn(r, z, n)
  BY <1>2 DEF BehindOn
<1> QED BY <1>3 DEF Unread, r

LEMMA TailUnread ==
    ASSUME NEW q \in Seq(Elem), q # <<>>
    PROVE  1 \in 1 .. Len(q) /\ Tail(q) = Unread(q, 1)
BY DEF Unread

LEMMA BehindAppend ==
    ASSUME NEW q \in Seq(Elem), NEW z, NEW x \in Elem,
           ~Has(q, OfKind("meta")), ~Has(q, OfKind("rsp"))
    PROVE  BehindOn(Append(q, x), z, 0)
<1> DEFINE r == Append(q, x)
<1>1. /\ Len(q) \in Nat /\ Len(r) = Len(q) + 1
      /\ \A i \in 1 .. Len(q) : r[i] = q[i] /\ q[i] \in Elem
  OBVIOUS
<1> HIDE DEF r
<1>2. \A i \in 1 .. Len(q) : q[i].kind \notin {"meta", "rsp"}
  BY <1>1 DEF Has, OfKind
<1>3. \A i \in 1 .. Len(r) : r[i].kind \in {"meta", "rsp"} => i = Len(r)
  BY <1>1, <1>2
<1>4. BehindOn(r, z, 0)
  BY <1>1, <1>3 DEF BehindOn
<1> QED BY <1>4 DEF r

LEMMA BehindConcat ==
    ASSUME NEW q \in Seq(Elem), NEW r \in Seq(Elem), NEW z, NEW n \in Nat,
           BehindOn(q, z, n), \A i \in 1 .. Len(r) : r[i] = Data(z, n + i)
    PROVE  BehindOn(q \o r, z, n + Len(r))
<1> DEFINE t == q \o r
<1>1. /\ Len(q) \in Nat /\ Len(r) \in Nat /\ Len(t) = Len(q) + Len(r)
      /\ \A i \in 1 .. Len(q) : t[i] = q[i]
      /\ \A i \in 1 .. Len(r) : t[Len(q) + i] = r[i]
  OBVIOUS
<1> HIDE DEF t
<1>2. ASSUME NEW i \in 1 .. Len(t), t[i].kind \in {"meta", "rsp"}
      PROVE  /\ Len(t) = i + (n + Len(r))
             /\ \A j \in 1 .. (n + Len(r)) : t[i + j] = Data(z, j)
  <2>1. i \in 1 .. Len(q)
    <3>1. ASSUME i \notin 1 .. Len(q) PROVE FALSE
      <4>1. i - Len(q) \in 1 .. Len(r) /\ Len(q) + (i - Len(q)) = i
        BY <1>1, <3>1
      <4>2. t[i] = Data(z, n + (i - Len(q)))
        BY <1>1, <4>1
      <4> QED BY <1>2, <4>2 DEF Data
    <3> QED BY <3>1
  <2>2. Len(q) = i + n /\ \A j \in 1 .. n : q[i + j] = Data(z, j)
    BY <1>1, <1>2, <2>1 DEF BehindOn
  <2>3. i \in Nat /\ Len(t) = i + (n + Len(r))
    BY <1>1, <2>1, <2>2
  <2>4. ASSUME NEW j \in 1 .. (n + Len(r)) PROVE t[i + j] = Data(z, j)
    <3>1. CASE j <= n
      <4>1. j \in 1 .. n /\ i + j \in 1 .. Len(q)
        BY <1>1, <2>1, <2>2, <3>1
      <4> QED BY <1>1, <2>2, <4>1
    <3>2. CASE ~(j <= n)
      <4>1. j - n \in 1 .. Len(r) /\ i + j = Len(q) + (j - n) /\ n + (j - n) = j
        BY <1>1, <2>2, <2>3, <3>2
      <4>2. t[i + j] = r[j - n] /\ r[j - n] = Data(z, n + (j - n))
        BY <1>1, <4>1
      <4> QED BY <4>1, <4>2
    <3> QED BY <3>1, <3>2
  <2> QED BY <2>3, <2>4
<1>3. BehindOn(t, z, n + Len(r))
  BY <1>2 DEF BehindOn
<1> QED BY <1>3 DEF t

LEMMA CarriesConcat ==
    ASSUME NEW got \in Seq(Elem), NEW q \in Seq(Elem), NEW r \in Seq(Elem), NEW z,
           NEW n \in Nat, CarriesOn(got, q, z, n),
           \A i \in 1 .. Len(r) : r[i] = Data(z, n + i)
    PROVE  CarriesOn(got, q \o r, z, n + Len(r))
<1> DEFINE t == q \o r
<1>0. Len(q) \in Nat /\ Len(r) \in Nat /\ Len(got) \in Nat /\ Len(t) = Len(q) + Len(r)
  OBVIOUS
<1>1. /\ \A i \in 1 .. Len(q) : t[i] = q[i]
      /\ \A i \in 1 .. Len(r) : t[Len(q) + i] = r[i]
  OBVIOUS
<1>2. \A j \in 1 .. Len(q) : q[j] = Data(z, Len(got) + j)
  BY DEF CarriesOn
<1>a. Len(got) + Len(q) = n
  BY DEF CarriesOn
<1> DEFINE a == Len(q)
           b == Len(r)
           g == Len(got)
           l == Len(t)
<1>b. a \in Nat /\ b \in Nat /\ g \in Nat /\ l = a + b /\ g + a = n
  BY <1>0, <1>a
<1> HIDE DEF t
<1>3. ASSUME NEW j \in 1 .. l PROVE t[j] = Data(z, g + j)
  <2>1. CASE j <= a
    <3>1. j \in 1 .. a
      BY <1>b, <2>1
    <3> QED BY <1>1, <1>2, <3>1
  <2>2. CASE ~(j <= a)
    <3> HIDE DEF a, b, g, l
    <3>1. j - a \in 1 .. b /\ a + (j - a) = j
      BY <1>b, <2>2
    <3>2. n + (j - a) = g + j
      BY <1>b, <2>2
    <3>3. t[a + (j - a)] = r[j - a] /\ r[j - a] = Data(z, n + (j - a))
      BY <1>1, <3>1 DEF a, b
    <3> QED BY <3>1, <3>2, <3>3
  <2> QED BY <2>1, <2>2
<1>4. g + l = n + b
  <2> HIDE DEF a, b, g, l
  <2> QED BY <1>b
<1>5. CarriesOn(got, t, z, n + Len(r))
  BY <1>3, <1>4 DEF CarriesOn
<1> QED BY <1>5 DEF t

LEMMA CarriesUnread ==
    ASSUME NEW got \in Seq(Elem), NEW q \in Seq(Elem), NEW z, NEW n \in Nat,
           CarriesOn(got, q, z, n), NEW k \in 1 .. Len(q)
    PROVE  /\ CarriesOn(got \o SubSeq(q, 1, k), Unread(q, k), z, n)
           /\ PrefixOf(got, z) => PrefixOf(got \o SubSeq(q, 1, k), z)
<1> DEFINE h == SubSeq(q, 1, k)
           r == SubSeq(q, k + 1, Len(q))
           t == got \o h
<1>1. /\ Len(q) \in Nat /\ k \in Nat /\ Len(r) = Len(q) - k /\ Len(h) = k
      /\ Len(got) \in Nat
      /\ \A i \in 1 .. Len(r) : r[i] = q[k + i] /\ k + i \in 1 .. Len(q)
      /\ \A i \in 1 .. k : h[i] = q[i] /\ i \in 1 .. Len(q)
      /\ h \in Seq(Elem)
  OBVIOUS
<1>2. Len(got) + Len(q) = n /\ \A j \in 1 .. Len(q) : q[j] = Data(z, Len(got) + j)
  BY DEF CarriesOn
<1>3. /\ Len(t) = Len(got) + k
      /\ \A i \in 1 .. Len(got) : t[i] = got[i]
      /\ \A i \in 1 .. k : t[Len(got) + i] = h[i]
  <2>1. Len(h) = k /\ h \in Seq(Elem)
    BY <1>1
  <2> HIDE DEF h
  <2> QED BY <2>1
<1> HIDE DEF h, r, t
<1>4. ASSUME NEW j \in 1 .. Len(r) PROVE r[j] = Data(z, Len(t) + j)
  <2>1. r[j] = Data(z, Len(got) + (k + j))
    BY <1>1, <1>2
  <2>2. Len(got) + (k + j) = Len(t) + j
    BY <1>1, <1>3
  <2> QED BY <2>1, <2>2
<1>5. Len(t) + Len(r) = n
  <2>1. /\ Len(q) \in Nat /\ k \in Nat /\ Len(got) \in Nat /\ Len(r) = Len(q) - k
        /\ Len(t) = Len(got) + k /\ Len(got) + Len(q) = n
    BY <1>1, <1>2, <1>3
  <2> QED BY <2>1
<1>8. CarriesOn(t, r, z, n)
  BY <1>4, <1>5 DEF CarriesOn
<1>6. ASSUME PrefixOf(got, z), NEW j \in 1 .. Len(t) PROVE t[j] = Data(z, j)
  <2>1. CASE j <= Len(got)
    BY <1>1, <1>3, <1>6, <2>1 DEF PrefixOf
  <2>2. CASE ~(j <= Len(got))
    <3>1. j - Len(got) \in 1 .. k /\ Len(got) + (j - Len(got)) = j
      BY <1>1, <1>3, <2>2
    <3>4. \A i \in 1 .. k : t[Len(got) + i] = Data(z, Len(got) + i)
      BY <1>1, <1>2, <1>3
    <3>2. t[j] = Data(z, Len(got) + (j - Len(got)))
      BY <3>1, <3>4
    <3> QED BY <3>1, <3>2
  <2> QED BY <2>1, <2>2
<1>7. PrefixOf(got, z) => PrefixOf(t, z)
  BY <1>6 DEF PrefixOf
<1> QED BY <1>8, <1>7 DEF Unread, h, r, t

LEMMA CarriesStart ==
    ASSUME NEW q \in Seq(Elem), q # <<>>, Head(q).kind \in {"meta", "rsp"},
           NEW z, NEW n \in Nat, BehindOn(q, z, n)
    PROVE  CarriesOn(<<>>, Tail(q), z, n)
<1> DEFINE r == Tail(q)
<1>1. /\ Len(q) \in Nat /\ Len(r) = Len(q) - 1 /\ 1 \in 1 .. Len(q)
      /\ \A i \in 1 .. Len(r) : r[i] = q[1 + i]
      /\ Head(q) = q[1]
  OBVIOUS
<1> HIDE DEF r
<1>2. Len(q) = 1 + n /\ \A j \in 1 .. n : q[1 + j] = Data(z, j)
  BY <1>1 DEF BehindOn
<1>3. Len(<<>>) = 0
  OBVIOUS
<1>4. \A j \in 1 .. Len(r) : j \in 1 .. n /\ 0 + j = j
  BY <1>1, <1>2
<1>5. CarriesOn(<<>>, r, z, n)
  BY <1>1, <1>2, <1>3, <1>4 DEF CarriesOn
<1> QED BY <1>5 DEF r
=============================================================================
