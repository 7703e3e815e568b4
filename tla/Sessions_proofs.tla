---------------------------- MODULE Sessions_proofs ----------------------------
(***************************************************************************)
(* What the two ends of a session receive, for every set of public clients *)
(* and proxy connections, every number of sessions and of units and either *)
(* closing order.                                                          *)
(*                                                                         *)
(* A proxy connection carries one session after the other, and nothing in  *)
(* its payload says to which of them a unit belongs.  PublicGetsPrefix:    *)
(* the connection itself is in one place at a time (Flow), server and      *)
(* client agree on how many sessions it has carried (Counts, Newest),      *)
(* payload of a session comes behind the message that offers it (Behind),  *)
(* and so what the server splices while the connection is started was sent *)
(* by the session's own local connection (Carried, Received).              *)
(*                                                                         *)
(* SessionsIntact: between two sessions both ProxyConnects are as new      *)
(* (Rest), and in a session each direction goes through the four stages of *)
(* Course, in the order that the local server's close gives.  A direction  *)
(* is done only when its counts are equal, and they are compared only when *)
(* the right announcement has been counted.  So FIN comes last, whatever   *)
(* the two unordered connections deliver first.  This needs counters that  *)
(* do not wrap within a session (ShortSessions).                           *)
(*                                                                         *)
(* A connection a session of which two threads completed at once is left   *)
(* out: it is in the free list twice.                                      *)
(***************************************************************************)
EXTENDS ProxyTunnel_proofs

-----------------------------------------------------------------------------
\* What arrives at the server's end of a proxy connection.

LEMMA AnswerElsewhere ==
    ASSUME TypeOK, NEW d \in Proxy, HandleProxyConnectReq(d)
    PROVE  \A u \in Side, b \in Proxy : b # d => stream'[u][b] = stream[u][b]
BY SideType DEF HandleProxyConnectReq, TypeOK

\* What a step does to the server's end of c, element by element.
LEMMA Arrivals ==
    ASSUME TypeOK, Next, NEW c \in Proxy
    PROVE  \/ stream'["server"][c] = stream["server"][c]
           \/ DropPayload("server", c) \/ ReadnGoesOn("server", c)
           \/ ClaimProxyConn(c) \/ HandleStartProxyConnRsp(c)
           \/ SplicePayload("server", c)
           \/ HandleProxyNotify(c) \/ HandleProxyConnectReq(c)
           \/ \E z \in Local : RelayPayload(z) /\ relay[z].conn = c
<1> USE SideType, Sides
<1> DEFINE Goal ==
           \/ stream'["server"][c] = stream["server"][c]
           \/ DropPayload("server", c) \/ ReadnGoesOn("server", c)
           \/ ClaimProxyConn(c) \/ HandleStartProxyConnRsp(c)
           \/ SplicePayload("server", c)
           \/ HandleProxyNotify(c) \/ HandleProxyConnectReq(c)
           \/ \E z \in Local : RelayPayload(z) /\ relay[z].conn = c
<1>1. ASSUME NEW u \in Side, NEW d \in Proxy, NEW r, stream' = [stream EXCEPT ![u][d] = r],
             u # "server" \/ d # c
      PROVE  Goal
  BY <1>1 DEF TypeOK
<1>2. ASSUME NEW d \in Proxy, ClaimProxyConn(d) \/ HandleStartProxyConnRsp(d)
      PROVE  Goal
  <2>1. stream' = [stream EXCEPT !["server"][d] = Tail(stream["server"][d])]
    BY <1>2 DEF ClaimProxyConn, HandleStartProxyConnRsp, TypeOK
  <2> HIDE DEF Goal
  <2>2. d # c => Goal
    BY <1>1, <2>1
  <2> QED BY <1>2, <2>2 DEF Goal
<1>3. ASSUME NEW u \in Side, NEW d \in Proxy, DropPayload(u, d) \/ ReadnGoesOn(u, d) PROVE Goal
  <2>1. stream' = [stream EXCEPT ![u][d] = Tail(stream[u][d])]
    BY <1>3 DEF DropPayload, ReadnGoesOn, TypeOK
  <2> HIDE DEF Goal
  <2>2. u # "server" \/ d # c => Goal
    BY <1>1, <2>1
  <2> QED BY <1>3, <2>2 DEF Goal
<1>4. ASSUME NEW u \in Side, NEW d \in Proxy, SplicePayload(u, d) PROVE Goal
  <2>1. PICK k : stream' = [stream EXCEPT ![u][d] = Unread(stream[u][d], k)]
    BY <1>4 DEF SplicePayload, TypeOK
  <2> HIDE DEF Goal
  <2>2. u # "server" \/ d # c => Goal
    BY <1>1, <2>1
  <2> QED BY <1>4, <2>2 DEF Goal
<1>5. ASSUME NEW d \in Proxy, HandleProxyNotify(d) PROVE Goal
  <2>1. stream' = [stream EXCEPT !["server"][d] = Append(stream["server"][d], MetaSet)]
    BY <1>5 DEF HandleProxyNotify, SendStream, TypeOK
  <2> HIDE DEF Goal
  <2>2. d # c => Goal
    BY <1>1, <2>1
  <2> QED BY <1>5, <2>2 DEF Goal
<1>6. ASSUME NEW p \in Public, ReuseProxyConn(p) PROVE Goal
  <2> DEFINE d == freeList[Len(freeList)]
  <2>1. d \in Proxy
    BY <1>6, SeqType DEF ReuseProxyConn, TypeOK
  <2>2. stream' = [stream EXCEPT !["client"][d] = Append(stream["client"][d], ConnectReq(p))]
    BY <1>6, <2>1 DEF ReuseProxyConn, SendStream, TypeOK
  <2> HIDE DEF Goal, d
  <2> QED BY <1>1, <2>1, <2>2
<1>7. ASSUME NEW d \in Proxy, HandleProxyConnectReq(d) PROVE Goal
  <2>1. \A u \in Side, b \in Proxy : b # d => stream'[u][b] = stream[u][b]
    BY <1>7, AnswerElsewhere
  <2> QED BY <1>7, <2>1
<1>8. ASSUME NEW e \in Endpoint, RelayPayload(e) PROVE Goal
  <2> DEFINE u == Other(SideOf(e))
             d == relay[e].conn
  <2>1. d \in Proxy /\ u \in Side
    BY <1>8, RelayType DEF RelayPayload, RelayReadable, TypeOK
  <2>2. PICK k : stream' = [stream EXCEPT ![u][d] = stream[u][d] \o
                              [i \in 1 .. k |-> Data(e, sock[e].read + i)]]
    BY <1>8, <2>1 DEF RelayPayload, TypeOK
  <2>3. u = "server" => e \in Local
    OBVIOUS
  <2> HIDE DEF Goal, u, d
  <2>4. u # "server" \/ d # c => Goal
    BY <1>1, <2>1, <2>2
  <2> QED BY <1>8, <2>3, <2>4 DEF Goal, d
<1>9. /\ \A e \in Endpoint : Send(e) \/ Fin(e) \/ RelayEof(e) => stream' = stream
      /\ AddWaitProxyConn \/ HandleFreeProxyConnReq => stream' = stream
      /\ \A p \in Public : NotifyClientNeedProxy(p) => stream' = stream
      /\ \A u \in Side : HandleShutdownPeerConn(u) => stream' = stream
      /\ \A d \in Proxy : NewProxyConn(d) => stream' = stream
      /\ \A u \in Side, t \in Thread : CompareCounts(u, t) \/ ShutdownFromRemote(u, t)
                                          => stream' = stream
      /\ \A t \in Thread : FreeProxyConn(t) \/ RecycleProxyConn(t) \/ SendFreeConnReq(t)
                              => stream' = stream
      /\ \A t \in Thread : StartLocalConn(t) => stream' = stream
      /\ \A u \in Side, d \in Proxy : SendShutdown(u, d) => stream' = stream
  BY DEF Send, Fin, RelayEof, AddWaitProxyConn, NotifyClientNeedProxy, NewProxyConn,
         HandleShutdownPeerConn, ShutdownFromRemote, StartLocalConn,
         HandleFreeProxyConnReq, CompareCounts, FreeProxyConn, RecycleProxyConn,
         SendFreeConnReq, SendShutdown
<1>10. stream' = stream => Goal
  OBVIOUS
<1> HIDE DEF Goal
<1>11. Goal
  BY <1>2, <1>3, <1>4, <1>5, <1>6, <1>7, <1>8, <1>9, <1>10, NextCases
<1> QED BY <1>11 DEF Goal

\* Each of these takes the head of the stream.
LEMMA Taken ==
    ASSUME TypeOK, NEW c \in Proxy,
           DropPayload("server", c) \/ ReadnGoesOn("server", c)
           \/ ClaimProxyConn(c) \/ HandleStartProxyConnRsp(c)
    PROVE  /\ stream["server"][c] \in Seq(Elem) /\ stream["server"][c] # <<>>
           /\ stream'["server"][c] = Tail(stream["server"][c])
           /\ ran' = ran /\ sock' = sock
<1> USE SideType, Sides
<1>1. stream["server"][c] \in Seq(Elem) /\ stream["server"][c] # <<>>
  BY DEF DropPayload, ReadnGoesOn, ClaimProxyConn, HandleStartProxyConnRsp, NextMsg, Readable, TypeOK
<1>2. stream' = [stream EXCEPT !["server"][c] = Tail(stream["server"][c])]
  BY DEF DropPayload, ReadnGoesOn, ClaimProxyConn, HandleStartProxyConnRsp, TypeOK
<1>3. ran' = ran /\ sock' = sock
  BY DEF DropPayload, ReadnGoesOn, ClaimProxyConn, HandleStartProxyConnRsp
<1>4. stream'["server"][c] = Tail(stream["server"][c])
  BY <1>2 DEF TypeOK
<1> QED BY <1>1, <1>3, <1>4

\* readn is entered for payload on the message path only.
LEMMA HeldStep ==
    ASSUME Next, NEW s \in Side, NEW c \in Proxy, ~DropPayload(s, c)
    PROVE  <<s, c>> \in held' => <<s, c>> \in held
<1>1. ASSUME NEW u \in Side, NEW d \in Proxy, DropPayload(u, d) \/ ReadnGoesOn(u, d)
      PROVE  <<s, c>> \in held' => <<s, c>> \in held
  BY <1>1 DEF DropPayload, ReadnGoesOn
<1>2. /\ \A e \in Endpoint : Send(e) \/ Fin(e) \/ RelayPayload(e) \/ RelayEof(e)
                                => held' = held
      /\ AddWaitProxyConn \/ HandleFreeProxyConnReq => held' = held
      /\ \A p \in Public : ReuseProxyConn(p) \/ NotifyClientNeedProxy(p) => held' = held
      /\ \A u \in Side : HandleShutdownPeerConn(u) => held' = held
      /\ \A d \in Proxy : NewProxyConn(d) \/ HandleProxyNotify(d) => held' = held
      /\ \A d \in Proxy : \/ ClaimProxyConn(d) \/ HandleStartProxyConnRsp(d)
                           \/ HandleProxyConnectReq(d)
                              => held' = held
      /\ \A u \in Side, t \in Thread : CompareCounts(u, t) \/ ShutdownFromRemote(u, t)
                                          => held' = held
      /\ \A t \in Thread : FreeProxyConn(t) \/ RecycleProxyConn(t) => held' = held
      /\ \A t \in Thread : SendFreeConnReq(t) \/ StartLocalConn(t) => held' = held
      /\ \A u \in Side, d \in Proxy : SendShutdown(u, d) \/ SplicePayload(u, d)
                                          => held' = held
  BY ZenonT(40) DEF Send, Fin, RelayPayload, RelayEof, AddWaitProxyConn, ReuseProxyConn,
         NotifyClientNeedProxy, HandleFreeProxyConnReq, HandleShutdownPeerConn,
         NewProxyConn, HandleProxyNotify, ClaimProxyConn, HandleStartProxyConnRsp,
         HandleProxyConnectReq, CompareCounts, ShutdownFromRemote, FreeProxyConn,
         RecycleProxyConn, SendFreeConnReq, StartLocalConn, SendShutdown, SplicePayload
<1> QED BY <1>1, <1>2, NextCases

\* What RelayPayload puts behind what is there.
LEMMA Relayed ==
    ASSUME TypeOK, NEW z \in Local, RelayPayload(z)
    PROVE  LET c == relay[z].conn
           IN  /\ c \in Proxy /\ job["client"][c] = Idle
               /\ \E r \in Seq(Elem) :
                    /\ stream'["server"][c] = stream["server"][c] \o r
                    /\ \A i \in 1 .. Len(r) : r[i] = Data(z, sock[z].read + i)
                    /\ sock'[z].read = sock[z].read + Len(r)
               /\ \A e \in Endpoint : e # z => sock'[e] = sock[e]
               /\ \A e \in Endpoint : sock'[e].got = sock[e].got
               /\ UNCHANGED <<bound, ran, pconn>>
<1> USE SideType, Sides
<1> DEFINE c == relay[z].conn
           fed(k) == [i \in 1 .. k |-> Data(z, sock[z].read + i)]
<1>1. c \in Proxy /\ sock[z] \in Socket /\ job["client"][c] = Idle
  BY RelayType DEF RelayPayload, RelayReadable, TypeOK
<1>2. PICK k \in 1 .. (sock[z].sent - sock[z].read) :
        /\ stream' = [stream EXCEPT !["server"][c] = @ \o fed(k)]
        /\ sock' = [sock EXCEPT ![z].read = @ + k]
  BY DEF RelayPayload
<1>3. sock[z].sent \in 0 .. MaxUnits /\ sock[z].read \in 0 .. MaxUnits
  BY <1>1, SocketType
<1>4. k \in Nat /\ \A i \in 1 .. k : sock[z].read + i \in 1 .. MaxUnits
  BY <1>3, ConstantsAssumption
<1>5. /\ fed(k) \in Seq(Elem) /\ Len(fed(k)) = k
      /\ \A i \in 1 .. Len(fed(k)) : fed(k)[i] = Data(z, sock[z].read + i)
  BY <1>4, ElemType DEF Data
<1> HIDE DEF fed
<1>6. stream'["server"][c] = stream["server"][c] \o fed(k)
  BY <1>1, <1>2 DEF TypeOK
<1>7. sock'[z] = [sock[z] EXCEPT !.read = sock[z].read + k]
      /\ \A e \in Endpoint : e # z => sock'[e] = sock[e]
  BY <1>2 DEF TypeOK
<1>8. sock'[z].read = sock[z].read + k /\ sock'[z].got = sock[z].got
  BY <1>1, <1>7 DEF Socket
<1>9. \A e \in Endpoint : sock'[e].got = sock[e].got
  BY <1>7, <1>8
<1>10. UNCHANGED <<bound, ran, pconn>>
  BY DEF RelayPayload
<1> QED BY <1>1, <1>5, <1>6, <1>7, <1>8, <1>9, <1>10

\* What SplicePayload takes from the front, and where it puts it.
LEMMA Spliced ==
    ASSUME TypeOK, NEW s \in Side, NEW c \in Proxy, SplicePayload(s, c)
    PROVE  LET x == pconn[s][c].peer
           IN  /\ pconn[s][c].start
               /\ \E k \in 1 .. Len(stream[s][c]) :
                    /\ stream'[s][c] = Unread(stream[s][c], k)
                    /\ x \in Endpoint =>
                         sock'[x].got = sock[x].got \o SubSeq(stream[s][c], 1, k)
               /\ \A e \in Endpoint : e # x => sock'[e] = sock[e]
               /\ \A e \in Endpoint : sock'[e].read = sock[e].read
               /\ UNCHANGED <<bound, ran>>
<1> USE SideType, Sides
<1> DEFINE x == pconn[s][c].peer
           q == stream[s][c]
<1>1. PICK k \in 1 .. Len(q) :
        /\ stream' = [stream EXCEPT ![s][c] = Unread(@, k)]
        /\ sock' = [sock EXCEPT ![x].got = @ \o SubSeq(q, 1, k)]
  BY Zenon DEF SplicePayload
<1>2. stream'[s][c] = Unread(q, k)
  BY <1>1 DEF TypeOK
<1>3. /\ x \in Endpoint => sock'[x] = [sock[x] EXCEPT !.got = sock[x].got \o SubSeq(q, 1, k)]
      /\ \A e \in Endpoint : e # x => sock'[e] = sock[e]
  BY <1>1 DEF TypeOK
<1>4. \A e \in Endpoint : sock[e] \in Socket
  BY DEF TypeOK
<1>5. x \in Endpoint => /\ sock'[x].got = sock[x].got \o SubSeq(q, 1, k)
                        /\ sock'[x].read = sock[x].read
  BY <1>3, <1>4 DEF Socket
<1>6. pconn[s][c].start /\ UNCHANGED <<bound, ran>>
  BY DEF SplicePayload
<1>7. \A e \in Endpoint : sock'[e].read = sock[e].read
  BY <1>3, <1>5
<1> QED BY <1>2, <1>3, <1>5, <1>6, <1>7

-----------------------------------------------------------------------------
\* What follows the offer of a session, and what has been relayed in it.

\* The local connection of the session that c has or is about to have.
Newcomer(c) == <<c, ran[c]>>

\* While a session is offered to the server, what its local connection has
\* sent follows the offer.
Behind(c) == BehindOn(stream["server"][c], Newcomer(c), sock[Newcomer(c)].read)

\* While c is started, what its public client has and what is on the way to it
\* is what was read from its local connection, and no readn takes any of it.
Carried(c) ==
    pconn["server"][c].start =>
        /\ <<"server", c>> \notin held
        /\ CarriesOn(sock[Last(bound[c])].got, stream["server"][c], Newcomer(c),
                     sock[Newcomer(c)].read)

\* What the public clients of c have.
Received(c) == \A i \in 1 .. Len(bound[c]) : PrefixOf(sock[bound[c][i]].got, <<c, i>>)

\* Only the newest local connection of c, once started, is read.
LEMMA NewestReads ==
    ASSUME TypeOK, Owners, NEW c \in Proxy, Newest(c), NEW z \in Local, RelayPayload(z),
           z[1] = c \/ relay[z].conn = c
    PROVE  relay[z].conn = c /\ z = Newcomer(c) /\ ran[c] \in 1 .. MaxSession
<1>1. relay[z].conn \in Proxy /\ job["client"][relay[z].conn] = Idle
  BY Relayed
<1>2. relay[z].conn = z[1]
  BY <1>1, Threads DEF Owners, OwnRelays
<1>3. z[2] = ran[c]
  BY <1>1, <1>2, JobFields DEF Newest
<1> QED BY <1>2, <1>3, Threads DEF Newcomer

LEMMA ReadNat ==
    ASSUME TypeOK
    PROVE  \A e \in Endpoint : sock[e].read \in Nat
<1>1. \A e \in Endpoint : sock[e] \in Socket
  BY DEF TypeOK
<1>2. \A e \in Endpoint : sock[e].read \in 0 .. MaxUnits
  BY <1>1, SocketType
<1>3. \A i \in 0 .. MaxUnits : i \in Nat
  BY ConstantsAssumption
<1> QED BY <1>2, <1>3

LEMMA ServerSpliced ==
    ASSUME TypeOK, NEW c \in Proxy, SplicePayload("server", c)
    PROVE  \E k \in 1 .. Len(stream["server"][c]) :
             stream'["server"][c] = Unread(stream["server"][c], k)
BY SideType, Spliced

LEMMA BehindStep ==
    ASSUME TypeOK, TypeOK', Owners, Claimed, Fresh, MetaOnce, Next,
           NEW c \in Proxy, Flow(c), Counts(c), Newest(c), Behind(c)
    PROVE  Behind(c)'
<1> USE SideType, Sides, Threads
<1> DEFINE q == stream["server"][c]
           n == ran[c]
<1>0. /\ q \in Seq(Elem) /\ n \in 0 .. MaxSession /\ n \in Nat
      /\ bound[c] \in Seq(Public)
  BY RanAt DEF TypeOK
<1>1. CASE HandleProxyNotify(c)
  <2>1. life[c] = "absent"
    BY <1>1 DEF HandleProxyNotify, CreateProxyConn
  <2>2. n = 0 /\ Unmade(c)
    BY <2>1 DEF Fresh
  <2>3. ran'[c] = 1 /\ 1 \in 1 .. MaxSession /\ <<c, 1>> \in Local
    <3>1. ran'[c] = 1
      BY <1>1, <2>2 DEF HandleProxyNotify, CreateLocalConn, TypeOK
    <3>2. 1 \in 1 .. MaxSession
      BY ConstantsAssumption
    <3> QED BY <3>1, <3>2
  <2>4. sock[<<c, 1>>].read = 0
    BY <2>2, <2>3 DEF Newest
  <2>5. ~RelayPayload(<<c, 1>>)
    BY <2>2, <2>3, NewestReads
  <2>6. sock'[<<c, 1>>].read = 0
    BY <2>3, <2>4, <2>5, SockSteps
  <2>7. stream'["server"][c] = Append(q, MetaSet)
    BY <1>1 DEF HandleProxyNotify, SendStream, TypeOK
  <2>8. ~Has(q, OfKind("meta")) /\ ~Has(q, OfKind("rsp"))
    BY <2>2 DEF Unmade, Has
  <2>9. BehindOn(Append(q, MetaSet), <<c, 1>>, 0)
    BY <1>0, <2>8, BehindAppend, ElemType DEF MetaSet
  <2> QED BY <2>3, <2>6, <2>7, <2>9 DEF Behind, Newcomer
<1>2. CASE HandleProxyConnectReq(c)
  <2> DEFINE p == Head(stream["client"][c]).fd
  <2>1. Requests(c)
    BY <1>2, HeadKinds
  <2>2. ~Offers(c) /\ ~Answers(c)
    BY <2>1, ClaimedOffersNothing DEF Flow, Claimed, NotInUse
  <2>3. ran'[c] = n + 1 /\ n < MaxSession
    BY <1>2 DEF HandleProxyConnectReq, CreateLocalConn, TypeOK
  <2>4. n + 1 \in 1 .. MaxSession /\ <<c, n + 1>> \in Local /\ n + 1 > n /\ n + 1 # n
    BY <1>0, <2>3, ConstantsAssumption
  <2>5. sock[<<c, n + 1>>].read = 0
    BY <2>4 DEF Newest
  <2>6. ~RelayPayload(<<c, n + 1>>)
    BY <2>4, NewestReads DEF Newcomer
  <2>7. sock'[<<c, n + 1>>].read = 0
    BY <2>4, <2>5, <2>6, SockSteps
  <2>8. stream'["server"][c] = Append(q, ConnectRsp(p)) /\ ConnectRsp(p) \in Elem
    <3>1. stream["client"][c] \in Seq(Elem) /\ stream["client"][c] # <<>>
          /\ Head(stream["client"][c]).kind = "req"
      BY <1>2 DEF HandleProxyConnectReq, NextMsg, Readable, TypeOK
    <3>2. p \in Public
      BY <3>1, SeqType, ElemType
    <3>3. ConnectRsp(p) \in Elem
      BY <3>2, ElemType
    <3>4. stream'["server"][c] = Append(q, ConnectRsp(p))
      BY <1>2 DEF HandleProxyConnectReq, TypeOK
    <3> QED BY <3>3, <3>4
  <2>9. BehindOn(Append(q, ConnectRsp(p)), <<c, n + 1>>, 0)
    <3> HIDE DEF q, p, n
    <3> QED BY <1>0, <2>2, <2>8, BehindAppend DEF Offers, Answers, q
  <2> QED BY <2>3, <2>7, <2>8, <2>9 DEF Behind, Newcomer
<1>3. ASSUME NEW z \in Local, RelayPayload(z), relay[z].conn = c
      PROVE  Behind(c)'
  <2>1. z = Newcomer(c)
    BY <1>3, NewestReads
  <2>2. PICK r \in Seq(Elem) :
          /\ stream'["server"][c] = q \o r
          /\ \A i \in 1 .. Len(r) : r[i] = Data(z, sock[z].read + i)
          /\ sock'[z].read = sock[z].read + Len(r)
    BY <1>3, Relayed
  <2>3. ran' = ran
    BY <1>3, Relayed
  <2>4. sock[z].read \in Nat /\ BehindOn(q, z, sock[z].read)
    BY <2>1, ReadNat DEF Behind
  <2>5. BehindOn(q \o r, z, sock[z].read + Len(r))
    <3> HIDE DEF q
    <3> QED BY <1>0, <2>2, <2>4, BehindConcat
  <2>6. Newcomer(c)' = z
    BY <2>1, <2>3 DEF Newcomer
  <2> QED BY <2>2, <2>5, <2>6 DEF Behind
<1>4. ASSUME ~HandleProxyNotify(c), ~HandleProxyConnectReq(c),
             ~\E z \in Local : RelayPayload(z) /\ relay[z].conn = c
      PROVE  Behind(c)'
  <2>1. CASE ~Offers(c)' /\ ~Answers(c)'
    <3>1. stream'["server"][c] \in Seq(Elem)
      BY DEF TypeOK
    <3>2. \A i \in 1 .. Len(stream'["server"][c]) : stream'["server"][c][i] \in Elem
      BY <3>1
    <3> QED BY <2>1, <3>2, Kinds DEF Behind, BehindOn, Offers, Answers, Has
  <2>2. CASE Offers(c)' \/ Answers(c)'
    <3>1. Offers(c) \/ Answers(c)
      BY <1>4, <2>2, KindSteps DEF Offers, Answers, Shrinks
    <3>2. n \in 1 .. MaxSession
      BY <1>0, <3>1 DEF Counts
    <3> DEFINE z == Newcomer(c)
    <3>3. z \in Local /\ z[1] = c
      BY <3>2 DEF Newcomer
    <3>4. ~RelayPayload(z)
      BY <1>4, <3>3, NewestReads
    <3>5. sock'[z].read = sock[z].read /\ sock[z].read \in Nat
      BY <3>3, <3>4, SockSteps, ReadNat
    <3>6. Newcomer(c)' = z
      BY <1>4, RanAt DEF Newcomer
    <3>7. BehindOn(q, z, sock[z].read)
      BY DEF Behind
    <3> DEFINE m == sock[z].read
    <3>8. BehindOn(stream'["server"][c], z, m)
      <4>0. m \in Nat /\ BehindOn(q, z, m)
        BY <3>5, <3>7
      <4> HIDE DEF z, m, n
      <4>1. CASE stream'["server"][c] = q
        BY <4>0, <4>1
      <4>2. CASE q # <<>> /\ stream'["server"][c] = Tail(q)
        <5> HIDE DEF q
        <5>1. 1 \in 1 .. Len(q) /\ Tail(q) = Unread(q, 1)
          BY <1>0, <4>2, TailUnread
        <5>2. BehindOn(Unread(q, 1), z, m)
          BY <1>0, <4>0, <5>1, BehindUnread
        <5>3. stream'["server"][c] = Unread(q, 1)
          BY <4>2, <5>1
        <5> QED BY <5>2, <5>3
      <4>3. CASE \E k \in 1 .. Len(q) : stream'["server"][c] = Unread(q, k)
        <5> HIDE DEF q
        <5> QED BY <1>0, <4>0, <4>3, BehindUnread
      <4>4. \/ stream'["server"][c] = q
            \/ DropPayload("server", c) \/ ReadnGoesOn("server", c)
            \/ ClaimProxyConn(c) \/ HandleStartProxyConnRsp(c)
            \/ SplicePayload("server", c)
        BY <1>4, Arrivals
      <4>5. ASSUME SplicePayload("server", c)
            PROVE  \E k \in 1 .. Len(q) : stream'["server"][c] = Unread(q, k)
        BY <4>5, ServerSpliced
      <4> QED BY <4>1, <4>2, <4>3, <4>4, <4>5, Taken
    <3> QED BY <3>5, <3>6, <3>8 DEF Behind
  <2> QED BY <2>1, <2>2
<1> QED BY <1>1, <1>2, <1>3, <1>4

-----------------------------------------------------------------------------
\* A public fd is bound once, and empty when it is.

\* What FdInv says about the fds that are bound and the one that is next.
LEMMA BoundApart ==
    ASSUME FdInv, NEW p \in Public
    PROVE  /\ \A c, d \in Proxy : Has(bound[c], {p}) /\ Has(bound[d], {p}) => c = d
           /\ \A c \in Proxy : Once(bound[c], {p})
           /\ IsBound(p) => /\ ~Has(unhandled, {p})
                            /\ \A s \in Side, c \in Proxy :
                                 ~Has(stream[s][c], {ConnectReq(p), ConnectRsp(p)})
<1>1. OnePlace(p)
  BY DEF FdInv
<1>2. ASSUME NEW c \in Proxy PROVE Has(bound[c], {p}) <=> HasFd(BoundTo(c), p)
  BY HeldAt, TokenAt DEF HasFd
<1>3. \A c, d \in Proxy : Has(bound[c], {p}) /\ Has(bound[d], {p}) => c = d
  BY <1>1, <1>2, Places DEF OnePlace
<1>4. ASSUME NEW c \in Proxy PROVE Once(bound[c], {p})
  <2>1. Once(Held(BoundTo(c)), Token(BoundTo(c), p))
    BY <1>1, Places DEF OnePlace
  <2> QED BY <2>1, HeldAt, TokenAt
<1>5. ASSUME NEW c \in Proxy, Has(bound[c], {p}) PROVE ~Has(unhandled, {p})
  <2>1. Has(unhandled, {p}) <=> HasFd(Waiting, p)
    BY HeldAt, TokenAt DEF HasFd
  <2> QED BY <1>1, <1>2, <1>5, <2>1, Places DEF OnePlace
<1>6. ASSUME NEW c \in Proxy, Has(bound[c], {p}), NEW s \in Side, NEW d \in Proxy
      PROVE  ~Has(stream[s][d], {ConnectReq(p), ConnectRsp(p)})
  <2>1. Has(stream[s][d], {ConnectReq(p), ConnectRsp(p)}) <=> HasFd(Asking(s, d), p)
    BY HeldAt, TokenAt DEF HasFd
  <2> QED BY <1>1, <1>2, <1>6, <2>1, Places DEF OnePlace
<1> QED BY <1>3, <1>4, <1>5, <1>6 DEF IsBound

\* bindPublicFdToProxyConn gets a fd that has received nothing.
LEMMA BindsFresh ==
    ASSUME FdInv, Owners, NEW c \in Proxy, NEW p \in Public, Binds(c, p)
    PROVE  sock[p].got = <<>>
<1> USE SideType
<1>0. TypeOK
  BY DEF FdInv
<1>1. Has(unhandled, {p}) \/ Has(stream["server"][c], {ConnectReq(p), ConnectRsp(p)})
  <2>1. CASE unhandled # <<>> /\ p = unhandled[Len(unhandled)]
    <3>1. unhandled \in Seq(Public)
      BY <1>0 DEF TypeOK
    <3>2. Has(unhandled, {p})
      BY <2>1, <3>1, OncePopBack
    <3> QED BY <3>2
  <2>2. CASE Head(stream["server"][c]).kind = "rsp" /\ p = Head(stream["server"][c]).fd
    <3> DEFINE q == stream["server"][c]
    <3>1. q \in Seq(Elem) /\ q # <<>>
      BY <1>0 DEF Binds, TypeOK
    <3>2. Head(q) \in Elem
      BY <3>1, SeqType
    <3>3. Head(q) \in {ConnectReq(p), ConnectRsp(p)}
      BY <2>2, <3>2 DEF Elem, ConnectRsp
    <3> HIDE DEF q
    <3>4. Has(q, {ConnectReq(p), ConnectRsp(p)})
      BY <3>1, <3>3, OnceTail
    <3> QED BY <3>4 DEF q
  <2> QED BY <2>1, <2>2 DEF Binds
<1>2. ~IsBound(p)
  BY <1>1, BoundApart
<1> QED BY <1>2 DEF Owners, OwnGot

LEMMA LastHas ==
    ASSUME NEW S, NEW q \in Seq(S), q # <<>>
    PROVE  /\ Len(q) \in 1 .. Len(q) /\ Last(q) \in S /\ Has(q, {Last(q)})
           /\ \A i \in 1 .. Len(q) : Once(q, {Last(q)}) /\ q[i] = Last(q) => i = Len(q)
<1>1. Len(q) \in 1 .. Len(q) /\ q[Len(q)] \in S
  OBVIOUS
<1> QED BY <1>1 DEF Last, Has, Once

\* A public client receives from the connection it was bound to last, if that
\* was its own last.
LEMMA PublicGets ==
    ASSUME FdInv, Owners, Next, NEW c \in Proxy, NEW i \in 1 .. Len(bound[c]),
           sock'[bound[c][i]].got # sock[bound[c][i]].got
    PROVE  /\ SplicePayload("server", c) /\ pconn["server"][c].start
           /\ i = Len(bound[c]) /\ bound[c][i] = Last(bound[c])
<1> USE SideType, Sides
<1> DEFINE p == bound[c][i]
<1>0. TypeOK /\ bound[c] \in Seq(Public) /\ p \in Public /\ Has(bound[c], {p})
  <2>1. TypeOK
    BY DEF FdInv
  <2>2. bound[c] \in Seq(Public)
    BY <2>1 DEF TypeOK
  <2>3. p \in Public
    BY <2>2
  <2> QED BY <2>1, <2>2, <2>3 DEF Has
<1>1. PICK s \in Side, d \in Proxy : SplicePayload(s, d) /\ pconn[s][d].peer = p
  BY <1>0, SockSteps
<1>2. pconn[s][d].start
  BY <1>1 DEF SplicePayload
<1>3. s = "server"
  <2>1. ASSUME s = "client" PROVE FALSE
    <3>1. pconn["client"][d].peer \in Local
      BY <1>2, <2>1 DEF Owners, OwnPeers
    <3> QED BY <1>0, <1>1, <2>1, <3>1
  <2> QED BY <2>1
<1>4. bound[d] # <<>> /\ p = Last(bound[d]) /\ bound[d] \in Seq(Public)
  BY <1>0, <1>1, <1>2, <1>3 DEF Owners, OwnPeers, TypeOK
<1>5. Has(bound[d], {p})
  BY <1>4, LastHas
<1>6. d = c
  BY <1>0, <1>5, BoundApart
<1>7. i = Len(bound[c])
  BY <1>0, <1>4, <1>6, LastHas, BoundApart
<1> QED BY <1>1, <1>2, <1>3, <1>4, <1>6, <1>7

\* What holds while c is started and not being bound.
LEMMA StartedSame ==
    ASSUME TypeOK, Owners, Claimed, Fresh, Next, NEW c \in Proxy, Flow(c), Counts(c),
           pconn["server"][c].start
    PROVE  /\ bound'[c] = bound[c] /\ bound[c] \in Seq(Public) /\ bound[c] # <<>>
           /\ ran'[c] = ran[c] /\ ran[c] = Len(bound[c])
           /\ Newcomer(c) \in Local /\ Newcomer(c)' = Newcomer(c) /\ Newcomer(c)[1] = c
           /\ ~HandleProxyNotify(c) /\ ~HandleProxyConnectReq(c)
<1> USE SideType, Sides, Threads
<1>1. c \in proxyMap /\ ~Requests(c)
  BY DEF Flow
<1>2. ~HandleProxyConnectReq(c)
  BY <1>1, HeadKinds
<1>3. life[c] = "claimed"
  BY DEF Claimed, NotInUse
<1>4. ~HandleProxyNotify(c)
  BY <1>3 DEF HandleProxyNotify, CreateProxyConn
<1>5. ran'[c] = ran[c] /\ ran[c] \in 0 .. MaxSession
  BY <1>2, <1>4, RanAt
<1>6. bound'[c] = bound[c] /\ bound[c] \in Seq(Public) /\ bound[c] # <<>>
  BY BoundGrows DEF Binds, Owners, OwnPeers
<1>7. ran[c] = Len(bound[c])
  BY <1>1 DEF Counts
<1>8. Len(bound[c]) >= 1
  BY <1>6
<1>9. ran[c] \in 1 .. MaxSession
  BY <1>5, <1>7, <1>8
<1>10. Newcomer(c) \in Local /\ Newcomer(c)' = Newcomer(c) /\ Newcomer(c)[1] = c
  BY <1>5, <1>9 DEF Newcomer
<1> QED BY <1>2, <1>4, <1>5, <1>6, <1>7, <1>10

LEMMA CarriedBinds ==
    ASSUME FdInv, Owners, Claimed, MetaOnce, Next, NEW c \in Proxy, NEW p \in Public,
           Binds(c, p), Flow(c), Counts(c), Behind(c)
    PROVE  Carried(c)'
<1> USE SideType, Sides, Threads
<1> DEFINE q == stream["server"][c]
           z == Newcomer(c)
           n == sock[z].read
<1>0. TypeOK
  BY DEF FdInv
<1>1. q \in Seq(Elem) /\ q # <<>> /\ stream'["server"][c] = Tail(q)
      /\ ran' = ran /\ sock' = sock
  BY <1>0, BindsHead
<1>2. Head(q).kind \in {"meta", "rsp"}
  BY DEF Binds
<1>3. Offers(c) \/ Answers(c)
  BY <1>1, <1>2, HeadHas DEF Offers, Answers
<1>4. z \in Local
  <2>1. ran[c] = Len(bound[c]) + 1
    BY <1>3 DEF Counts
  <2>2. bound[c] \in Seq(Public) /\ ran[c] \in 0 .. MaxSession
    BY <1>0 DEF TypeOK
  <2>3. ran[c] \in 1 .. MaxSession
    BY <2>1, <2>2
  <2> QED BY <2>3 DEF Newcomer
<1>5. n \in Nat
  BY <1>0, <1>4, ReadNat
<1>6. CarriesOn(<<>>, Tail(q), z, n)
  <2>1. BehindOn(q, z, n)
    BY DEF Behind
  <2> HIDE DEF q, z, n
  <2> QED BY <1>1, <1>2, <1>5, <2>1, CarriesStart
<1>7. Last(bound'[c]) = p
  <2>1. bound'[c] = Append(bound[c], p) /\ bound[c] \in Seq(Public)
    BY <1>0, BoundGrows
  <2>2. Append(bound[c], p)[Len(Append(bound[c], p))] = p
    BY <2>1
  <2> QED BY <2>1, <2>2 DEF Last
<1>8. sock[p].got = <<>>
  BY BindsFresh
<1>9. Newcomer(c)' = z
  BY <1>1 DEF Newcomer
<1>10. <<"server", c>> \notin held'
  BY DEF Binds, ClaimProxyConn, HandleStartProxyConnRsp, NextMsg, Readable
<1> QED BY <1>1, <1>6, <1>7, <1>8, <1>9, <1>10 DEF Carried

LEMMA SplicedTo ==
    ASSUME TypeOK, NEW c \in Proxy, NEW p \in Endpoint, SplicePayload("server", c),
           pconn["server"][c].peer = p
    PROVE  /\ \E k \in 1 .. Len(stream["server"][c]) :
                /\ stream'["server"][c] = Unread(stream["server"][c], k)
                /\ sock'[p].got = sock[p].got \o SubSeq(stream["server"][c], 1, k)
           /\ \A e \in Endpoint : sock'[e].read = sock[e].read
<1> DEFINE s == "server"
<1>1. s \in Side
  BY SideType
<1>2. SplicePayload(s, c) /\ pconn[s][c].peer = p
  OBVIOUS
<1> HIDE DEF s
<1> DEFINE x == pconn[s][c].peer
<1>3. x \in Endpoint
  BY <1>2
<1>4. /\ \E k \in 1 .. Len(stream[s][c]) :
           /\ stream'[s][c] = Unread(stream[s][c], k)
           /\ x \in Endpoint =>
                sock'[x].got = sock[x].got \o SubSeq(stream[s][c], 1, k)
      /\ \A e \in Endpoint : sock'[e].read = sock[e].read
  BY <1>1, <1>2, Spliced, Zenon
<1>5. x = p
  BY <1>2
<1> HIDE DEF x
<1> QED BY <1>3, <1>4, <1>5 DEF s

LEMMA RelayedTo ==
    ASSUME TypeOK, NEW c \in Proxy, NEW z \in Local, RelayPayload(z), relay[z].conn = c
    PROVE  /\ \E r \in Seq(Elem) :
                /\ stream'["server"][c] = stream["server"][c] \o r
                /\ \A i \in 1 .. Len(r) : r[i] = Data(z, sock[z].read + i)
                /\ sock'[z].read = sock[z].read + Len(r)
           /\ \A e \in Endpoint : sock'[e].got = sock[e].got
BY Relayed

LEMMA PublicTypes ==
    ASSUME TypeOK, NEW c \in Proxy, NEW p \in Endpoint, NEW z \in Endpoint
    PROVE  /\ stream["server"][c] \in Seq(Elem) /\ sock[p].got \in Seq(Elem)
           /\ sock[z].read \in Nat
<1>1. sock[p] \in Socket
  BY DEF TypeOK
<1>2. sock[p].got \in Seq(Elem)
  BY <1>1, SocketType
<1>3. stream["server"][c] \in Seq(Elem)
  BY SideType DEF TypeOK
<1> QED BY <1>2, <1>3, ReadNat

LEMMA CarriedStep ==
    ASSUME FdInv, TypeOK', Owners, Claimed, Fresh, MetaOnce, Next,
           NEW c \in Proxy, Flow(c), Counts(c), Newest(c), Behind(c), Carried(c)
    PROVE  Carried(c)'
<1> USE SideType, Sides, Threads
<1>0. TypeOK
  BY DEF FdInv
<1>1. CASE \E p \in Public : Binds(c, p)
  BY <1>1, CarriedBinds
<1>2. ASSUME ~\E p \in Public : Binds(c, p), pconn'["server"][c].start
      PROVE  Carried(c)'
  <2> DEFINE q == stream["server"][c]
             z == Newcomer(c)
             n == sock[z].read
             p == Last(bound[c])
             got == sock[p].got
  <2>1. pconn["server"][c].start
    BY <1>0, <1>2, ConnSteps DEF Kept
  <2>2. /\ bound'[c] = bound[c] /\ bound[c] \in Seq(Public) /\ bound[c] # <<>>
        /\ z \in Local /\ Newcomer(c)' = z /\ z[1] = c
        /\ ~HandleProxyNotify(c) /\ ~HandleProxyConnectReq(c)
    BY <1>0, <2>1, StartedSame
  <2>3. p \in Public /\ p \in Endpoint /\ Len(bound[c]) \in 1 .. Len(bound[c])
        /\ p = bound[c][Len(bound[c])]
    BY <2>2, LastHas DEF Last
  <2>4. q \in Seq(Elem) /\ got \in Seq(Elem) /\ n \in Nat
    BY <1>0, <2>2, <2>3, PublicTypes
  <2>5. <<"server", c>> \notin held /\ CarriesOn(got, q, z, n)
    BY <2>1 DEF Carried
  <2>10. ~DropPayload("server", c) /\ ~ReadnGoesOn("server", c)
         /\ ~ClaimProxyConn(c) /\ ~HandleStartProxyConnRsp(c)
    BY <2>1, <2>5 DEF DropPayload, ReadnGoesOn, ClaimProxyConn, HandleStartProxyConnRsp,
                      NextMsg
  <2>11. <<"server", c>> \notin held'
    BY <2>5, <2>10, HeldStep
  <2>6. SUFFICES CarriesOn(sock'[p].got, stream'["server"][c], z, sock'[z].read)
    BY <2>2, <2>11 DEF Carried
  <2>7. CASE SplicePayload("server", c)
    <3>1. pconn["server"][c].peer = p
      BY <2>1 DEF Owners, OwnPeers
    <3>2. /\ \E k \in 1 .. Len(q) : /\ stream'["server"][c] = Unread(q, k)
                                    /\ sock'[p].got = got \o SubSeq(q, 1, k)
          /\ sock'[z].read = n
      BY <1>0, <2>2, <2>3, <2>7, <3>1, SplicedTo
    <3> HIDE DEF q, z, n, p, got
    <3> QED BY <2>4, <2>5, <3>2, CarriesUnread
  <2>8. ASSUME NEW x \in Local, RelayPayload(x), relay[x].conn = c
        PROVE  CarriesOn(sock'[p].got, stream'["server"][c], z, sock'[z].read)
    <3>1. x = z
      BY <1>0, <2>8, NewestReads
    <3>4. PICK r \in Seq(Elem) :
            /\ stream'["server"][c] = q \o r
            /\ \A i \in 1 .. Len(r) : r[i] = Data(x, sock[x].read + i)
            /\ sock'[x].read = sock[x].read + Len(r)
      BY <1>0, <2>8, RelayedTo, ZenonT(40)
    <3>2. /\ stream'["server"][c] = q \o r
          /\ \A i \in 1 .. Len(r) : r[i] = Data(z, n + i)
          /\ sock'[z].read = n + Len(r)
      BY <3>1, <3>4
    <3>3. sock'[p].got = got
      BY <1>0, <2>3, <2>8, RelayedTo
    <3> HIDE DEF q, z, n, p, got
    <3> QED BY <2>4, <2>5, <3>2, <3>3, CarriesConcat
  <2>9. ASSUME ~SplicePayload("server", c),
               ~\E x \in Local : RelayPayload(x) /\ relay[x].conn = c
        PROVE  CarriesOn(sock'[p].got, stream'["server"][c], z, sock'[z].read)
    <3>1. sock'[p].got = got
      BY <2>3, <2>9, PublicGets
    <3>2. sock'[z].read = n
      <4>1. ~RelayPayload(z)
        BY <1>0, <2>2, <2>9, NewestReads
      <4> QED BY <1>0, <2>2, <4>1, SockSteps
    <3>3. stream'["server"][c] = q
      BY <1>0, <2>2, <2>9, <2>10, Arrivals
    <3> QED BY <2>5, <3>1, <3>2, <3>3
  <2> QED BY <2>7, <2>8, <2>9
<1> QED BY <1>1, <1>2 DEF Carried

LEMMA ReceivedStep ==
    ASSUME FdInv, Owners, Claimed, Fresh, MetaOnce, Next,
           NEW c \in Proxy, Flow(c), Counts(c), Carried(c), Received(c)
    PROVE  Received(c)'
<1> USE SideType, Sides, Threads
<1>0. TypeOK /\ bound[c] \in Seq(Public) /\ Len(bound[c]) \in Nat
  <2>1. TypeOK
    BY DEF FdInv
  <2>2. bound \in [Proxy -> Seq(Public)]
    BY <2>1 DEF TypeOK
  <2>3. \A q \in Seq(Public) : Len(q) \in Nat
    OBVIOUS
  <2> QED BY <2>1, <2>2, <2>3
<1>1. ASSUME NEW i \in 1 .. Len(bound[c])
      PROVE  PrefixOf(sock'[bound[c][i]].got, <<c, i>>)
  <2> DEFINE p == bound[c][i]
             got == sock[p].got
  <2>1. PrefixOf(got, <<c, i>>)
    BY <1>1 DEF Received
  <2>2. CASE sock'[p].got = got
    BY <2>1, <2>2
  <2>3. CASE sock'[p].got # got
    <3> DEFINE q == stream["server"][c]
               z == Newcomer(c)
               n == sock[z].read
    <3>1. /\ SplicePayload("server", c) /\ pconn["server"][c].start
          /\ i = Len(bound[c]) /\ p = Last(bound[c])
      BY <2>3, PublicGets
    <3>2. z \in Local /\ z = <<c, i>>
      BY <1>0, <3>1, StartedSame DEF Newcomer
    <3>3. pconn["server"][c].peer = p /\ p \in Public /\ p \in Endpoint
      BY <1>0, <3>1 DEF Owners, OwnPeers
    <3>4. \E k \in 1 .. Len(q) : /\ stream'["server"][c] = Unread(q, k)
                                 /\ sock'[p].got = got \o SubSeq(q, 1, k)
      <4>1. SplicePayload("server", c) /\ pconn["server"][c].peer = p /\ p \in Endpoint
        BY <3>1, <3>3
      <4> HIDE DEF p
      <4> QED BY <1>0, <4>1, SplicedTo
    <3>5. CarriesOn(got, q, z, n)
      BY <3>1 DEF Carried
    <3>6. q \in Seq(Elem) /\ got \in Seq(Elem) /\ n \in Nat
      BY <1>0, <3>2, <3>3, PublicTypes
    <3>7. PrefixOf(got, z)
      BY <2>1, <3>2
    <3>8. PrefixOf(sock'[p].got, z)
      <4> HIDE DEF q, z, n, p, got
      <4> QED BY <3>4, <3>5, <3>6, <3>7, CarriesUnread
    <3> QED BY <3>2, <3>8
  <2> QED BY <2>2, <2>3
<1>2. CASE bound'[c] = bound[c]
  BY <1>1, <1>2 DEF Received
<1>3. ASSUME NEW p \in Public, Binds(c, p), bound'[c] = Append(bound[c], p)
      PROVE  Received(c)'
  <2>1. /\ Len(Append(bound[c], p)) = Len(bound[c]) + 1
        /\ Append(bound[c], p)[Len(bound[c]) + 1] = p
        /\ \A i \in 1 .. Len(bound[c]) : Append(bound[c], p)[i] = bound[c][i]
    BY <1>0
  <2>2. sock[p].got = <<>> /\ sock' = sock
    BY <1>0, <1>3, BindsFresh, BindsHead
  <2>3. \A z : PrefixOf(sock'[p].got, z)
    BY <2>2 DEF PrefixOf
  <2>4. \A i \in 1 .. Len(bound[c]) + 1 : i \in 1 .. Len(bound[c]) \/ i = Len(bound[c]) + 1
    BY <1>0
  <2> QED BY <1>1, <1>3, <2>1, <2>3, <2>4 DEF Received
<1> QED BY <1>0, <1>2, <1>3, BoundGrows

-----------------------------------------------------------------------------
\* The invariant and the theorem.

\* Where no session of c was completed by two threads at once.
Undisturbed(c) == Flow(c) /\ Counts(c) /\ Behind(c) /\ Carried(c) /\ Received(c)

SInv ==
    /\ IInv /\ FdInv
    /\ Owners /\ Claimed /\ Fresh /\ BothComplete
    /\ \A c \in Proxy : Newest(c)
    /\ \A c \in Proxy : c \notin raced => Undisturbed(c)

LEMMA InitSessions == Init => SInv
<1> SUFFICES ASSUME Init PROVE SInv
  OBVIOUS
<1> USE SideType, Sides, Threads
<1>1. IInv /\ FdInv
  BY InitAccount, InitFd
<1>2. /\ \A s \in Side, c \in Proxy : stream[s][c] = <<>> /\ ~pconn[s][c].start
      /\ \A s \in Side : ctl[s] = <<>>
      /\ \A s \in Side, t \in Thread : job[s][t] = Idle
      /\ \A e \in Endpoint : /\ relay[e].conn = None
                             /\ sock[e].got = <<>> /\ sock[e].read = 0
      /\ \A c \in Proxy : life[c] = "absent" /\ bound[c] = <<>> /\ ran[c] = 0
      /\ proxyMap = {} /\ waitMap = {} /\ freeList = <<>> /\ pendingWait = None
  BY DEF Init, NewProxyConnect, NoRelay, NewSocket
<1>3. \A V : ~Has(<<>>, V) /\ Once(<<>>, V)
  BY DEF Has, Once
<1>4. Owners
  BY <1>2, JobFields DEF Owners, OwnJobs, OwnRuns, OwnRelays, OwnPeers, OwnGot
<1>5. \A c \in Proxy : NotInUse(c)
  BY <1>2, <1>3, JobFields
     DEF NotInUse, Awaited, Free, Requests, Answers, Pushing
<1>6. Fresh
  <2>1. \A c \in Proxy : Unmade(c)
    BY <1>2, <1>3, JobFields DEF Unmade
  <2>2. \A c \in Proxy : ~Opening(c)
    BY <1>2, JobFields DEF Opening
  <2> QED BY <1>2, <2>1, <2>2 DEF Fresh
<1>7. BothComplete
  BY <1>2, JobFields DEF BothComplete, Completing
<1>8. \A c \in Proxy : Newest(c)
  <2> SUFFICES ASSUME NEW c \in Proxy PROVE Newest(c)
    OBVIOUS
  <2>1. \A t \in Thread : job["client"][t].pc # "run"
    BY <1>2, JobFields
  <2>2. \A z \in Local : relay[z].conn # c
    BY <1>2
  <2>3. \A i \in 1 .. MaxSession : sock[<<c, i>>].read = 0
    BY <1>2
  <2> QED BY <2>1, <2>2, <2>3 DEF Newest
<1>9. \A c \in Proxy : Undisturbed(c)
  <2> SUFFICES ASSUME NEW c \in Proxy PROVE Undisturbed(c)
    OBVIOUS
  <2>1. Flow(c)
    BY <1>2, <1>3, <1>5 DEF Flow, NotInUse
  <2>2. Counts(c)
    BY <1>2, <1>3 DEF Counts, Free, Requests, Offers, Answers
  <2>3. Behind(c)
    BY <1>2 DEF Behind, BehindOn
  <2>4. Carried(c)
    BY <1>2 DEF Carried
  <2>5. Received(c)
    BY <1>2 DEF Received
  <2> QED BY <2>1, <2>2, <2>3, <2>4, <2>5 DEF Undisturbed
<1> QED BY <1>1, <1>4, <1>5, <1>6, <1>7, <1>8, <1>9 DEF SInv, Claimed

LEMMA StutterSessions ==
    ASSUME SInv, UNCHANGED vars, IInv', FdInv'
    PROVE  SInv'
<1> USE DEF vars
<1>1. Owners'
  BY DEF SInv, Owners, OwnJobs, OwnRuns, OwnRelays, OwnPeers, OwnGot, IsBound, Has
<1>2. Claimed'
  BY DEF SInv, Claimed, NotInUse, Awaited, Free, Requests, Answers, Pushing
<1>3. Fresh'
  <2>1. Fresh
    BY DEF SInv
  <2> QED BY <2>1 DEF Fresh, Unmade, Quiet, Opening, Free, Awaited, Requests, Completing
<1>4. BothComplete'
  BY DEF SInv, BothComplete
<1>5. ASSUME NEW c \in Proxy, Newest(c) PROVE Newest(c)'
  BY <1>5 DEF Newest
<1>6. ASSUME NEW c \in Proxy, Flow(c) PROVE Flow(c)'
  BY <1>6 DEF Flow, Awaited, Free, Requests, Answers, Pushing
<1>7. ASSUME NEW c \in Proxy, Counts(c) PROVE Counts(c)'
  BY <1>7 DEF Counts, Free, Requests, Offers, Answers
<1>8. ASSUME NEW c \in Proxy, Behind(c), Carried(c), Received(c)
      PROVE  Behind(c)' /\ Carried(c)' /\ Received(c)'
  BY <1>8 DEF Behind, Carried, Received, Newcomer
<1> QED BY <1>1, <1>2, <1>3, <1>4, <1>5, <1>6, <1>7, <1>8 DEF SInv, Undisturbed

LEMMA NextSessions == SInv /\ [Next]_vars => SInv'
<1>1. ASSUME SInv, [Next]_vars PROVE IInv' /\ FdInv'
  BY <1>1, NextAccount, NextFd DEF SInv
<1>2. ASSUME SInv, Next, IInv', FdInv' PROVE SInv'
  <2>1. /\ TypeOK /\ MetaOnce /\ TypeOK' /\ MetaOnce' /\ FdInv
        /\ Owners /\ Claimed /\ Fresh /\ BothComplete
    BY <1>2 DEF SInv, IInv
  <2>2. Owners' /\ Claimed' /\ Fresh'
    BY <1>2, <2>1, OwnersStep, ClaimedStep, FreshStep
  <2>3. BothComplete' /\ raced \subseteq raced'
    BY <1>2, <2>1, BothCompleteStep
  <2>4. ASSUME NEW c \in Proxy PROVE Newest(c)'
    <3>1. Newest(c)
      BY <1>2 DEF SInv
    <3> QED BY <1>2, <2>1, <3>1, NewestStep
  <2>5. ASSUME NEW c \in Proxy, c \notin raced' PROVE Undisturbed(c)'
    <3>1. c \notin raced
      BY <2>3, <2>5
    <3>2. Newest(c) /\ Flow(c) /\ Counts(c) /\ Behind(c) /\ Carried(c) /\ Received(c)
      BY <1>2, <3>1 DEF SInv, Undisturbed
    <3>3. Flow(c)'
      BY <1>2, <2>1, <3>1, <3>2, FlowStep
    <3>4. Counts(c)'
      BY <1>2, <2>1, <3>2, <3>3, CountsStep
    <3>5. Behind(c)'
      BY <1>2, <2>1, <3>2, BehindStep
    <3>6. Carried(c)'
      BY <1>2, <2>1, <3>2, CarriedStep
    <3>7. Received(c)'
      BY <1>2, <2>1, <3>2, ReceivedStep
    <3> QED BY <3>3, <3>4, <3>5, <3>6, <3>7 DEF Undisturbed
  <2> QED BY <1>2, <2>2, <2>3, <2>4, <2>5 DEF SInv
<1> QED BY <1>1, <1>2, StutterSessions

LEMMA SessionsPrefix == SInv => PublicGetsPrefixUnlessRaced
<1> SUFFICES ASSUME SInv, NEW z \in Session, z[1] \notin raced,
                    NEW j \in 1 .. Len(sock[PublicEnd(z)].got)
             PROVE  sock[PublicEnd(z)].got[j] = Data(z, j)
  BY DEF PublicGetsPrefixUnlessRaced
<1>1. z \in Local /\ z[2] <= Len(bound[z[1]])
  BY DEF Session
<1>2. z[1] \in Proxy /\ z[2] \in 1 .. MaxSession /\ z = <<z[1], z[2]>>
  BY <1>1, Threads
<1>3. bound[z[1]] \in Seq(Public)
  BY <1>2 DEF SInv, IInv, TypeOK
<1>4. z[2] \in 1 .. Len(bound[z[1]])
  BY <1>1, <1>2, <1>3, ConstantsAssumption
<1>5. Received(z[1])
  BY <1>2 DEF SInv, Undisturbed
<1>6. PrefixOf(sock[bound[z[1]][z[2]]].got, <<z[1], z[2]>>)
  BY <1>4, <1>5 DEF Received
<1> QED BY <1>2, <1>6 DEF PrefixOf, PublicEnd

\* What a public client receives is the beginning of what the local server
\* sent on the session's own connection, unit for unit: whatever
\* claimProxyConn, handleStartProxyConnRsp, freeProxyConn and
\* newPublicConnHandler do with the proxy connection before and after, and
\* however the threads of the two sides meet, as long as no session on it was
\* completed by two threads at once.
THEOREM PublicGetsPrefix == Spec => []PublicGetsPrefixUnlessRaced
<1>1. Spec => []SInv
  BY InitSessions, NextSessions, PTL DEF Spec
<1> QED BY <1>1, SessionsPrefix, PTL

-----------------------------------------------------------------------------
(* Which steps change what a session of c is made of *)

\* The messages that announce the end of a direction of c.
Closes(c) == {m \in CtlMsg : m.kind = "shutdown" /\ m.conn = c}

\* A thread that starts a session of c or ends a direction of it.
Working(j, c) == j.conn = c /\ j.pc \in {"compare", "shut", "run", "fin"}

\* The steps of side s that change its ProxyConnect of c or what its threads
\* do with it.
OpensOn(s, c) ==
    \/ s = "server" /\ (NewProxyConn(c) \/ \E p \in Public : Binds(c, p))
    \/ /\ s = "client"
       /\ \/ HandleProxyNotify(c) \/ HandleProxyConnectReq(c)
          \/ \E t \in Thread : Starts(t) /\ job["client"][t].conn = c
EndsOn(s, c) ==
    \/ HandleShutdownPeerConn(s) /\ Head(ctl[s]).conn = c
    \/ \E t \in Thread :
         (CompareCounts(s, t) \/ ShutdownFromRemote(s, t)) /\ job[s][t].conn = c
    \/ SplicePayload(s, c) \/ SendShutdown(s, c)
    \/ \E e \in Endpoint : RelayEof(e) /\ relay[e].conn = c /\ SideOf(e) = s
Works(s, c) == OpensOn(s, c) \/ EndsOn(s, c)

LEMMA ConnUntouched ==
    ASSUME TypeOK, Next, NEW c \in Proxy, NEW s \in Side, ~Works(s, c)
    PROVE  pconn'[s][c] = pconn[s][c]
<1> USE SideType, Sides, Threads
<1> DEFINE Goal == pconn'[s][c] = pconn[s][c]
<1>1. ASSUME NEW u \in Side, NEW d \in Proxy, u # s \/ d # c, NEW k, SetConn(u, d, k)
      PROVE  Goal
  BY <1>1, ConnAt
<1>2. ASSUME pconn' = pconn PROVE Goal
  BY <1>2
<1>3. ASSUME NEW u \in Side, NEW d \in Proxy, u # s \/ d # c,
             NEW e \in Endpoint, Run(u, d, e)
      PROVE  Goal
  BY <1>3, RunAt
<1>0. ~OpensOn(s, c) /\ ~EndsOn(s, c)
  BY DEF Works
<1>4. ASSUME NEW d \in Proxy, NewProxyConn(d) PROVE Goal
  <2>1. "server" # s \/ d # c
    BY <1>0, <1>4 DEF OpensOn
  <2> QED BY <1>1, <1>4, <2>1 DEF NewProxyConn
<1>5. ASSUME NEW u \in Side, HandleShutdownPeerConn(u) PROVE Goal
  <2> DEFINE m == Head(ctl[u])
  <2>1. m \in CtlMsg /\ m.kind = "shutdown"
    BY <1>5, NextCtlAt DEF HandleShutdownPeerConn, NextCtl
  <2>2. m.conn \in Proxy /\ (u # s \/ m.conn # c)
    BY <1>0, <1>5, <2>1, CtlMsgType DEF EndsOn
  <2>3. pconn' = pconn \/ SetConn(u, m.conn, AddTotalCount(pconn[u][m.conn], m.count))
    BY <1>5 DEF HandleShutdownPeerConn
  <2> QED BY <1>1, <1>2, <2>2, <2>3
<1>6. ASSUME NEW u \in Side, NEW t \in Thread, ShutdownFromRemote(u, t) PROVE Goal
  <2> DEFINE d == job[u][t].conn
  <2>0. job[u][t] \in Job
    BY DEF TypeOK
  <2>1. job[u][t] \in Job /\ job[u][t].pc = "shut"
    BY <1>6, <2>0 DEF ShutdownFromRemote
  <2>2. d \in Proxy /\ (u # s \/ d # c)
    BY <1>0, <1>6, <2>1, JobType DEF EndsOn
  <2>3. SetConn(u, d, HalfClose(pconn[u][d]))
    BY <1>6 DEF ShutdownFromRemote
  <2> QED BY <1>1, <2>2, <2>3
<1>7. ASSUME NEW t \in Thread, StartLocalConn(t) PROVE Goal
  <2> DEFINE j == job["client"][t]
  <2>1. j.pc = "run" /\ j \in Job
    BY <1>7 DEF StartLocalConn, TypeOK
  <2>2. j.conn \in Proxy /\ j.end \in Endpoint /\ Run("client", j.conn, j.end)
    BY <1>7, <2>1, JobType DEF StartLocalConn
  <2>3. "client" # s \/ j.conn # c
    BY <1>0, <1>7, <2>1 DEF OpensOn, Starts
  <2> QED BY <1>3, <2>2, <2>3
<1>8. ASSUME NEW d \in Proxy, ClaimProxyConn(d) \/ HandleStartProxyConnRsp(d)
      PROVE  Goal
  <2>1. pconn' = pconn \/ \E p \in Public : Binds(d, p)
    BY <1>8, BindSteps DEF ReadMsg
  <2>2. ASSUME NEW p \in Public, Binds(d, p) PROVE Goal
    <3>1. Run("server", d, p) /\ ("server" # s \/ d # c)
      BY <1>0, <2>2 DEF Binds, BindPublicFd, OpensOn
    <3> QED BY <1>3, <3>1
  <2> QED BY <1>2, <2>1, <2>2
<1>9. ASSUME NEW u \in Side, NEW d \in Proxy, SplicePayload(u, d) PROVE Goal
  <2>1. PICK k : SetConn(u, d, AddRecvCount(pconn[u][d], k))
    BY <1>9 DEF SplicePayload
  <2>2. u # s \/ d # c
    BY <1>0, <1>9 DEF EndsOn
  <2> QED BY <1>1, <2>1, <2>2
<1>10. ASSUME NEW e \in Endpoint, RelayEof(e) PROVE Goal
  <2> DEFINE u == SideOf(e)
             d == relay[e].conn
  <2>1. d \in Proxy /\ u \in Side /\ (u # s \/ d # c)
    BY <1>0, <1>10, RelayType DEF RelayEof, RelayReadable, TypeOK, EndsOn
  <2>2. pconn' = pconn \/ SetConn(u, d, HalfClose(pconn[u][d]))
    BY <1>10 DEF RelayEof, ShutdownFromLocal
  <2> QED BY <1>1, <1>2, <2>1, <2>2
<1>11. /\ \A e \in Endpoint : Send(e) \/ Fin(e) \/ RelayPayload(e) => pconn' = pconn
       /\ AddWaitProxyConn \/ HandleFreeProxyConnReq => pconn' = pconn
       /\ \A p \in Public : ReuseProxyConn(p) \/ NotifyClientNeedProxy(p) => pconn' = pconn
       /\ \A d \in Proxy : HandleProxyNotify(d) \/ HandleProxyConnectReq(d)
                             => pconn' = pconn
       /\ \A u \in Side, t \in Thread : CompareCounts(u, t) => pconn' = pconn
       /\ \A t \in Thread : FreeProxyConn(t) \/ RecycleProxyConn(t) \/ SendFreeConnReq(t)
                              => pconn' = pconn
       /\ \A u \in Side, d \in Proxy : DropPayload(u, d) \/ ReadnGoesOn(u, d)
                                       \/ SendShutdown(u, d)
                                         => pconn' = pconn
  BY DEF Send, Fin, RelayPayload, AddWaitProxyConn, ReuseProxyConn,
         NotifyClientNeedProxy, HandleProxyNotify, HandleProxyConnectReq,
         HandleFreeProxyConnReq, CompareCounts, FreeProxyConn, RecycleProxyConn,
         SendFreeConnReq, DropPayload, ReadnGoesOn, SendShutdown
<1> HIDE DEF Goal
<1>12. Goal
  BY <1>2, <1>4, <1>5, <1>6, <1>7, <1>8, <1>9, <1>10, <1>11, NextCases
<1> QED BY <1>12 DEF Goal

LEMMA JobUntouched ==
    ASSUME TypeOK, OwnJobs, Next, NEW c \in Proxy, NEW s \in Side, ~Works(s, c)
    PROVE  \A t \in Thread :
             \/ job'[s][t] = job[s][t]
             \/ ~Working(job[s][t], c) /\ ~Working(job'[s][t], c)
<1> USE SideType, Sides, Threads
<1> DEFINE Goal == \A t \in Thread :
             \/ job'[s][t] = job[s][t]
             \/ ~Working(job[s][t], c) /\ ~Working(job'[s][t], c)
<1>1. ASSUME NEW u \in Side, NEW v \in Thread, NEW k, SetJob(u, v, k),
             u # s \/ (~Working(job[u][v], c) /\ ~Working(k, c))
      PROVE  Goal
  BY <1>1, JobAt
<1>2. ASSUME job' = job PROVE Goal
  BY <1>2
<1>0. /\ \A pc, d : d # c => ~Working(Doing(pc, d), c)
      /\ \A d, e : d # c => ~Working(Runs(d, e), c) /\ ~Working(Fins(d, e), c)
      /\ ~Working(Idle, c)
      /\ \A d : ~Working(Doing("free", d), c) /\ ~Working(Doing("push", d), c)
      /\ ~OpensOn(s, c) /\ ~EndsOn(s, c)
  BY JobFields DEF Working, Works
<1>3. ASSUME NEW d \in Proxy, HandleProxyNotify(d) PROVE Goal
  <2>1. SetJob("client", Main, Runs(d, <<d, ran[d] + 1>>)) /\ job["client"][Main] = Idle
    BY <1>3 DEF HandleProxyNotify, NextCtl, Runs
  <2>2. "client" # s \/ d # c
    BY <1>0, <1>3 DEF OpensOn
  <2> QED BY <1>0, <1>1, <2>1, <2>2
<1>4. ASSUME NEW d \in Proxy, HandleProxyConnectReq(d) PROVE Goal
  <2>1. SetJob("client", d, Runs(d, <<d, ran[d] + 1>>)) /\ job["client"][d] = Idle
    BY <1>4 DEF HandleProxyConnectReq, NextMsg, Readable, Runs
  <2>2. "client" # s \/ d # c
    BY <1>0, <1>4 DEF OpensOn
  <2> QED BY <1>0, <1>1, <2>1, <2>2
<1>5. ASSUME NEW u \in Side, HandleShutdownPeerConn(u) PROVE Goal
  <2>1. job' = job \/ SetJob(u, Main, Doing("compare", Head(ctl[u]).conn))
    BY <1>5 DEF HandleShutdownPeerConn
  <2>2. job[u][Main] = Idle /\ (u # s \/ Head(ctl[u]).conn # c)
    BY <1>0, <1>5 DEF HandleShutdownPeerConn, NextCtl, EndsOn
  <2> QED BY <1>0, <1>1, <1>2, <2>1, <2>2
<1>6. ASSUME HandleFreeProxyConnReq PROVE Goal
  <2>1. /\ SetJob("server", Main, Doing("free", Head(ctl["server"]).conn))
        /\ job["server"][Main] = Idle
    BY <1>6 DEF HandleFreeProxyConnReq, NextCtl
  <2>2. ~Working(Doing("free", Head(ctl["server"]).conn), c)
    BY <1>0
  <2> QED BY <1>0, <1>1, <2>1, <2>2
<1>7. ASSUME NEW u \in Side, NEW t \in Thread, CompareCounts(u, t) \/ ShutdownFromRemote(u, t)
      PROVE  Goal
  <2> DEFINE d == job[u][t].conn
  <2>1. u # s \/ d # c
    BY <1>0, <1>7 DEF EndsOn
  <2>2. \E k \in {Doing("shut", d), Doing("free", d), Idle} : SetJob(u, t, k)
    <3>1. CASE CompareCounts(u, t)
      BY <3>1 DEF CompareCounts
    <3>2. CASE ShutdownFromRemote(u, t)
      BY <3>2 DEF ShutdownFromRemote
    <3> QED BY <1>7, <3>1, <3>2
  <2>3. d # c => ~Working(job[u][t], c)
    BY DEF Working
  <2>4. d # c => \A k \in {Doing("shut", d), Doing("free", d), Idle} : ~Working(k, c)
    <3>1. d # c => ~Working(Doing("shut", d), c) /\ ~Working(Doing("free", d), c)
      BY <1>0
    <3> QED BY <1>0, <3>1
  <2> QED BY <1>1, <2>1, <2>2, <2>3, <2>4
<1>8. ASSUME NEW t \in Thread,
             FreeProxyConn(t) \/ RecycleProxyConn(t) \/ SendFreeConnReq(t)
      PROVE  Goal
  <2>1. \E u \in Side : /\ job[u][t].pc \in {"free", "push"}
                         /\ (SetJob(u, t, Idle) \/ SetJob(u, t, Doing("push", job[u][t].conn)))
    BY <1>8 DEF FreeProxyConn, RecycleProxyConn, SendFreeConnReq
  <2>2. PICK u \in Side :
          /\ job[u][t].pc \in {"free", "push"}
          /\ (SetJob(u, t, Idle) \/ SetJob(u, t, Doing("push", job[u][t].conn)))
    BY <2>1
  <2>3. ~Working(Doing("push", job[u][t].conn), c) /\ ~Working(job[u][t], c)
    BY <1>0, <2>2 DEF Working
  <2> QED BY <1>0, <1>1, <2>2, <2>3
<1>9. ASSUME NEW t \in Thread, StartLocalConn(t) PROVE Goal
  <2>1. SetJob("client", t, Idle) /\ ("client" # s \/ job["client"][t].conn # c)
    BY <1>0, <1>9 DEF StartLocalConn, Starts, OpensOn
  <2> QED BY <1>0, <1>1, <2>1 DEF Working
<1>10. ASSUME NEW u \in Side, NEW d \in Proxy, SplicePayload(u, d) PROVE Goal
  <2>1. SetJob(u, d, Doing("compare", d)) /\ job[u][d] = Idle
    BY <1>10 DEF SplicePayload, Readable
  <2>2. u # s \/ d # c
    BY <1>0, <1>10 DEF EndsOn
  <2> QED BY <1>0, <1>1, <2>1, <2>2
<1>11. ASSUME NEW u \in Side, NEW d \in Proxy, SendShutdown(u, d) PROVE Goal
  <2>1. SetJob(u, d, Idle) /\ (u # s \/ d # c) /\ job[u][d].conn \in {d, None}
    BY <1>0, <1>11 DEF SendShutdown, OwnJobs, EndsOn
  <2>2. d # c => ~Working(job[u][d], c)
    BY <2>1 DEF Working
  <2> QED BY <1>0, <1>1, <2>1, <2>2
<1>12. ASSUME NEW e \in Endpoint, RelayEof(e) PROVE Goal
  <2> DEFINE u == SideOf(e)
             d == relay[e].conn
  <2>1. d \in Proxy /\ u \in Side /\ (u # s \/ d # c) /\ job[u][d] = Idle
    BY <1>0, <1>12, RelayType DEF RelayEof, RelayReadable, TypeOK, EndsOn
  <2>2. job' = job \/ SetJob(u, d, Fins(d, e))
    BY <1>12 DEF RelayEof, Fins
  <2> QED BY <1>0, <1>1, <1>2, <2>1, <2>2
<1>13. /\ \A e \in Endpoint : Send(e) \/ Fin(e) \/ RelayPayload(e) => job' = job
       /\ AddWaitProxyConn => job' = job
       /\ \A p \in Public : ReuseProxyConn(p) \/ NotifyClientNeedProxy(p) => job' = job
       /\ \A d \in Proxy : NewProxyConn(d) \/ ClaimProxyConn(d) => job' = job
       /\ \A d \in Proxy : HandleStartProxyConnRsp(d) => job' = job
       /\ \A u \in Side, d \in Proxy : DropPayload(u, d) \/ ReadnGoesOn(u, d) => job' = job
  BY DEF Send, Fin, RelayPayload, AddWaitProxyConn, ReuseProxyConn,
         NotifyClientNeedProxy, NewProxyConn, ClaimProxyConn,
         HandleStartProxyConnRsp, DropPayload, ReadnGoesOn
<1> HIDE DEF Goal
<1>14. Goal
  BY <1>2, <1>3, <1>4, <1>5, <1>6, <1>7, <1>8, <1>9, <1>10, <1>11, <1>12, <1>13, NextCases
<1> QED BY <1>14 DEF Goal

\* The announcements about c in q and in r are the same.
SameCloses(q, r, c) ==
    /\ Has(r, Closes(c)) <=> Has(q, Closes(c))
    /\ Once(q, Closes(c)) => Once(r, Closes(c))
    /\ \A i \in 1 .. Len(r) : r[i] \in Closes(c) => \E j \in 1 .. Len(q) : q[j] = r[i]

LEMMA ClosesAppend ==
    ASSUME NEW q \in Seq(CtlMsg), NEW m \in CtlMsg, NEW c
    PROVE  /\ m \notin Closes(c) => SameCloses(q, Append(q, m), c)
           /\ Has(Append(q, m), {m})
<1> DEFINE r == Append(q, m)
<1>1. /\ Len(r) = Len(q) + 1 /\ Len(q) \in Nat /\ r[Len(q) + 1] = m
      /\ \A i \in 1 .. Len(q) : r[i] = q[i] /\ i \in 1 .. Len(r)
      /\ \A i \in 1 .. Len(r) : i \in 1 .. Len(q) \/ i = Len(q) + 1
      /\ Len(q) + 1 \in 1 .. Len(r)
  OBVIOUS
<1>2. m \notin Closes(c) => Shrinks(q, r, Closes(c))
  BY OnceAppend
<1> HIDE DEF r
<1>3. ASSUME m \notin Closes(c) PROVE SameCloses(q, r, c)
  <2>1. Has(q, Closes(c)) => Has(r, Closes(c))
    BY <1>1 DEF Has
  <2>2. \A i \in 1 .. Len(r) : r[i] \in Closes(c) => \E j \in 1 .. Len(q) : q[j] = r[i]
    BY <1>1, <1>3
  <2> QED BY <1>2, <1>3, <2>1, <2>2 DEF SameCloses, Shrinks
<1>4. Has(r, {m})
  BY <1>1 DEF Has
<1> QED BY <1>3, <1>4 DEF r

LEMMA ClosesTail ==
    ASSUME NEW q \in Seq(CtlMsg), q # <<>>, NEW c, Head(q) \notin Closes(c)
    PROVE  SameCloses(q, Tail(q), c)
<1> DEFINE r == Tail(q)
<1>1. /\ Len(r) = Len(q) - 1 /\ Len(q) \in Nat /\ q[1] = Head(q)
      /\ \A i \in 1 .. Len(r) : r[i] = q[i + 1] /\ i + 1 \in 1 .. Len(q)
      /\ \A i \in 1 .. Len(q) : i = 1 \/ (i - 1 \in 1 .. Len(r) /\ r[i - 1] = q[i])
  OBVIOUS
<1>2. Shrinks(q, r, Closes(c))
  BY OnceTail
<1> HIDE DEF r
<1>3. Has(q, Closes(c)) => Has(r, Closes(c))
  BY <1>1 DEF Has
<1>4. \A i \in 1 .. Len(r) : r[i] \in Closes(c) => \E j \in 1 .. Len(q) : q[j] = r[i]
  BY <1>1
<1> QED BY <1>2, <1>3, <1>4 DEF SameCloses, Shrinks, r

LEMMA CtlUntouched ==
    ASSUME TypeOK, Next, NEW c \in Proxy, NEW s \in Side,
           ~(HandleShutdownPeerConn(s) /\ Head(ctl[s]).conn = c),
           ~SendShutdown(Other(s), c)
    PROVE  SameCloses(ctl[s], ctl'[s], c)
<1> USE SideType, Sides, Threads
<1> DEFINE Goal == SameCloses(ctl[s], ctl'[s], c)
<1>0. ctl[s] \in Seq(CtlMsg)
  BY DEF TypeOK
<1>1. ASSUME ctl'[s] = ctl[s] PROVE Goal
  BY <1>1 DEF SameCloses
<1>2. ASSUME NEW u \in Side, NEW kind, NextCtl(u, kind),
             u = s => Head(ctl[s]) \notin Closes(c)
      PROVE  Goal
  <2>1. CASE u = s
    BY <1>0, <1>2, <2>1, NextCtlAt, ClosesTail
  <2>2. CASE u # s
    BY <1>1, <1>2, <2>2, NextCtlAt
  <2> QED BY <2>1, <2>2
<1>3. ASSUME NEW u \in Side, NEW m \in CtlMsg, SendCtl(u, m), u = s => m \notin Closes(c)
      PROVE  Goal
  <2>1. CASE u = s
    <3>1. ctl'[s] = Append(ctl[s], m) /\ m \notin Closes(c)
      BY <1>3, <2>1, SendCtlAt
    <3>2. SameCloses(ctl[s], Append(ctl[s], m), c)
      BY <1>0, <3>1, ClosesAppend
    <3> QED BY <3>1, <3>2
  <2>2. CASE u # s
    BY <1>1, <1>3, <2>2, SendCtlAt
  <2> QED BY <2>1, <2>2
<1>4. /\ \A m : m \in Closes(c) => m.kind = "shutdown" /\ m.conn = c
      /\ NotifyClient \notin Closes(c)
      /\ \A d : FreeConnReq(d) \notin Closes(c)
      /\ \A d, n : d # c => ShutdownPeerConn(d, n) \notin Closes(c)
  BY DEF Closes, NotifyClient, FreeConnReq, ShutdownPeerConn
<1>5. ASSUME NEW d \in Proxy, HandleProxyNotify(d) PROVE Goal
  <2>1. NextCtl("client", "notify") /\ Head(ctl["client"]).kind = "notify"
    BY <1>5 DEF HandleProxyNotify, NextCtl
  <2>2. "client" = s => Head(ctl[s]) \notin Closes(c)
    BY <1>4, <2>1
  <2> QED BY <1>2, <2>1, <2>2
<1>6. ASSUME NEW u \in Side, HandleShutdownPeerConn(u) PROVE Goal
  <2>1. NextCtl(u, "shutdown") /\ (u = s => Head(ctl[s]).conn # c)
    BY <1>6 DEF HandleShutdownPeerConn
  <2> QED BY <1>2, <1>4, <2>1
<1>7. ASSUME HandleFreeProxyConnReq PROVE Goal
  <2>1. NextCtl("server", "free") /\ Head(ctl["server"]).kind = "free"
    BY <1>7 DEF HandleFreeProxyConnReq, NextCtl
  <2>2. "server" = s => Head(ctl[s]) \notin Closes(c)
    BY <1>4, <2>1
  <2> QED BY <1>2, <2>1, <2>2
<1>8. ASSUME NEW p \in Public, NotifyClientNeedProxy(p) PROVE Goal
  BY <1>3, <1>4, <1>8, CtlMsgType DEF NotifyClientNeedProxy
<1>9. ASSUME NEW t \in Thread, SendFreeConnReq(t) PROVE Goal
  <2>1. /\ SendCtl("server", FreeConnReq(job["client"][t].conn))
        /\ job["client"][t].pc = "free" /\ job["client"][t] \in Job
    BY <1>9 DEF SendFreeConnReq, TypeOK
  <2>2. FreeConnReq(job["client"][t].conn) \in CtlMsg
    BY <2>1, JobType, CtlMsgType
  <2> QED BY <1>3, <1>4, <2>1, <2>2
<1>10. ASSUME NEW u \in Side, NEW d \in Proxy, SendShutdown(u, d) PROVE Goal
  <2> DEFINE m == ShutdownPeerConn(d, relay[job[u][d].end].tran)
  <2>0. job[u][d] \in Job
    BY DEF TypeOK
  <2>1. SendCtl(Other(u), m) /\ job[u][d].pc = "fin" /\ job[u][d] \in Job
    BY <1>10, <2>0 DEF SendShutdown
  <2>2. job[u][d].end \in Endpoint
    BY <2>1, JobType
  <2>3. relay[job[u][d].end].tran \in Count
    BY <2>2, RelayType DEF TypeOK
  <2>4. m \in CtlMsg
    BY <2>3, CtlMsgType
  <2>5. Other(u) = s => m \notin Closes(c)
    <3>1. Other(u) = s => u = Other(s)
      BY DEF Other
    <3>2. Other(u) = s => d # c
      BY <1>10, <3>1
    <3> QED BY <1>4, <3>2
  <2> HIDE DEF m
  <2> QED BY <1>3, <2>1, <2>4, <2>5
<1>11. /\ \A e \in Endpoint : Send(e) \/ Fin(e) \/ RelayEof(e) \/ RelayPayload(e)
            => ctl' = ctl
       /\ AddWaitProxyConn => ctl' = ctl
       /\ \A p \in Public : ReuseProxyConn(p) => ctl' = ctl
       /\ \A d \in Proxy : NewProxyConn(d) \/ ClaimProxyConn(d) => ctl' = ctl
       /\ \A d \in Proxy : HandleStartProxyConnRsp(d) \/ HandleProxyConnectReq(d)
                             => ctl' = ctl
       /\ \A u \in Side, t \in Thread : CompareCounts(u, t) \/ ShutdownFromRemote(u, t)
                                          => ctl' = ctl
       /\ \A t \in Thread : FreeProxyConn(t) \/ RecycleProxyConn(t) => ctl' = ctl
       /\ \A t \in Thread : StartLocalConn(t) => ctl' = ctl
       /\ \A u \in Side, d \in Proxy : DropPayload(u, d) \/ ReadnGoesOn(u, d)
                                       \/ SplicePayload(u, d)
                                         => ctl' = ctl
  BY ZenonT(30)
     DEF Send, Fin, RelayEof, RelayPayload, AddWaitProxyConn, ReuseProxyConn,
         NewProxyConn, ClaimProxyConn, HandleStartProxyConnRsp, HandleProxyConnectReq,
         ShutdownFromRemote, StartLocalConn, CompareCounts, FreeProxyConn,
         RecycleProxyConn, DropPayload, ReadnGoesOn, SplicePayload
<1>12. ctl' = ctl => Goal
  BY <1>1
<1> HIDE DEF Goal
<1>13. Goal
  BY <1>5, <1>6, <1>7, <1>8, <1>9, <1>10, <1>11, <1>12, NextCases
<1> QED BY <1>13 DEF Goal

-----------------------------------------------------------------------------
(* The course of one session *)

\* Thread t of side s is at pc with c.
At(s, t, c, pc) == job[s][t].conn = c /\ job[s][t].pc = pc

\* Side s is about to announce the end of its direction, and an announcement
\* is on its way to side s.
Reports(s, c) == job[s][c].pc = "fin"
Coming(s, c) == Reports(Other(s), c) \/ Has(ctl[s], Closes(c))

\* No announcement has been counted: total_count_ is what the constructor or
\* resetConn left.
Untold(k) == k.total \in {0, NoTotal}

\* The end has sent FIN and all it sent has been read.
Ended(e) == sock[e].fin /\ sock[e].read = sock[e].sent

\* The client has opened a local connection and not yet started it; it has
\* one that is not over.
OpenFor(c) == \E t \in Thread : At("client", t, c, "run")
InUse(c) == pconn["client"][c].start \/ OpenFor(c)

\* The direction from e to f, the end of side s, is announced once, when e has
\* ended, with all that e sent.  It is "unsent", "coming", "told" when the
\* announcement is counted, and "done" when f has been told.
Announced(s, c, e, st) ==
    /\ Coming(s, c) <=> st = "coming"
    /\ Once(ctl[s], Closes(c)) /\ ~(Reports(Other(s), c) /\ Has(ctl[s], Closes(c)))
    /\ Reports(Other(s), c) => job[Other(s)][c].end = e /\ relay[e].conn = c
    /\ \A i \in 1 .. Len(ctl[s]) :
         ctl[s][i] \in Closes(c) => ctl[s][i].count = sock[e].sent
    /\ st # "unsent" => Ended(e) /\ (relay[e].closed \/ Reports(Other(s), c))

\* The counts are equal only when all has been received.
Compared(s, c, e, f, st) ==
    /\ st \in {"unsent", "coming"} =>
         /\ Untold(pconn[s][c])
         /\ \A t \in Thread : /\ ~At(s, t, c, "shut")
                              /\ At(s, t, c, "compare") => pconn[s][c].recv # 0
    /\ st = "told" =>
         /\ pconn[s][c].total = sock[e].sent
         /\ \A t \in Thread : At(s, t, c, "shut") => pconn[s][c].recv = sock[e].sent
    /\ st = "done" =>
         /\ Len(sock[f].got) = sock[e].sent
         /\ \A t \in Thread : ~At(s, t, c, "shut") /\ ~At(s, t, c, "compare")
    /\ st # "done" => ~sock[f].eof /\ pconn[s][c].recv = Len(sock[f].got)

Direction(s, c, e, f, st) == Announced(s, c, e, st) /\ Compared(s, c, e, f, st)

\* The local server waits for EOF before it closes: the client's direction is
\* done before the server's is announced.
Stage == {"unsent", "coming", "told", "done"}
InOrder(a, b) == b = "unsent" \/ (a = "done" /\ b # "done")

\* The session of the public client p and the local connection z.
Course(c, p, z, a, b) ==
    /\ InOrder(a, b)
    /\ pconn["server"][c].start
    /\ p = Last(bound[c]) /\ z = Newcomer(c)
    /\ Direction("client", c, p, z, a) /\ Direction("server", c, z, p, b)
    /\ pconn["server"][c].half <=> a # "unsent"
    /\ pconn["client"][c].half <=> a = "done" /\ b = "unsent"
    /\ InUse(c) <=> b = "unsent"
    /\ b # "unsent" => pconn["client"][c].recv = 0 /\ Untold(pconn["client"][c])

InSession(c) ==
    \E p \in Public, z \in Local, a \in Stage, b \in Stage : Course(c, p, z, a, b)

\* Between two sessions both sides' ProxyConnects are as new, but for start_ of
\* the client's, which may run ahead of the server's.
Rest(c) ==
    /\ ~pconn["server"][c].start
    /\ \A s \in Side :
         /\ ~Coming(s, c) /\ ~pconn[s][c].half /\ pconn[s][c].recv = 0
         /\ Untold(pconn[s][c])
         /\ \A t \in Thread : ~At(s, t, c, "shut") /\ ~At(s, t, c, "compare")
    /\ ~Has(stream["client"][c], Elem \ OfKind("req"))
    /\ InUse(c) <=> ran[c] # Len(bound[c])
    /\ InUse(c) => sock[Newcomer(c)].got = <<>> /\ ~sock[Newcomer(c)].eof

\* A relay object that still reads belongs to the session.
Relays(c) == \A e \in Endpoint : relay[e].conn = c =>
    \/ relay[e].closed
    \/ e = Newcomer(c) /\ (pconn["client"][c].start \/ Reports("client", c))
    \/ e \in Public /\ pconn["server"][c].start /\ e = Last(bound[c])

LocalEnds(c) ==
    /\ \A i \in 1 .. MaxSession :
        /\ i > ran[c] => sock[<<c, i>>].got = <<>> /\ ~sock[<<c, i>>].eof
        /\ sock[<<c, i>>].fin => sock[<<c, i>>].eof
        /\ relay[<<c, i>>].conn # None => relay[<<c, i>>].tran = sock[<<c, i>>].read
    /\ pconn["client"][c].start => pconn["client"][c].peer = Newcomer(c)

Opened(c) ==
    OpenFor(c) =>
      /\ ~pconn["client"][c].start
      /\ sock[Newcomer(c)].read = 0 /\ sock[Newcomer(c)].got = <<>>
      /\ relay[Newcomer(c)].conn = None
      /\ \A t, u \in Thread : At("client", t, c, "run") /\ At("client", u, c, "run") => t = u

\* got and then q hold what e sent, up to n and but for the first d.
CarriesFrom(d, got, q, e, n) ==
    /\ d + Len(got) + Len(q) = n
    /\ \A j \in 1 .. Len(got) : got[j] = Data(e, d + j)
    /\ \A j \in 1 .. Len(q) : q[j] = Data(e, d + Len(got) + j)

\* What the public client of the session sent arrives in order; the first of
\* it may be lost before the client's Run, or in the readn that began then.
CarriedOut(c) ==
    pconn["server"][c].start =>
      /\ <<"client", c>> \in held => sock[Newcomer(c)].got = <<>>
      /\ \E d \in Nat : CarriesFrom(d, sock[Newcomer(c)].got, stream["client"][c],
                                    Last(bound[c]), sock[Last(bound[c])].read)

\* The sessions that are over are intact.
Whole(z) == FinAfterData(z) /\ PayloadOnly(z)
Past(c) == \A i \in 1 .. Len(bound[c]) :
    i < Len(bound[c]) \/ ~pconn["server"][c].start => Whole(<<c, i>>)

Peers ==
    \A c \in Proxy :
      /\ \A s \in Side : pconn[s][c].peer # None => pconn[s][c].start
      /\ pconn["client"][c].start => pconn["client"][c].peer[1] = c
ReadSent == \A e \in Endpoint : sock[e].read <= sock[e].sent
PublicEnds == \A p \in Public :
    /\ relay[p].conn # None => Has(bound[relay[p].conn], {p}) /\ relay[p].tran = sock[p].read
    /\ ~IsBound(p) => sock[p].read = 0 /\ ~sock[p].eof

\* No session was started without a local connection opened for it.
Ahead(c) == Len(bound[c]) <= ran[c]

\* What holds of a connection that SessionIntactUnlessRaced is about.
Orderly(c) ==
    /\ Rest(c) \/ InSession(c)
    /\ Relays(c) /\ LocalEnds(c) /\ Opened(c) /\ CarriedOut(c) /\ Past(c) /\ Ahead(c)

-----------------------------------------------------------------------------
\* A socket's FIN is sent once, after all that is sent; reading never runs
\* ahead; EOF is given by shutdownFromRemote alone.
SocketKept(k, l) ==
    /\ k.fin => l.fin /\ l.sent = k.sent
    /\ k.sent <= l.sent
    /\ k.read <= k.sent => l.read <= l.sent
    /\ k.fin /\ k.read = k.sent => l.read = k.read
    /\ k.eof => l.eof

LEMMA FieldsOfSocket ==
    ASSUME NEW k \in Socket
    PROVE  /\ SocketKept(k, k)
           /\ \A v : /\ SocketKept(k, [k EXCEPT !.open = v])
                     /\ [k EXCEPT !.open = v].eof = k.eof /\ [k EXCEPT !.open = v].fin = k.fin
           /\ \A v : /\ SocketKept(k, [k EXCEPT !.got = v])
                     /\ [k EXCEPT !.got = v].eof = k.eof /\ [k EXCEPT !.got = v].fin = k.fin
           /\ /\ SocketKept(k, [k EXCEPT !.eof = TRUE])
              /\ [k EXCEPT !.eof = TRUE].fin = k.fin
           /\ /\ SocketKept(k, [k EXCEPT !.fin = TRUE])
              /\ [k EXCEPT !.fin = TRUE].eof = k.eof
           /\ /\ ~k.fin => SocketKept(k, [k EXCEPT !.sent = k.sent + 1])
              /\ [k EXCEPT !.sent = k.sent + 1].eof = k.eof
              /\ [k EXCEPT !.sent = k.sent + 1].fin = k.fin
           /\ \A n \in 1 .. (k.sent - k.read) :
                /\ SocketKept(k, [k EXCEPT !.read = k.read + n])
                /\ [k EXCEPT !.read = k.read + n].eof = k.eof
                /\ [k EXCEPT !.read = k.read + n].fin = k.fin
BY ConstantsAssumption DEF Socket, SocketKept

LEMMA EndSteps ==
    ASSUME TypeOK, Next, NEW e \in Endpoint
    PROVE  /\ SocketKept(sock[e], sock'[e])
           /\ \/ sock'[e].eof = sock[e].eof
              \/ \E s \in Side, t \in Thread :
                   ShutdownFromRemote(s, t) /\ pconn[s][job[s][t].conn].peer = e
           /\ sock'[e].fin = sock[e].fin \/ Fin(e)
<1> DEFINE Goal ==
           /\ SocketKept(sock[e], sock'[e])
           /\ \/ sock'[e].eof = sock[e].eof
              \/ \E s \in Side, t \in Thread :
                   ShutdownFromRemote(s, t) /\ pconn[s][job[s][t].conn].peer = e
           /\ sock'[e].fin = sock[e].fin \/ Fin(e)
<1>0. \A x \in Endpoint : sock[x] \in Socket
  BY DEF TypeOK
<1>1. ASSUME NEW x \in Endpoint, NEW r, sock' = [sock EXCEPT ![x] = r],
             SocketKept(sock[x], r), r.fin = sock[x].fin \/ Fin(x),
             \/ r.eof = sock[x].eof
             \/ \E s \in Side, t \in Thread :
                  ShutdownFromRemote(s, t) /\ pconn[s][job[s][t].conn].peer = x
      PROVE  Goal
  <2>1. CASE x = e
    <3>1. sock'[e] = r
      BY <1>1, <2>1 DEF TypeOK
    <3> QED BY <1>1, <2>1, <3>1
  <2>2. CASE x # e
    <3>1. sock'[e] = sock[e]
      BY <1>1, <2>2 DEF TypeOK
    <3> QED BY <1>0, <3>1, FieldsOfSocket
  <2> QED BY <2>1, <2>2
<1>2. ASSUME NEW x \in Endpoint, sock' = [sock EXCEPT ![x] = [sock[x] EXCEPT !.open = TRUE]]
      PROVE  Goal
  <2>1. /\ SocketKept(sock[x], [sock[x] EXCEPT !.open = TRUE])
        /\ [sock[x] EXCEPT !.open = TRUE].eof = sock[x].eof
        /\ [sock[x] EXCEPT !.open = TRUE].fin = sock[x].fin
    BY <1>0, FieldsOfSocket
  <2> QED BY <1>1, <1>2, <2>1
<1>3. ASSUME NEW x \in Endpoint, Send(x) PROVE Goal
  <2>1. sock' = [sock EXCEPT ![x] = [sock[x] EXCEPT !.sent = sock[x].sent + 1]] /\ ~sock[x].fin
    BY <1>3 DEF Send
  <2>2. /\ SocketKept(sock[x], [sock[x] EXCEPT !.sent = sock[x].sent + 1])
        /\ [sock[x] EXCEPT !.sent = sock[x].sent + 1].eof = sock[x].eof
        /\ [sock[x] EXCEPT !.sent = sock[x].sent + 1].fin = sock[x].fin
    BY <1>0, <2>1, FieldsOfSocket
  <2> QED BY <1>1, <2>1, <2>2
<1>4. ASSUME NEW x \in Endpoint, Fin(x) PROVE Goal
  <2>1. sock' = [sock EXCEPT ![x] = [sock[x] EXCEPT !.fin = TRUE]]
    BY <1>4 DEF Fin
  <2> QED BY <1>0, <1>1, <1>4, <2>1, FieldsOfSocket
<1>5. ASSUME NEW p \in Public, ReuseProxyConn(p) \/ NotifyClientNeedProxy(p) PROVE Goal
  BY <1>2, <1>5, Sides DEF ReuseProxyConn, NotifyClientNeedProxy
<1>6. ASSUME NEW d \in Proxy, HandleProxyNotify(d) \/ HandleProxyConnectReq(d) PROVE Goal
  <2> DEFINE x == <<d, ran[d] + 1>>
  <2>1. ran[d] < MaxSession /\ sock' = [sock EXCEPT ![x] = [sock[x] EXCEPT !.open = TRUE]]
    BY <1>6 DEF HandleProxyNotify, HandleProxyConnectReq, CreateLocalConn
  <2>2. ran[d] \in 0 .. MaxSession
    BY DEF TypeOK
  <2>3. x \in Endpoint
    BY <2>1, <2>2, Sides, Threads, ConstantsAssumption
  <2> QED BY <1>2, <2>1, <2>3
<1>7. ASSUME NEW u \in Side, NEW t \in Thread, ShutdownFromRemote(u, t) PROVE Goal
  <2> DEFINE d == job[u][t].conn
             x == pconn[u][d].peer
  <2>0. job[u][t] \in Job
    BY DEF TypeOK
  <2>1. job[u][t].pc = "shut"
    BY <1>7 DEF ShutdownFromRemote
  <2>2. d \in Proxy
    BY <2>0, <2>1, JobType
  <2>3. x \in Endpoint \cup {None}
    BY <2>2 DEF TypeOK, ProxyConnect
  <2>4. \/ sock' = sock
        \/ x # None /\ sock' = [sock EXCEPT ![x] = [sock[x] EXCEPT !.eof = TRUE]]
    BY <1>7 DEF ShutdownFromRemote
  <2>5. CASE sock' = sock
    BY <1>0, <2>5, FieldsOfSocket
  <2>6. CASE x # None /\ sock' = [sock EXCEPT ![x] = [sock[x] EXCEPT !.eof = TRUE]]
    <3>1. x \in Endpoint
      BY <2>3, <2>6
    <3>2. /\ SocketKept(sock[x], [sock[x] EXCEPT !.eof = TRUE])
          /\ [sock[x] EXCEPT !.eof = TRUE].fin = sock[x].fin
      BY <1>0, <3>1, FieldsOfSocket
    <3>3. \E s \in Side, v \in Thread :
            ShutdownFromRemote(s, v) /\ pconn[s][job[s][v].conn].peer = x
      BY <1>7
    <3> HIDE DEF x
    <3> QED BY <1>1, <2>6, <3>1, <3>2, <3>3
  <2> QED BY <2>4, <2>5, <2>6
<1>8. ASSUME NEW x \in Endpoint, RelayPayload(x) PROVE Goal
  <2>1. PICK k \in 1 .. (sock[x].sent - sock[x].read) :
          sock' = [sock EXCEPT ![x] = [sock[x] EXCEPT !.read = sock[x].read + k]]
    BY <1>8 DEF RelayPayload
  <2> DEFINE r == [sock[x] EXCEPT !.read = sock[x].read + k]
  <2>2. SocketKept(sock[x], r) /\ r.eof = sock[x].eof /\ r.fin = sock[x].fin
    BY <1>0, FieldsOfSocket
  <2>3. sock' = [sock EXCEPT ![x] = r]
    BY <2>1
  <2> HIDE DEF r
  <2> QED BY <1>1, <2>2, <2>3
<1>9. ASSUME NEW u \in Side, NEW d \in Proxy, SplicePayload(u, d) PROVE Goal
  <2> DEFINE x == pconn[u][d].peer
  <2>1. PICK k : sock' = [sock EXCEPT ![x] = [sock[x] EXCEPT !.got = k]]
    BY <1>9 DEF SplicePayload
  <2>2. CASE x \in Endpoint
    <3> DEFINE r == [sock[x] EXCEPT !.got = k]
    <3>1. SocketKept(sock[x], r) /\ r.eof = sock[x].eof /\ r.fin = sock[x].fin
      BY <1>0, <2>2, FieldsOfSocket
    <3>2. sock' = [sock EXCEPT ![x] = r]
      BY <2>1
    <3> HIDE DEF r, x
    <3> QED BY <1>1, <2>2, <3>1, <3>2
  <2>3. CASE x \notin Endpoint
    <3>1. sock'[e] = sock[e]
      BY <2>1, <2>3 DEF TypeOK
    <3> QED BY <1>0, <3>1, FieldsOfSocket
  <2> QED BY <2>2, <2>3
<1>A. /\ \A x \in Endpoint : RelayEof(x) => sock' = sock
      /\ AddWaitProxyConn \/ HandleFreeProxyConnReq => sock' = sock
      /\ \A d \in Proxy : HandleStartProxyConnRsp(d) \/ ClaimProxyConn(d) => sock' = sock
      /\ \A u \in Side : HandleShutdownPeerConn(u) => sock' = sock
      /\ \A d \in Proxy : NewProxyConn(d) => sock' = sock
      /\ \A u \in Side, t \in Thread : CompareCounts(u, t) => sock' = sock
      /\ \A t \in Thread : FreeProxyConn(t) \/ RecycleProxyConn(t) \/ SendFreeConnReq(t)
                             => sock' = sock
      /\ \A t \in Thread : StartLocalConn(t) => sock' = sock
      /\ \A u \in Side, d \in Proxy : DropPayload(u, d) \/ ReadnGoesOn(u, d)
                                      \/ SendShutdown(u, d)
                                        => sock' = sock
  BY DEF RelayEof, AddWaitProxyConn,
         HandleStartProxyConnRsp, ClaimProxyConn, NewProxyConn,
         HandleShutdownPeerConn, StartLocalConn,
         HandleFreeProxyConnReq, CompareCounts, FreeProxyConn, RecycleProxyConn,
         SendFreeConnReq, DropPayload, ReadnGoesOn, SendShutdown
<1>11. sock' = sock => Goal
  BY <1>0, FieldsOfSocket
<1> HIDE DEF Goal
<1>12. Goal
  BY <1>3, <1>4, <1>5, <1>6, <1>7, <1>8, <1>9, <1>A, <1>11, NextCases
<1> QED BY <1>12 DEF Goal

-----------------------------------------------------------------------------
\* A relay object: replaced by Run, counting, or closed for good.
LEMMA RelayKept ==
    ASSUME TypeOK, Next, NEW e \in Endpoint
    PROVE  \/ relay'[e] = relay[e]
           \/ /\ relay'[e].conn = relay[e].conn /\ relay'[e].tran = relay[e].tran
              /\ relay'[e].closed
              /\ \/ RelayEof(e) /\ SideOf(e) = "server" /\ relay[e].conn \notin proxyMap
                 \/ \E s \in Side, c \in Proxy : SendShutdown(s, c) /\ job[s][c].end = e
           \/ RelayPayload(e) /\ relay'[e].conn = relay[e].conn /\ ~relay[e].closed
           \/ \E c \in Proxy : /\ e \in Public /\ Binds(c, e)
                               /\ relay'[e] = [conn |-> c, tran |-> 0, closed |-> FALSE]
           \/ \E t \in Thread :
                /\ Starts(t) /\ job["client"][t].end = e
                /\ relay'[e] = [conn |-> job["client"][t].conn, tran |-> 0, closed |-> FALSE]
           \/ /\ relay'[e] = NoRelay /\ relay[e].conn # None
              /\ \/ SideOf(e) = "server" /\ \E p \in Public : Binds(relay[e].conn, p)
                 \/ /\ SideOf(e) = "client"
                    /\ \E t \in Thread : Starts(t) /\ job["client"][t].conn = relay[e].conn
<1> DEFINE Goal ==
           \/ relay'[e] = relay[e]
           \/ /\ relay'[e].conn = relay[e].conn /\ relay'[e].tran = relay[e].tran
              /\ relay'[e].closed
              /\ \/ RelayEof(e) /\ SideOf(e) = "server" /\ relay[e].conn \notin proxyMap
                 \/ \E s \in Side, c \in Proxy : SendShutdown(s, c) /\ job[s][c].end = e
           \/ RelayPayload(e) /\ relay'[e].conn = relay[e].conn /\ ~relay[e].closed
           \/ \E c \in Proxy : /\ e \in Public /\ Binds(c, e)
                               /\ relay'[e] = [conn |-> c, tran |-> 0, closed |-> FALSE]
           \/ \E t \in Thread :
                /\ Starts(t) /\ job["client"][t].end = e
                /\ relay'[e] = [conn |-> job["client"][t].conn, tran |-> 0, closed |-> FALSE]
           \/ /\ relay'[e] = NoRelay /\ relay[e].conn # None
              /\ \/ SideOf(e) = "server" /\ \E p \in Public : Binds(relay[e].conn, p)
                 \/ /\ SideOf(e) = "client"
                    /\ \E t \in Thread : Starts(t) /\ job["client"][t].conn = relay[e].conn
<1> USE SideType
<1>0. \A x \in Endpoint : relay[x] \in Relay
  BY DEF TypeOK
<1>1. ASSUME relay' = relay PROVE Goal
  BY <1>1
<1>2. ASSUME NEW x \in Endpoint, x # e, NEW r, relay' = [relay EXCEPT ![x] = r] PROVE Goal
  BY <1>2 DEF TypeOK
<1>21. ASSUME NEW v, relay' = [relay EXCEPT ![e] = [relay[e] EXCEPT !.closed = TRUE]]
      PROVE  /\ relay'[e].conn = relay[e].conn /\ relay'[e].tran = relay[e].tran
             /\ relay'[e].closed
  BY <1>0, <1>21 DEF Relay, TypeOK
<1>3. ASSUME NEW x \in Endpoint, RelayPayload(x) PROVE Goal
  <2>1. PICK n : relay' = [relay EXCEPT ![x] = [relay[x] EXCEPT !.tran = n]]
    BY <1>3 DEF RelayPayload
  <2>2. x = e => relay'[e].conn = relay[e].conn /\ ~relay[e].closed
    BY <1>0, <1>3, <2>1 DEF Relay, TypeOK, RelayPayload, RelayReadable
  <2> QED BY <1>2, <1>3, <2>1, <2>2
<1>31. ASSUME NEW x \in Endpoint, RelayEof(x) PROVE Goal
  <2>1. \/ relay' = relay
        \/ /\ relay' = [relay EXCEPT ![x] = [relay[x] EXCEPT !.closed = TRUE]]
           /\ SideOf(x) = "server" /\ relay[x].conn \notin proxyMap
    BY <1>31 DEF RelayEof
  <2> QED BY <1>1, <1>2, <1>21, <1>31, <2>1
<1>4. ASSUME NEW s \in Side, NEW c \in Proxy, SendShutdown(s, c) PROVE Goal
  <2> DEFINE x == job[s][c].end
  <2>1. x \in Endpoint
    BY <1>4, JobType, Threads, SMTT(20) DEF SendShutdown, TypeOK
  <2>2. relay' = [relay EXCEPT ![x] = [relay[x] EXCEPT !.closed = TRUE]]
    BY <1>4 DEF SendShutdown
  <2>3. CASE x = e
    BY <1>4, <1>21, <2>2, <2>3
  <2>4. CASE x # e
    <3> HIDE DEF x
    <3> QED BY <1>2, <2>1, <2>2, <2>4
  <2> QED BY <2>3, <2>4
<1>5. ASSUME NEW t \in Thread, StartLocalConn(t) PROVE Goal
  <2> DEFINE j == job["client"][t]
  <2>0. j \in Job
    BY DEF TypeOK
  <2>1. j.pc = "run" /\ Run("client", j.conn, j.end)
    BY <1>5 DEF StartLocalConn
  <2>2. j.conn \in Proxy /\ j.end \in Endpoint
    BY <2>0, <2>1, JobType
  <2>3. CASE e = j.end
    <3>1. relay'[e] = [conn |-> j.conn, tran |-> 0, closed |-> FALSE]
      BY <2>1, <2>3 DEF Run
    <3> QED BY <1>5, <2>1, <2>3, <3>1 DEF Starts
  <2>4. CASE e # j.end
    <3>1. relay'[e] = IF SideOf(e) = "client" /\ relay[e].conn = j.conn THEN NoRelay
                      ELSE relay[e]
      BY <2>1, <2>4 DEF Run
    <3>2. j.conn # None
      BY <2>2, Threads
    <3> QED BY <1>5, <2>1, <3>1, <3>2 DEF Starts
  <2> QED BY <2>3, <2>4
<1>6. ASSUME NEW c \in Proxy, ClaimProxyConn(c) \/ HandleStartProxyConnRsp(c)
      PROVE  Goal
  <2>1. relay' = relay \/ \E p \in Public : Binds(c, p)
    BY <1>6, BindSteps DEF ReadMsg
  <2>2. ASSUME NEW p \in Public, Binds(c, p) PROVE Goal
    <3>1. p \in Endpoint /\ Run("server", c, p) /\ c # None
      BY <2>2, Sides, Threads DEF Binds, BindPublicFd
    <3>2. CASE e = p
      <4>1. relay'[e] = [conn |-> c, tran |-> 0, closed |-> FALSE]
        BY <3>1, <3>2 DEF Run
      <4> QED BY <2>2, <3>2, <4>1
    <3>3. CASE e # p
      <4>1. relay'[e] = IF SideOf(e) = "server" /\ relay[e].conn = c THEN NoRelay
                        ELSE relay[e]
        BY <3>1, <3>3 DEF Run
      <4> QED BY <2>2, <3>1, <4>1
    <3> QED BY <3>2, <3>3
  <2> QED BY <1>1, <2>1, <2>2
<1>7. /\ \A x \in Endpoint : Send(x) \/ Fin(x) => relay' = relay
      /\ AddWaitProxyConn \/ HandleFreeProxyConnReq => relay' = relay
      /\ \A p \in Public : ReuseProxyConn(p) \/ NotifyClientNeedProxy(p) => relay' = relay
      /\ \A d \in Proxy : HandleProxyNotify(d) \/ HandleProxyConnectReq(d)
                            => relay' = relay
      /\ \A u \in Side : HandleShutdownPeerConn(u) => relay' = relay
      /\ \A d \in Proxy : NewProxyConn(d) => relay' = relay
  BY DEF Send, Fin, AddWaitProxyConn, ReuseProxyConn,
         NotifyClientNeedProxy, HandleProxyNotify, HandleProxyConnectReq, NewProxyConn,
         HandleShutdownPeerConn, HandleFreeProxyConnReq
<1>71. /\ \A u \in Side, t \in Thread : CompareCounts(u, t) \/ ShutdownFromRemote(u, t)
                                         => relay' = relay
       /\ \A t \in Thread : FreeProxyConn(t) \/ RecycleProxyConn(t) \/ SendFreeConnReq(t)
                             => relay' = relay
  BY DEF ShutdownFromRemote, CompareCounts, FreeProxyConn, RecycleProxyConn, SendFreeConnReq
<1>72. \A u \in Side, d \in Proxy : DropPayload(u, d) \/ ReadnGoesOn(u, d)
                                  \/ SplicePayload(u, d) => relay' = relay
  BY DEF SplicePayload, DropPayload, ReadnGoesOn
<1> HIDE DEF Goal
<1>8. Goal
  BY <1>1, <1>3, <1>31, <1>4, <1>5, <1>6, <1>7, <1>71, <1>72, NextCases
<1> QED BY <1>8 DEF Goal

-----------------------------------------------------------------------------
(* Counts *)

\* The counters count past what one end sends, and none of the counts is the
\* -1 that total_count_ starts with.  In the code CountMod is 2^32.
ShortSessions == MaxUnits < CountMod - 1

LEMMA SmallCounts ==
    ASSUME ShortSessions
    PROVE  /\ \A n \in 0 .. MaxUnits : n % CountMod = n /\ n # NoTotal
           /\ NoTotal # 0
BY ConstantsAssumption DEF ShortSessions, NoTotal

LEMMA RelayCounts ==
    ASSUME TypeOK, ShortSessions, NEW e \in Endpoint, RelayPayload(e),
           relay[e].tran = sock[e].read
    PROVE  relay'[e].tran = sock'[e].read
<1>0. sock[e] \in Socket /\ relay[e] \in Relay
  BY DEF TypeOK
<1>1. PICK k \in 1 .. (sock[e].sent - sock[e].read) :
        /\ sock' = [sock EXCEPT ![e] = [sock[e] EXCEPT !.read = sock[e].read + k]]
        /\ relay' = [relay EXCEPT ![e] = [relay[e] EXCEPT !.tran = (relay[e].tran + k) % CountMod]]
  BY DEF RelayPayload
<1>2. sock'[e].read = sock[e].read + k
  BY <1>0, <1>1 DEF Socket, TypeOK
<1>3. relay'[e].tran = (sock[e].read + k) % CountMod
  BY <1>0, <1>1 DEF Relay, TypeOK
<1>4. sock[e].read + k \in 0 .. MaxUnits
  BY <1>0, <1>1, ConstantsAssumption DEF Socket
<1> QED BY <1>2, <1>3, <1>4, SmallCounts

LEMMA BindsUnbound ==
    ASSUME FdInv, NEW c \in Proxy, NEW p \in Public, Binds(c, p)
    PROVE  ~IsBound(p)
<1> USE SideType
<1>0. TypeOK
  BY DEF FdInv
<1>1. Has(unhandled, {p}) \/ Has(stream["server"][c], {ConnectReq(p), ConnectRsp(p)})
  <2>1. CASE unhandled # <<>> /\ p = unhandled[Len(unhandled)]
    <3>1. unhandled \in Seq(Public)
      BY <1>0 DEF TypeOK
    <3>2. Has(unhandled, {p})
      BY <2>1, <3>1, OncePopBack
    <3> QED BY <3>2
  <2>2. CASE Head(stream["server"][c]).kind = "rsp" /\ p = Head(stream["server"][c]).fd
    <3> DEFINE q == stream["server"][c]
    <3>1. q \in Seq(Elem) /\ q # <<>>
      BY <1>0 DEF Binds, TypeOK
    <3>2. Head(q) \in Elem
      BY <3>1, SeqType
    <3>3. Head(q) \in {ConnectReq(p), ConnectRsp(p)}
      BY <2>2, <3>2 DEF Elem, ConnectRsp
    <3> HIDE DEF q
    <3>4. Has(q, {ConnectReq(p), ConnectRsp(p)})
      BY <3>1, <3>3, OnceTail
    <3> QED BY <3>4 DEF q
  <2> QED BY <2>1, <2>2 DEF Binds
<1> QED BY <1>1, BoundApart

-----------------------------------------------------------------------------
\* conn2fd_ is set and cleared with start_.
LEMMA PeersStep ==
    ASSUME TypeOK, Owners, Peers, Next
    PROVE  Peers'
<1> USE SideType, Sides, Threads
<1>1. ASSUME NEW s \in Side, NEW c \in Proxy, pconn'[s][c].peer # None
      PROVE  pconn'[s][c].start
  <2> DEFINE k == pconn[s][c]
             l == pconn'[s][c]
  <2>0. k \in ProxyConnect /\ (k.peer # None => k.start)
    BY DEF TypeOK, Peers
  <2>1. ASSUME l = k PROVE l.start
    BY <1>1, <2>0, <2>1
  <2>2. /\ HalfClose(k).peer # None => HalfClose(k).start
        /\ \A n : AddTotalCount(k, n).peer # None => AddTotalCount(k, n).start
        /\ \A n : AddRecvCount(k, n).peer # None => AddRecvCount(k, n).start
        /\ NewProxyConnect.peer = None
    BY <2>0 DEF HalfClose, ResetConn, AddTotalCount, AddRecvCount, ProxyConnect, NewProxyConnect
  <2>3. ASSUME ~Works(s, c) PROVE l.start
    BY <2>1, <2>3, ConnUntouched
  <2>4. ASSUME OpensOn(s, c) PROVE l.start
    <3>1. ASSUME s = "server", NewProxyConn(c) PROVE l.start
      BY <1>1, <2>2, <3>1, ConnAt DEF NewProxyConn
    <3>2. ASSUME s = "server", NEW p \in Public, Binds(c, p) PROVE l.start
      BY <3>2, RunAt DEF Binds, BindPublicFd
    <3>3. ASSUME HandleProxyNotify(c) \/ HandleProxyConnectReq(c) PROVE l.start
      BY <2>1, <3>3 DEF HandleProxyNotify, HandleProxyConnectReq
    <3>4. ASSUME s = "client", NEW t \in Thread, Starts(t), job["client"][t].conn = c
          PROVE  l.start
      <4>0. job["client"][t] \in Job
        BY DEF TypeOK
      <4>1. job["client"][t].end \in Endpoint /\ Run("client", c, job["client"][t].end)
        BY <3>4, <4>0, JobType DEF Starts, StartLocalConn
      <4> QED BY <3>4, <4>1, RunAt
    <3> QED BY <2>4, <3>1, <3>2, <3>3, <3>4 DEF OpensOn
  <2>5. ASSUME EndsOn(s, c) PROVE l.start
    <3>1. ASSUME HandleShutdownPeerConn(s), Head(ctl[s]).conn = c PROVE l.start
      <4>1. pconn' = pconn \/ SetConn(s, c, AddTotalCount(k, Head(ctl[s]).count))
        BY <3>1 DEF HandleShutdownPeerConn
      <4> QED BY <1>1, <2>1, <2>2, <4>1, ConnAt
    <3>2. ASSUME NEW t \in Thread, CompareCounts(s, t) \/ ShutdownFromRemote(s, t),
                 job[s][t].conn = c
          PROVE  l.start
      <4>1. pconn' = pconn \/ SetConn(s, c, HalfClose(k))
        BY <3>2 DEF CompareCounts, ShutdownFromRemote
      <4> QED BY <1>1, <2>1, <2>2, <4>1, ConnAt
    <3>3. ASSUME SplicePayload(s, c) PROVE l.start
      <4>1. \E n : SetConn(s, c, AddRecvCount(k, n))
        BY <3>3 DEF SplicePayload
      <4> QED BY <1>1, <2>2, <4>1, ConnAt
    <3>4. ASSUME SendShutdown(s, c) PROVE l.start
      BY <2>1, <3>4 DEF SendShutdown
    <3>5. ASSUME NEW e \in Endpoint, RelayEof(e), relay[e].conn = c, SideOf(e) = s
          PROVE  l.start
      <4>1. pconn' = pconn \/ SetConn(s, c, HalfClose(k))
        BY <3>5 DEF RelayEof, ShutdownFromLocal
      <4> QED BY <1>1, <2>1, <2>2, <4>1, ConnAt
    <3> QED BY <2>5, <3>1, <3>2, <3>3, <3>4, <3>5 DEF EndsOn
  <2> QED BY <2>3, <2>4, <2>5 DEF Works
<1>2. ASSUME NEW c \in Proxy, pconn'["client"][c].start
      PROVE  pconn'["client"][c].peer[1] = c
  <2>1. CASE \E t \in Thread : Starts(t) /\ job["client"][t].conn = c
    <3>1. PICK t \in Thread : Starts(t) /\ job["client"][t].conn = c
      BY <2>1
    <3>2. job["client"][t].end \in Local /\ job["client"][t].end[1] = c
      BY <3>1 DEF Starts, Owners, OwnRuns
    <3>3. Run("client", c, job["client"][t].end)
      BY <3>1 DEF Starts, StartLocalConn
    <3>4. pconn'["client"][c].peer = job["client"][t].end
      BY <3>2, <3>3, RunAt
    <3> QED BY <3>2, <3>4
  <2>2. CASE Kept(pconn["client"][c], pconn'["client"][c])
    BY <1>2, <2>2 DEF Kept, Peers
  <2> QED BY <2>1, <2>2, ConnSteps
<1> QED BY <1>1, <1>2 DEF Peers

LEMMA ReadSentStep ==
    ASSUME TypeOK, ReadSent, Next
    PROVE  ReadSent'
BY EndSteps DEF ReadSent, SocketKept

-----------------------------------------------------------------------------
\* The ends of c: its local connections and the public clients it was bound to.
EndOf(c, e) ==
    \/ e \in Local /\ e[1] = c
    \/ e \in Public /\ Has(bound[c], {e})

\* Only the peer of a started ProxyConnect is written to, and only an end of
\* the connection is its peer.
LEMMA PeerEnds ==
    ASSUME TypeOK, Owners, Peers, NEW s \in Side, NEW c \in Proxy,
           pconn[s][c].peer # None
    PROVE  /\ EndOf(c, pconn[s][c].peer) /\ SideOf(pconn[s][c].peer) = s
           /\ pconn[s][c].peer \in Endpoint
           /\ s = "server" => pconn[s][c].peer = Last(bound[c])
<1> USE SideType, Sides
<1>1. pconn[s][c].start
  BY DEF Peers
<1>2. CASE s = "server"
  <2>1. bound[c] \in Seq(Public) /\ bound[c] # <<>> /\ pconn[s][c].peer = Last(bound[c])
    BY <1>1, <1>2 DEF TypeOK, Owners, OwnPeers
  <2>2. Last(bound[c]) \in Public /\ Has(bound[c], {Last(bound[c])})
    BY <2>1, LastHas
  <2> QED BY <1>2, <2>1, <2>2 DEF EndOf
<1>3. CASE s = "client"
  BY <1>1, <1>3 DEF Owners, OwnPeers, Peers, EndOf
<1> QED BY <1>2, <1>3

LEMMA EndsApart ==
    ASSUME FdInv, NEW c \in Proxy, NEW d \in Proxy, NEW e, EndOf(c, e), EndOf(d, e)
    PROVE  c = d
BY BoundApart, Sides DEF EndOf

LEMMA EndCalm ==
    ASSUME FdInv, Owners, Peers, Next, NEW c \in Proxy, NEW e \in Endpoint, EndOf(c, e)
    PROVE  /\ \/ sock'[e].got = sock[e].got
              \/ SplicePayload(SideOf(e), c) /\ pconn[SideOf(e)][c].peer = e
           /\ \/ sock'[e].eof = sock[e].eof
              \/ \E t \in Thread :
                   /\ ShutdownFromRemote(SideOf(e), t) /\ job[SideOf(e)][t].conn = c
                   /\ pconn[SideOf(e)][c].peer = e
<1> USE SideType, Sides, Threads
<1>0. TypeOK
  BY DEF FdInv
<1>1. ASSUME NEW s \in Side, NEW d \in Proxy, pconn[s][d].peer = e
      PROVE  d = c /\ s = SideOf(e)
  <2>1. e # None
    BY ConstantsAssumption DEF Endpoint, Local
  <2> QED BY <1>0, <1>1, <2>1, PeerEnds, EndsApart
<1>2. ASSUME NEW s \in Side, NEW d \in Proxy, SplicePayload(s, d), pconn[s][d].peer = e
      PROVE  SplicePayload(SideOf(e), c) /\ pconn[SideOf(e)][c].peer = e
  BY <1>1, <1>2
<1>3. ASSUME NEW s \in Side, NEW t \in Thread, ShutdownFromRemote(s, t),
             pconn[s][job[s][t].conn].peer = e
      PROVE  /\ ShutdownFromRemote(SideOf(e), t) /\ job[SideOf(e)][t].conn = c
             /\ pconn[SideOf(e)][c].peer = e
  <2>1. job[s][t] \in Job /\ job[s][t].pc = "shut"
    <3>1. job[s][t] \in Job
      BY <1>0 DEF TypeOK
    <3> QED BY <1>3, <3>1 DEF ShutdownFromRemote
  <2>2. job[s][t].conn \in Proxy
    BY <2>1, JobType
  <2> QED BY <1>1, <1>3, <2>2
<1>4. \/ sock'[e].got = sock[e].got
      \/ \E s \in Side, d \in Proxy : SplicePayload(s, d) /\ pconn[s][d].peer = e
  BY <1>0, SockSteps
<1>5. \/ sock'[e].eof = sock[e].eof
      \/ \E s \in Side, t \in Thread :
           ShutdownFromRemote(s, t) /\ pconn[s][job[s][t].conn].peer = e
  BY <1>0, EndSteps
<1> QED BY <1>2, <1>3, <1>4, <1>5

LEMMA PublicEndsStep ==
    ASSUME FdInv, ShortSessions, Owners, Peers, PublicEnds, Next
    PROVE  PublicEnds'
<1> USE SideType, Sides, Threads
<1>0. TypeOK
  BY DEF FdInv
<1>1. ASSUME NEW p \in Public, relay'[p].conn # None
      PROVE  Has(bound'[relay'[p].conn], {p}) /\ relay'[p].tran = sock'[p].read
  <2>0. relay[p] \in Relay
    BY <1>0 DEF TypeOK
  <2>1. relay[p].conn # None => /\ Has(bound[relay[p].conn], {p})
                                /\ relay[p].conn \in Proxy
                                /\ Has(bound'[relay[p].conn], {p})
    BY <1>0, <2>0, RelayType, BoundGrows DEF PublicEnds
  <2>2. CASE RelayPayload(p)
    <3>1. relay'[p].conn = relay[p].conn
      BY <1>0, <2>2 DEF RelayPayload, TypeOK, Relay
    <3> QED BY <1>0, <1>1, <2>1, <2>2, <3>1, RelayCounts DEF PublicEnds
  <2>3. ASSUME NEW c \in Proxy, Binds(c, p),
               relay'[p] = [conn |-> c, tran |-> 0, closed |-> FALSE]
        PROVE  Has(bound'[relay'[p].conn], {p}) /\ relay'[p].tran = sock'[p].read
    <3>1. sock[p].read = 0
      BY <2>3, BindsUnbound DEF PublicEnds
    <3>2. bound'[c] = Append(bound[c], p) /\ bound[c] \in Seq(Public)
      BY <1>0, <2>3, BoundGrows
    <3>3. Has(bound'[c], {p})
      BY <3>2 DEF Has
    <3>4. sock' = sock
      BY <2>3 DEF Binds, ClaimProxyConn, HandleStartProxyConnRsp
    <3> QED BY <2>3, <3>1, <3>3, <3>4
  <2>4. CASE ~RelayPayload(p) /\ relay'[p].conn = relay[p].conn /\ relay'[p].tran = relay[p].tran
    <3>1. sock'[p].read = sock[p].read
      BY <1>0, <2>4, SockSteps
    <3> QED BY <1>1, <2>1, <2>4, <3>1 DEF PublicEnds
  <2>5. ~ \E t \in Thread : Starts(t) /\ job["client"][t].end = p
    BY DEF Starts, Owners, OwnRuns
  <2>6. relay'[p] # NoRelay
    BY <1>1 DEF NoRelay
  <2>7. relay'[p] = relay[p] => relay'[p].conn = relay[p].conn /\ relay'[p].tran = relay[p].tran
    OBVIOUS
  <2> QED BY <1>0, <2>2, <2>3, <2>4, <2>5, <2>6, <2>7, RelayKept
<1>2. ASSUME NEW p \in Public, ~IsBound(p)' PROVE sock'[p].read = 0 /\ ~sock'[p].eof
  <2>1. ~IsBound(p)
    BY <1>0, <1>2, BoundGrows DEF IsBound
  <2>2. sock[p].read = 0 /\ ~sock[p].eof
    BY <2>1 DEF PublicEnds
  <2>3. ~RelayPayload(p)
    <3>1. relay[p] \in Relay
      BY <1>0 DEF TypeOK
    <3>2. relay[p].conn = None
      BY <2>1, <3>1, RelayType DEF PublicEnds, IsBound
    <3> QED BY <3>2 DEF RelayPayload, RelayReadable
  <2>4. sock'[p].read = 0
    BY <1>0, <2>2, <2>3, SockSteps
  <2>5. ASSUME NEW s \in Side, NEW t \in Thread,
               ShutdownFromRemote(s, t), pconn[s][job[s][t].conn].peer = p
        PROVE  FALSE
    <3>1. job[s][t] \in Job /\ job[s][t].pc = "shut"
      <4>1. job[s][t] \in Job
        BY <1>0 DEF TypeOK
      <4> QED BY <2>5, <4>1 DEF ShutdownFromRemote
    <3>2. job[s][t].conn \in Proxy
      BY <3>1, JobType
    <3>3. EndOf(job[s][t].conn, p)
      <4>1. p # None
        BY ConstantsAssumption
      <4> QED BY <1>0, <2>5, <3>2, <4>1, PeerEnds
    <3> QED BY <2>1, <3>2, <3>3 DEF EndOf, IsBound
  <2> QED BY <1>0, <2>2, <2>4, <2>5, EndSteps
<1> QED BY <1>1, <1>2 DEF PublicEnds

-----------------------------------------------------------------------------
\* The relay object of an end of c stays until the next session of c starts.
LEMMA RelayCalm ==
    ASSUME FdInv, Owners, PublicEnds, Next, NEW c \in Proxy, NEW e \in Endpoint, EndOf(c, e),
           SideOf(e) = "server" => ~ \E p \in Public : Binds(c, p),
           SideOf(e) = "client" => ~ \E t \in Thread : Starts(t) /\ job["client"][t].conn = c
    PROVE  /\ relay'[e].conn = relay[e].conn
           /\ relay[e].closed => relay'[e].closed
<1> USE SideType, Sides, Threads
<1>0. TypeOK
  BY DEF FdInv
<1>1. relay[e] \in Relay /\ relay[e].conn \in {c, None}
  <2>1. relay[e] \in Relay
    BY <1>0 DEF TypeOK
  <2>2. CASE e \in Local
    <3>1. e[1] = c
      BY <2>2 DEF EndOf
    <3> QED BY <2>1, <2>2, <3>1 DEF Owners, OwnRelays
  <2>3. CASE e \in Public
    <3>1. relay[e].conn # None => EndOf(relay[e].conn, e) /\ relay[e].conn \in Proxy
      BY <2>1, <2>3, RelayType DEF PublicEnds, EndOf
    <3> QED BY <2>1, <3>1, EndsApart
  <2> QED BY <2>1, <2>2, <2>3
<1>2. ~ \E d \in Proxy : e \in Public /\ Binds(d, e)
  <2>1. ASSUME NEW d \in Proxy, e \in Public, Binds(d, e) PROVE FALSE
    <3>1. ~IsBound(e) /\ Has(bound[c], {e})
      BY <2>1, BindsUnbound DEF EndOf
    <3> QED BY <3>1 DEF IsBound
  <2> QED BY <2>1
<1>3. ~ \E t \in Thread : Starts(t) /\ job["client"][t].end = e
  <2>1. ASSUME NEW t \in Thread, Starts(t), job["client"][t].end = e PROVE FALSE
    <3>1. e \in Local /\ e[1] = job["client"][t].conn
      BY <2>1 DEF Starts, Owners, OwnRuns
    <3> QED BY <2>1, <3>1 DEF EndOf
  <2> QED BY <2>1
<1>4. ~ (relay[e].conn # None /\ SideOf(e) = "server" /\ \E p \in Public : Binds(relay[e].conn, p))
  BY <1>1
<1>5. ~ (/\ relay[e].conn # None /\ SideOf(e) = "client"
         /\ \E t \in Thread : Starts(t) /\ job["client"][t].conn = relay[e].conn)
  BY <1>1
<1> QED BY <1>0, <1>2, <1>3, <1>4, <1>5, RelayKept

-----------------------------------------------------------------------------
(* Steps that leave c alone *)

\* What the lemmas below take from the invariants of all connections.
Ground ==
    /\ FdInv /\ Owners /\ Claimed /\ Fresh /\ MetaOnce /\ BothComplete
    /\ Peers /\ ReadSent /\ PublicEnds

\* The direction from e to f is left alone, but for what e does itself.
Frame(s, c, e, f) ==
    /\ Reports(Other(s), c)' <=> Reports(Other(s), c)
    /\ Reports(Other(s), c) => job'[Other(s)][c].end = job[Other(s)][c].end
    /\ SameCloses(ctl[s], ctl'[s], c)
    /\ \A t \in Thread : /\ At(s, t, c, "shut")' => At(s, t, c, "shut")
                         /\ At(s, t, c, "compare")' => At(s, t, c, "compare")
    /\ SocketKept(sock[e], sock'[e])
    /\ relay'[e].conn = relay[e].conn /\ (relay[e].closed => relay'[e].closed)
    /\ sock'[f].got = sock[f].got /\ sock'[f].eof = sock[f].eof

LEMMA AnnouncedFrame ==
    ASSUME NEW s, NEW c, NEW e, NEW f, NEW st, Frame(s, c, e, f),
           Announced(s, c, e, st)
    PROVE  Announced(s, c, e, st)' /\ (st # "unsent" => sock'[e].sent = sock[e].sent)
<1>1. Coming(s, c)' <=> Coming(s, c)
  BY DEF Frame, Coming, SameCloses
<1>2. Once(ctl'[s], Closes(c))
  BY DEF Frame, SameCloses, Announced
<1>3. ~(Reports(Other(s), c)' /\ Has(ctl'[s], Closes(c)))
  BY DEF Frame, SameCloses, Announced
<1>4. st # "unsent" => sock'[e].sent = sock[e].sent /\ Ended(e)'
  BY DEF Announced, Frame, SocketKept, Ended
<1>5. Reports(Other(s), c)' => job'[Other(s)][c].end = e /\ relay'[e].conn = c
  BY DEF Frame, Announced
<1>6. ASSUME NEW i \in 1 .. Len(ctl'[s]), ctl'[s][i] \in Closes(c)
      PROVE  ctl'[s][i].count = sock'[e].sent
  <2>1. PICK j \in 1 .. Len(ctl[s]) : ctl[s][j] = ctl'[s][i]
    BY <1>6 DEF Frame, SameCloses
  <2>2. Has(ctl[s], Closes(c)) /\ ctl[s][j].count = sock[e].sent
    BY <1>6, <2>1 DEF Has, Announced
  <2>3. st = "coming"
    BY <2>2 DEF Coming, Announced
  <2> QED BY <1>4, <2>1, <2>2, <2>3
<1>7. st # "unsent" => relay'[e].closed \/ Reports(Other(s), c)'
  BY DEF Announced, Frame
<1> QED BY <1>1, <1>2, <1>3, <1>4, <1>5, <1>6, <1>7 DEF Announced

LEMMA DirectionFrame ==
    ASSUME NEW s, NEW c, NEW e, NEW f, NEW st, Frame(s, c, e, f),
           Direction(s, c, e, f, st),
           \/ st = "done"
           \/ pconn'[s][c].recv = pconn[s][c].recv /\ pconn'[s][c].total = pconn[s][c].total
    PROVE  Direction(s, c, e, f, st)'
<1>1. Announced(s, c, e, st)' /\ (st # "unsent" => sock'[e].sent = sock[e].sent)
  BY AnnouncedFrame DEF Direction
<1>2. /\ \A t \in Thread : /\ At(s, t, c, "shut")' => At(s, t, c, "shut")
                           /\ At(s, t, c, "compare")' => At(s, t, c, "compare")
      /\ sock'[f].got = sock[f].got /\ sock'[f].eof = sock[f].eof
  BY DEF Frame
<1>3. Compared(s, c, e, f, st)
  BY DEF Direction
<1>4. Compared(s, c, e, f, st)'
  <2>1. CASE st = "done"
    BY <1>1, <1>2, <1>3, <2>1 DEF Compared
  <2>2. CASE st # "done" /\ pconn'[s][c].recv = pconn[s][c].recv
                         /\ pconn'[s][c].total = pconn[s][c].total
    BY <1>1, <1>2, <1>3, <2>2 DEF Compared, Untold
  <2> QED BY <2>1, <2>2
<1> QED BY <1>1, <1>4 DEF Direction

-----------------------------------------------------------------------------
\* Steps of neither side that start or end anything on c.
Idles(c) == ~Works("server", c) /\ ~Works("client", c)

LEMMA IdlesFacts ==
    ASSUME TypeOK, OwnJobs, Next, NEW c \in Proxy, Idles(c)
    PROVE  /\ \A s \in Side : pconn'[s][c] = pconn[s][c]
           /\ \A s \in Side, t \in Thread : \A pc \in {"compare", "shut", "run", "fin"} :
                At(s, t, c, pc)' <=> At(s, t, c, pc)
           /\ \A s \in Side : /\ Reports(s, c)' <=> Reports(s, c)
                              /\ Reports(s, c) => job'[s][c].end = job[s][c].end
           /\ \A s \in Side : SameCloses(ctl[s], ctl'[s], c)
           /\ bound'[c] = bound[c] /\ ran'[c] = ran[c]
           /\ ~ \E p \in Public : Binds(c, p)
           /\ ~ \E t \in Thread : Starts(t) /\ job["client"][t].conn = c
<1> USE SideType, Sides, Threads
<1>1. \A s \in Side : ~Works(s, c) /\ ~OpensOn(s, c) /\ ~EndsOn(s, c)
  BY DEF Idles, Works
<1>2. \A s \in Side : pconn'[s][c] = pconn[s][c]
  BY <1>1, ConnUntouched
<1>3. ASSUME NEW s \in Side, NEW t \in Thread
      PROVE  job'[s][t] = job[s][t] \/ (~Working(job[s][t], c) /\ ~Working(job'[s][t], c))
  BY <1>1, JobUntouched
<1>4. ASSUME NEW s \in Side, NEW t \in Thread, NEW pc \in {"compare", "shut", "run", "fin"}
      PROVE  At(s, t, c, pc)' <=> At(s, t, c, pc)
  BY <1>3 DEF At, Working
<1>5. ASSUME NEW s \in Side PROVE /\ Reports(s, c)' <=> Reports(s, c)
                                  /\ Reports(s, c) => job'[s][c].end = job[s][c].end
  <2>1. job[s][c] \in Job /\ job[s][c].conn \in {c, None}
    BY DEF TypeOK, OwnJobs
  <2>2. Reports(s, c) => Working(job[s][c], c)
    BY <2>1, JobType DEF Reports, Working
  <2>3. Reports(s, c)' => job'[s][c] = job[s][c] \/ Working(job'[s][c], c)
    <3>1. ASSUME Reports(s, c)', job'[s][c] # job[s][c] PROVE Working(job'[s][c], c)
      <4>1. JobStep(s, c, job'[s][c])
        BY JobSteps
      <4> DEFINE k == job'[s][c]
      <4>2. k.pc = "fin" /\ k # job[s][c]
        BY <3>1 DEF Reports
      <4> HIDE DEF k
      <4>3. k.conn = c
        BY <4>1, <4>2, JobCases, JobFields DEF k
      <4> QED BY <4>2, <4>3 DEF Working, k
    <3> QED BY <3>1
  <2> QED BY <1>3, <2>2, <2>3 DEF Reports
<1>6. ASSUME NEW s \in Side PROVE SameCloses(ctl[s], ctl'[s], c)
  <2>1. ~(HandleShutdownPeerConn(s) /\ Head(ctl[s]).conn = c) /\ ~SendShutdown(Other(s), c)
    BY <1>1 DEF EndsOn
  <2> QED BY <2>1, CtlUntouched
<1>7. ~ \E p \in Public : Binds(c, p)
  BY <1>1 DEF OpensOn
<1>8. ~ \E t \in Thread : Starts(t) /\ job["client"][t].conn = c
  BY <1>1 DEF OpensOn
<1>9. bound'[c] = bound[c]
  BY <1>7, BoundGrows
<1>10. ran'[c] = ran[c]
  BY <1>1, RanAt DEF OpensOn
<1> QED BY <1>2, <1>4, <1>5, <1>6, <1>7, <1>8, <1>9, <1>10

LEMMA IdlesEnds ==
    ASSUME Ground, Next, NEW c \in Proxy, Idles(c), NEW e \in Endpoint, EndOf(c, e)
    PROVE  /\ SocketKept(sock[e], sock'[e])
           /\ sock'[e].got = sock[e].got /\ sock'[e].eof = sock[e].eof
           /\ relay'[e].conn = relay[e].conn /\ (relay[e].closed => relay'[e].closed)
<1> USE SideType, Sides
<1>0. TypeOK /\ FdInv /\ Owners /\ OwnJobs /\ Peers /\ PublicEnds
  BY DEF Ground, FdInv, Owners
<1>1. ~EndsOn("server", c) /\ ~EndsOn("client", c)
  BY DEF Idles, Works
<1>2. ~EndsOn(SideOf(e), c)
  BY <1>1
<1>3. sock'[e].got = sock[e].got
  BY <1>0, <1>2, EndCalm DEF EndsOn
<1>4. sock'[e].eof = sock[e].eof
  BY <1>0, <1>2, EndCalm DEF EndsOn
<1>5. /\ ~ \E p \in Public : Binds(c, p)
      /\ ~ \E t \in Thread : Starts(t) /\ job["client"][t].conn = c
  BY <1>0, IdlesFacts
<1>6. relay'[e].conn = relay[e].conn /\ (relay[e].closed => relay'[e].closed)
  BY <1>0, <1>5, RelayCalm
<1>7. SocketKept(sock[e], sock'[e])
  BY <1>0, EndSteps
<1> QED BY <1>3, <1>4, <1>6, <1>7

LEMMA IdlesFrame ==
    ASSUME Ground, Next, NEW c \in Proxy, Idles(c), NEW s \in Side,
           NEW e \in Endpoint, EndOf(c, e), NEW f \in Endpoint, EndOf(c, f)
    PROVE  Frame(s, c, e, f)
<1>0. TypeOK /\ OwnJobs /\ Other(s) \in Side
  BY SideType DEF Ground, FdInv, Owners
<1>1. \A t \in Thread : /\ At(s, t, c, "shut")' => At(s, t, c, "shut")
                        /\ At(s, t, c, "compare")' => At(s, t, c, "compare")
  BY <1>0, IdlesFacts
<1>2. /\ Reports(Other(s), c)' <=> Reports(Other(s), c)
      /\ Reports(Other(s), c) => job'[Other(s)][c].end = job[Other(s)][c].end
      /\ SameCloses(ctl[s], ctl'[s], c)
  BY <1>0, IdlesFacts
<1> QED BY <1>1, <1>2, IdlesEnds DEF Frame

\* The two ends of a session.
LEMMA CourseEnds ==
    ASSUME Ground, NEW c \in Proxy, Undisturbed(c),
           NEW p \in Public, NEW z \in Local, NEW a, NEW b, Course(c, p, z, a, b)
    PROVE  /\ EndOf(c, p) /\ EndOf(c, z) /\ p \in Endpoint /\ z \in Endpoint
           /\ z = <<c, ran[c]>> /\ ran[c] = Len(bound[c]) /\ ran[c] \in 1 .. MaxSession
           /\ bound[c] \in Seq(Public) /\ bound[c] # <<>> /\ c \in proxyMap
           /\ bound[c][ran[c]] = p
<1> USE Sides, Threads
<1>1. TypeOK /\ pconn["server"][c].start /\ p = Last(bound[c]) /\ z = Newcomer(c)
  BY DEF Ground, FdInv, Course
<1>2. c \in proxyMap /\ ran[c] = Len(bound[c])
  BY <1>1 DEF Undisturbed, Flow, Counts
<1>3. bound[c] \in Seq(Public) /\ bound[c] # <<>>
  BY <1>1 DEF TypeOK, Ground, Owners, OwnPeers
<1>4. Has(bound[c], {p})
  BY <1>1, <1>3, LastHas
<1>5. z[1] = c /\ z = <<c, ran[c]>>
  BY <1>1 DEF Newcomer
<1>6. ran[c] \in 1 .. MaxSession
  BY <1>5
<1> QED BY <1>1, <1>2, <1>3, <1>4, <1>5, <1>6 DEF EndOf, Last

LEMMA CourseIdles ==
    ASSUME Ground, Next, NEW c \in Proxy, Undisturbed(c), Idles(c),
           NEW p \in Public, NEW z \in Local, NEW a, NEW b, Course(c, p, z, a, b)
    PROVE  Course(c, p, z, a, b)'
<1> USE SideType, Sides
<1>0. TypeOK /\ OwnJobs
  BY DEF Ground, FdInv, Owners
<1>1. EndOf(c, p) /\ EndOf(c, z) /\ p \in Endpoint /\ z \in Endpoint
  BY CourseEnds
<1>2. /\ pconn'["server"][c] = pconn["server"][c] /\ pconn'["client"][c] = pconn["client"][c]
      /\ bound'[c] = bound[c] /\ ran'[c] = ran[c]
  BY <1>0, IdlesFacts
<1>3. Direction("client", c, p, z, a)'
  BY <1>1, <1>2, IdlesFrame, DirectionFrame DEF Course
<1>4. Direction("server", c, z, p, b)'
  BY <1>1, <1>2, IdlesFrame, DirectionFrame DEF Course
<1>5. InUse(c)' <=> InUse(c)
  <2>1. \A t \in Thread : At("client", t, c, "run")' <=> At("client", t, c, "run")
    BY <1>0, IdlesFacts
  <2> QED BY <1>2, <2>1 DEF InUse, OpenFor
<1> QED BY <1>2, <1>3, <1>4, <1>5 DEF Course, Newcomer, Last, Untold

LEMMA InUseRan ==
    ASSUME Ground, NEW c \in Proxy, InUse(c)
    PROVE  ran[c] \in 1 .. MaxSession /\ Newcomer(c) \in Local /\ Newcomer(c) \in Endpoint
           /\ EndOf(c, Newcomer(c))
<1> USE SideType, Sides, Threads
<1>1. life[c] = "absent" => ~InUse(c)
  BY DEF Ground, Fresh, Unmade, InUse, OpenFor, At
<1>2. ran[c] # 0
  BY <1>1 DEF Ground, Fresh
<1>3. ran[c] \in 0 .. MaxSession
  BY DEF Ground, FdInv, TypeOK
<1>4. ran[c] \in 1 .. MaxSession
  BY <1>2, <1>3, ConstantsAssumption
<1>5. Newcomer(c) \in Local /\ Newcomer(c)[1] = c
  BY <1>4 DEF Newcomer
<1> QED BY <1>4, <1>5 DEF EndOf

\* The relay objects of public clients that still read are of started
\* connections: payload reaches the client only in a session.
LEMMA RestIdles ==
    ASSUME Ground, Next, NEW c \in Proxy, Idles(c), Rest(c), Relays(c)
    PROVE  Rest(c)'
<1> USE SideType, Sides
<1>0. TypeOK /\ OwnJobs
  BY DEF Ground, FdInv, Owners
<1>1. /\ \A s \in Side : pconn'[s][c] = pconn[s][c]
      /\ bound'[c] = bound[c] /\ ran'[c] = ran[c]
  BY <1>0, IdlesFacts
<1>2. \A t \in Thread : At("client", t, c, "run")' <=> At("client", t, c, "run")
  BY <1>0, IdlesFacts
<1>3. \A s \in Side, t \in Thread : ~At(s, t, c, "shut")' /\ ~At(s, t, c, "compare")'
  BY <1>0, IdlesFacts DEF Rest
<1>4. \A s \in Side : ~Coming(s, c)'
  BY <1>0, IdlesFacts DEF Rest, Coming, SameCloses
<1>5. InUse(c)' <=> InUse(c)
  BY <1>1, <1>2 DEF InUse, OpenFor
<1>6. InUse(c) => sock'[Newcomer(c)].got = <<>> /\ ~sock'[Newcomer(c)].eof
  BY InUseRan, IdlesEnds DEF Rest
<1>7. Newcomer(c)' = Newcomer(c)
  BY <1>1 DEF Newcomer
<1>8. ~Has(stream'["client"][c], Elem \ OfKind("req"))
  <2> DEFINE V == Elem \ OfKind("req")
  <2>1. ~Has(stream["client"][c], V) /\ stream["client"][c] \in Seq(Elem)
    BY <1>0 DEF Rest, TypeOK
  <2>2. ASSUME NEW x \in Public, stream'["client"][c] = Append(stream["client"][c], ConnectReq(x))
        PROVE  ~Has(stream'["client"][c], V)
    <3>1. ConnectReq(x) \in Elem /\ ConnectReq(x) \notin V
      BY Kinds, ElemType
    <3> HIDE DEF V
    <3> QED BY <2>1, <2>2, <3>1, OnceAppend DEF Shrinks
  <2>3. ~ \E e \in Endpoint : RelayPayload(e) /\ "client" = Other(SideOf(e)) /\ relay[e].conn = c
    <3>1. ASSUME NEW e \in Endpoint, RelayPayload(e), "client" = Other(SideOf(e)), relay[e].conn = c
          PROVE  FALSE
      <4>1. ~relay[e].closed /\ SideOf(e) = "server"
        BY <3>1 DEF RelayPayload, RelayReadable
      <4>2. e \in Public /\ e \notin Local
        BY <4>1
      <4>3. e = Newcomer(c) /\ (pconn["client"][c].start \/ Reports("client", c))
        BY <3>1, <4>1 DEF Relays, Rest
      <4>4. ~Reports("client", c)
        BY DEF Rest, Coming
      <4>5. InUse(c)
        BY <4>3, <4>4 DEF InUse
      <4> QED BY <4>2, <4>3, <4>5, InUseRan
    <3> QED BY <3>1
  <2>4. \/ Shrinks(stream["client"][c], stream'["client"][c], V)
        \/ \E x \in Public : stream'["client"][c] = Append(stream["client"][c], ConnectReq(x))
    <3>1. (\A W : Shrinks(stream["client"][c], stream'["client"][c], W))
            => Shrinks(stream["client"][c], stream'["client"][c], V)
      OBVIOUS
    <3> HIDE DEF V
    <3> QED BY <1>0, <2>3, <3>1, StreamSteps
  <2> HIDE DEF V
  <2>5. ~Has(stream'["client"][c], V)
    BY <2>1, <2>2, <2>4 DEF Shrinks
  <2> QED BY <2>5 DEF V
<1> QED BY <1>1, <1>3, <1>4, <1>5, <1>6, <1>7, <1>8 DEF Rest, Untold

-----------------------------------------------------------------------------
(* What holds of a connection in every session *)

\* What holds of a connection whose session nothing has disturbed.
Steady(c) ==
    /\ Newest(c) /\ Undisturbed(c) /\ Relays(c) /\ LocalEnds(c) /\ Opened(c) /\ CarriedOut(c)

LEMMA GroundFacts ==
    ASSUME Ground
    PROVE  /\ TypeOK /\ FdInv /\ Owners /\ OwnJobs /\ OwnRuns /\ OwnRelays /\ OwnPeers
           /\ Claimed /\ Fresh /\ MetaOnce /\ BothComplete
           /\ Peers /\ ReadSent /\ PublicEnds
BY DEF Ground, FdInv, Owners

LEMMA SocketTypes ==
    ASSUME TypeOK, NEW e \in Endpoint
    PROVE  /\ sock[e].got \in Seq(Elem)
           /\ sock[e].read \in 0 .. MaxUnits /\ sock[e].sent \in 0 .. MaxUnits
           /\ sock[e].read \in Nat /\ sock[e].sent \in Nat
BY ConstantsAssumption DEF TypeOK, Socket

LEMMA ConnTypes ==
    ASSUME TypeOK, NEW s \in Side, NEW c \in Proxy
    PROVE  stream[s][c] \in Seq(Elem) /\ pconn[s][c] \in ProxyConnect
BY DEF TypeOK

\* What an end has received and is to receive was read from the other.
LEMMA Room ==
    ASSUME Ground, NEW c \in Proxy, Undisturbed(c), CarriedOut(c),
           NEW p \in Public, NEW z \in Local, NEW a, NEW b, Course(c, p, z, a, b)
    PROVE  /\ Len(sock[z].got) + Len(stream["client"][c]) <= sock[p].read
           /\ Len(sock[p].got) + Len(stream["server"][c]) <= sock[z].read
           /\ sock[p].read <= sock[p].sent /\ sock[z].read <= sock[z].sent
           /\ sock[p].sent <= MaxUnits /\ sock[z].sent <= MaxUnits
<1> USE SideType, Sides
<1>1. TypeOK /\ p \in Endpoint /\ z \in Endpoint
  BY GroundFacts
<1>2. /\ sock[z].got \in Seq(Elem) /\ stream["client"][c] \in Seq(Elem)
      /\ sock[p].got \in Seq(Elem) /\ stream["server"][c] \in Seq(Elem)
      /\ sock[p].sent \in 0 .. MaxUnits /\ sock[z].sent \in 0 .. MaxUnits
      /\ sock[p].read \in Nat /\ sock[z].read \in Nat
  BY <1>1, SocketTypes, ConnTypes
<1>3. pconn["server"][c].start /\ p = Last(bound[c]) /\ z = Newcomer(c)
  BY DEF Course
<1>4. PICK d \in Nat : CarriesFrom(d, sock[z].got, stream["client"][c], p, sock[p].read)
  BY <1>3 DEF CarriedOut
<1>5. CarriesOn(sock[p].got, stream["server"][c], z, sock[z].read)
  BY <1>3 DEF Undisturbed, Carried
<1>6. sock[p].read <= sock[p].sent /\ sock[z].read <= sock[z].sent
  BY <1>1 DEF Ground, ReadSent
<1>7. /\ d + Len(sock[z].got) + Len(stream["client"][c]) = sock[p].read
      /\ Len(sock[p].got) + Len(stream["server"][c]) = sock[z].read
  BY <1>4, <1>5 DEF CarriesFrom, CarriesOn
<1>8. /\ Len(sock[z].got) \in Nat /\ Len(stream["client"][c]) \in Nat
      /\ Len(sock[p].got) \in Nat /\ Len(stream["server"][c]) \in Nat
  <2>1. \A q \in Seq(Elem) : Len(q) \in Nat
    OBVIOUS
  <2> QED BY <1>2, <2>1
<1>9. sock[p].sent <= MaxUnits /\ sock[z].sent <= MaxUnits
  <2>1. \A n \in 0 .. MaxUnits : n <= MaxUnits
    BY ConstantsAssumption
  <2> QED BY <1>2, <2>1
<1>10. \A x, y \in Nat : d + x + y = sock[p].read => x + y <= sock[p].read
  BY <1>2
<1>11. Len(sock[z].got) + Len(stream["client"][c]) <= sock[p].read
  BY <1>7, <1>8, <1>10
<1>12. Len(sock[p].got) + Len(stream["server"][c]) <= sock[z].read
  <2>1. \A x, y, n \in Nat : x + y = n => x + y <= n
    OBVIOUS
  <2> QED BY <1>2, <1>7, <1>8, <2>1
<1> QED BY <1>6, <1>9, <1>11, <1>12

-----------------------------------------------------------------------------
(* handleRead's splice *)

LEMMA SpliceEffect ==
    ASSUME TypeOK, NEW s \in Side, NEW c \in Proxy, SplicePayload(s, c),
           NEW f \in Endpoint, pconn[s][c].peer = f
    PROVE  /\ job[s][c] = Idle /\ job'[s][c] = Doing("compare", c)
           /\ \A u \in Side, t \in Thread : u # s \/ t # c => job'[u][t] = job[u][t]
           /\ \E k \in 1 .. Len(stream[s][c]) :
                /\ stream'[s][c] = Unread(stream[s][c], k)
                /\ sock'[f].got = sock[f].got \o SubSeq(stream[s][c], 1, k)
                /\ pconn'[s][c] = AddRecvCount(pconn[s][c], k)
           /\ pconn'[Other(s)][c] = pconn[Other(s)][c]
           /\ sock'[f].eof = sock[f].eof /\ sock'[f].read = sock[f].read
           /\ sock'[f].sent = sock[f].sent /\ sock'[f].fin = sock[f].fin
           /\ \A e \in Endpoint : e # f => sock'[e] = sock[e]
           /\ ctl' = ctl /\ relay' = relay /\ bound' = bound /\ ran' = ran
<1> USE SideType, Sides, Threads
<1>1. PICK k \in 1 .. Len(stream[s][c]) :
        /\ stream' = [stream EXCEPT ![s][c] = Unread(@, k)]
        /\ sock' = [sock EXCEPT ![f] = [sock[f] EXCEPT !.got =
                                          sock[f].got \o SubSeq(stream[s][c], 1, k)]]
        /\ SetConn(s, c, AddRecvCount(pconn[s][c], k))
  BY DEF SplicePayload
<1>2. sock[f] \in Socket
  BY DEF TypeOK
<1>3. /\ sock'[f] = [sock[f] EXCEPT !.got = sock[f].got \o SubSeq(stream[s][c], 1, k)]
      /\ \A e \in Endpoint : e # f => sock'[e] = sock[e]
  BY <1>1 DEF TypeOK
<1>4. stream'[s][c] = Unread(stream[s][c], k)
  BY <1>1 DEF TypeOK
<1>5. pconn'[s][c] = AddRecvCount(pconn[s][c], k) /\ pconn'[Other(s)][c] = pconn[Other(s)][c]
  <2>1. Other(s) # s
    BY DEF Other
  <2> QED BY <1>1, <2>1, ConnAt
<1>6. /\ sock'[f].got = sock[f].got \o SubSeq(stream[s][c], 1, k)
      /\ sock'[f].eof = sock[f].eof /\ sock'[f].read = sock[f].read
      /\ sock'[f].sent = sock[f].sent /\ sock'[f].fin = sock[f].fin
  BY <1>2, <1>3 DEF Socket
<1>7. /\ job[s][c] = Idle /\ SetJob(s, c, Doing("compare", c))
      /\ ctl' = ctl /\ relay' = relay /\ bound' = bound /\ ran' = ran
  BY DEF SplicePayload, Readable
<1>8. /\ job'[s][c] = Doing("compare", c)
      /\ \A u \in Side, t \in Thread : u # s \/ t # c => job'[u][t] = job[u][t]
  BY <1>7, JobAt
<1>9. \E i \in 1 .. Len(stream[s][c]) :
        /\ stream'[s][c] = Unread(stream[s][c], i)
        /\ sock'[f].got = sock[f].got \o SubSeq(stream[s][c], 1, i)
        /\ pconn'[s][c] = AddRecvCount(pconn[s][c], i)
  BY <1>4, <1>5, <1>6
<1> QED BY <1>3, <1>5, <1>6, <1>7, <1>8, <1>9

LEMMA SpliceMoves ==
    ASSUME TypeOK, NEW s \in Side, NEW c \in Proxy, SplicePayload(s, c),
           NEW f \in Endpoint, pconn[s][c].peer = f
    PROVE  \E k \in 1 .. Len(stream[s][c]) :
             /\ stream'[s][c] = Unread(stream[s][c], k)
             /\ sock'[f].got = sock[f].got \o SubSeq(stream[s][c], 1, k)
             /\ pconn'[s][c] = AddRecvCount(pconn[s][c], k)
BY SpliceEffect

LEMMA SpliceDirection ==
    ASSUME TypeOK, ShortSessions, NEW s \in Side, NEW c \in Proxy, SplicePayload(s, c),
           NEW e \in Endpoint, NEW f \in Endpoint, e # f, pconn[s][c].peer = f,
           NEW st \in Stage, Direction(s, c, e, f, st),
           Len(sock[f].got) + Len(stream[s][c]) <= sock[e].read,
           sock[e].read <= sock[e].sent
    PROVE  Direction(s, c, e, f, st)'
<1>1. Announced(s, c, e, st) /\ Compared(s, c, e, f, st)
  BY DEF Direction
<1>2. PICK k \in 1 .. Len(stream[s][c]) :
        /\ stream'[s][c] = Unread(stream[s][c], k)
        /\ sock'[f].got = sock[f].got \o SubSeq(stream[s][c], 1, k)
        /\ pconn'[s][c] = AddRecvCount(pconn[s][c], k)
  BY SpliceMoves
<1> USE SideType, Sides, Threads
<1>3. /\ job[s][c] = Idle /\ job'[s][c] = Doing("compare", c)
      /\ \A u \in Side, t \in Thread : u # s \/ t # c => job'[u][t] = job[u][t]
      /\ sock'[f].eof = sock[f].eof /\ sock'[e] = sock[e]
      /\ ctl' = ctl /\ relay' = relay
  BY SpliceEffect
<1>4. /\ sock[f].got \in Seq(Elem) /\ stream[s][c] \in Seq(Elem)
      /\ sock[e].read \in 0 .. MaxUnits /\ sock[e].sent \in 0 .. MaxUnits
      /\ pconn[s][c] \in ProxyConnect
  BY SocketTypes, ConnTypes
<1>5. Len(sock'[f].got) = Len(sock[f].got) + k
  BY <1>2, <1>4
<1>6. /\ Len(sock[f].got) \in Nat /\ k \in Nat /\ k >= 1
      /\ Len(sock[f].got) + k <= sock[e].sent /\ Len(sock[f].got) + k \in 0 .. MaxUnits
  <2> DEFINE g == Len(sock[f].got)
             q == Len(stream[s][c])
  <2>1. g \in Nat /\ q \in Nat
    BY <1>4
  <2>2. k \in 1 .. q /\ g + q <= sock[e].read
    OBVIOUS
  <2>3. sock[e].read \in Nat /\ sock[e].sent \in 0 .. MaxUnits
    BY <1>4, ConstantsAssumption
  <2> HIDE DEF g, q
  <2>5. \A r \in Nat, n \in 0 .. MaxUnits : r <= n /\ g + q <= r =>
           k \in Nat /\ k >= 1 /\ g + k <= n /\ g + k \in 0 .. MaxUnits
    BY <2>1, <2>2, ConstantsAssumption
  <2>4. g \in Nat /\ k \in Nat /\ k >= 1 /\ g + k <= sock[e].sent /\ g + k \in 0 .. MaxUnits
    BY <2>1, <2>2, <2>3, <2>5
  <2> QED BY <2>4 DEF g
<1>7. st # "done"
  BY <1>1, <1>6 DEF Compared
<1>8. pconn[s][c].recv = Len(sock[f].got) /\ ~sock[f].eof
  BY <1>1, <1>7 DEF Compared
<1>9. /\ pconn'[s][c].recv = Len(sock[f].got) + k
      /\ pconn'[s][c].total = pconn[s][c].total
  <2>1. /\ AddRecvCount(pconn[s][c], k).recv = (pconn[s][c].recv + k) % CountMod
        /\ AddRecvCount(pconn[s][c], k).total = pconn[s][c].total
    BY <1>4 DEF AddRecvCount, ProxyConnect
  <2> QED BY <1>2, <1>6, <1>8, <2>1, SmallCounts
<1>10. Announced(s, c, e, st)'
  <2>1. Other(s) # s
    BY DEF Other
  <2>2. job'[Other(s)][c] = job[Other(s)][c]
    BY <1>3, <2>1
  <2>3. Coming(s, c)' <=> Coming(s, c)
    BY <1>3, <2>2 DEF Coming, Reports
  <2> QED BY <1>1, <1>3, <2>2, <2>3 DEF Announced, Reports, Ended
<1>11. \A t \in Thread : ~At(s, t, c, "shut")'
  <2>1. \A t \in Thread : ~At(s, t, c, "shut")
    <3>1. CASE st = "told"
      BY <1>1, <1>6, <1>8, <3>1 DEF Compared
    <3>2. CASE st \in {"unsent", "coming"}
      BY <1>1, <3>2 DEF Compared
    <3> QED BY <1>7, <3>1, <3>2 DEF Stage
  <2> QED BY <1>3, <2>1, JobFields DEF At
<1>12. pconn'[s][c].recv # 0
  BY <1>6, <1>9
<1>13. Compared(s, c, e, f, st)'
  BY <1>1, <1>3, <1>5, <1>7, <1>8, <1>9, <1>11, <1>12 DEF Compared, Untold
<1> QED BY <1>10, <1>13 DEF Direction

LEMMA SpliceOther ==
    ASSUME TypeOK, Next, NEW s \in Side, NEW c \in Proxy, SplicePayload(s, c),
           NEW e \in Endpoint, NEW f \in Endpoint, e # f, pconn[s][c].peer = f
    PROVE  Frame(Other(s), c, f, e)
<1> USE SideType, Sides, Threads
<1>1. /\ job[s][c] = Idle /\ job'[s][c] = Doing("compare", c)
      /\ \A u \in Side, t \in Thread : u # s \/ t # c => job'[u][t] = job[u][t]
      /\ sock'[e] = sock[e] /\ ctl' = ctl /\ relay' = relay
  BY SpliceEffect
<1>2. Other(s) # s /\ Other(Other(s)) = s
  BY DEF Other
<1>3. ~Reports(s, c) /\ ~Reports(s, c)'
  BY <1>1, JobFields DEF Reports
<1>4. \A t \in Thread : \A pc : At(Other(s), t, c, pc)' <=> At(Other(s), t, c, pc)
  BY <1>1, <1>2 DEF At
<1>5. SameCloses(ctl[Other(s)], ctl'[Other(s)], c)
  BY <1>1 DEF SameCloses
<1> QED BY <1>1, <1>2, <1>3, <1>4, <1>5, EndSteps DEF Frame

LEMMA CourseSplice ==
    ASSUME Ground, ShortSessions, Next, NEW c \in Proxy, Steady(c),
           NEW s \in Side, SplicePayload(s, c),
           NEW p \in Public, NEW z \in Local, NEW a \in Stage, NEW b \in Stage,
           Course(c, p, z, a, b)
    PROVE  Course(c, p, z, a, b)'
<1> USE SideType, Sides, Threads, GroundFacts
<1>1. /\ EndOf(c, p) /\ EndOf(c, z) /\ p \in Endpoint /\ z \in Endpoint /\ p # z
  BY CourseEnds DEF Steady
<1>2. /\ Direction("client", c, p, z, a) /\ Direction("server", c, z, p, b)
      /\ p = Last(bound[c]) /\ z = Newcomer(c)
  BY DEF Course
<1>3. pconn[s][c].start
  BY DEF SplicePayload
<1>4. pconn[s][c].peer = IF s = "server" THEN p ELSE z
  <2>1. s = "server" => pconn[s][c].peer = p
    BY <1>2, <1>3 DEF OwnPeers
  <2>2. s = "client" => pconn[s][c].peer = z
    BY <1>2, <1>3 DEF Steady, LocalEnds
  <2> QED BY <2>1, <2>2
<1>5. /\ Len(sock[z].got) + Len(stream["client"][c]) <= sock[p].read
      /\ Len(sock[p].got) + Len(stream["server"][c]) <= sock[z].read
      /\ sock[p].read <= sock[p].sent /\ sock[z].read <= sock[z].sent
  BY Room DEF Steady
<1>6. Direction("client", c, p, z, a)'
  <2>1. CASE s = "client"
    BY <1>1, <1>2, <1>4, <1>5, <2>1, SpliceDirection
  <2>2. CASE s = "server"
    <3>1. Frame("client", c, p, z)
      BY <1>1, <1>4, <2>2, SpliceOther
    <3>2. pconn'["client"][c] = pconn["client"][c]
      BY <1>1, <1>4, <2>2, SpliceEffect
    <3> QED BY <1>2, <3>1, <3>2, DirectionFrame
  <2> QED BY <2>1, <2>2
<1>7. Direction("server", c, z, p, b)'
  <2>1. CASE s = "server"
    BY <1>1, <1>2, <1>4, <1>5, <2>1, SpliceDirection
  <2>2. CASE s = "client"
    <3>1. Frame("server", c, z, p)
      BY <1>1, <1>4, <2>2, SpliceOther
    <3>2. pconn'["server"][c] = pconn["server"][c]
      BY <1>1, <1>4, <2>2, SpliceEffect
    <3> QED BY <1>2, <3>1, <3>2, DirectionFrame
  <2> QED BY <2>1, <2>2
<1>8. \A u \in Side : pconn'[u][c].start = pconn[u][c].start /\ pconn'[u][c].half = pconn[u][c].half
  <2>1. pconn[s][c] \in ProxyConnect
    BY DEF TypeOK
  <2>2. /\ \E k : pconn'[s][c] = AddRecvCount(pconn[s][c], k)
        /\ pconn'[Other(s)][c] = pconn[Other(s)][c]
    BY <1>1, <1>4, SpliceEffect
  <2>3. /\ pconn'[s][c].start = pconn[s][c].start
        /\ pconn'[s][c].half = pconn[s][c].half
    BY <2>1, <2>2 DEF AddRecvCount, ProxyConnect
  <2>4. \A u \in Side : u = s \/ u = Other(s)
    BY DEF Other
  <2> QED BY <2>2, <2>3, <2>4
<1>9. /\ job[s][c] = Idle /\ job'[s][c] = Doing("compare", c)
      /\ \A u \in Side, t \in Thread : u # s \/ t # c => job'[u][t] = job[u][t]
      /\ bound' = bound /\ ran' = ran
  BY <1>1, <1>4, SpliceEffect
<1>10. InUse(c)' <=> InUse(c)
  <2>1. \A t \in Thread : At("client", t, c, "run")' <=> At("client", t, c, "run")
    BY <1>9, JobFields DEF At
  <2> QED BY <1>8, <2>1 DEF InUse, OpenFor
<1>11. b # "unsent" => pconn'["client"][c].recv = 0 /\ Untold(pconn'["client"][c])
  <2>1. CASE s = "client"
    BY <1>3, <2>1 DEF Course, InUse
  <2>2. CASE s = "server"
    <3>2. pconn'["client"][c] = pconn["client"][c]
      BY <1>1, <1>4, <2>2, SpliceEffect
    <3> QED BY <3>2 DEF Course
  <2> QED BY <2>1, <2>2
<1>12. p = Last(bound'[c]) /\ z = Newcomer(c)'
  BY <1>2, <1>9 DEF Newcomer
<1> QED BY <1>6, <1>7, <1>8, <1>10, <1>11, <1>12 DEF Course

\* Nothing to splice between two sessions.
LEMMA RestStreams ==
    ASSUME Ground, NEW c \in Proxy, Undisturbed(c), Rest(c), InUse(c)
    PROVE  stream["client"][c] = <<>>
<1> USE SideType
<1>1. stream["client"][c] \in Seq(Elem)
  BY DEF Ground, FdInv, TypeOK
<1>2. ~Requests(c)
  BY DEF Rest, Undisturbed, Counts
<1>3. \A i \in 1 .. Len(stream["client"][c]) : stream["client"][c][i] \in Elem
  BY <1>1
<1>4. Len(stream["client"][c]) = 0
  BY <1>1, <1>2, <1>3 DEF Rest, Requests, Has
<1> QED BY <1>1, <1>4

LEMMA RestNoSplice ==
    ASSUME Ground, NEW c \in Proxy, Undisturbed(c), Rest(c), NEW s \in Side
    PROVE  ~SplicePayload(s, c)
<1> SUFFICES ASSUME SplicePayload(s, c) PROVE FALSE
  OBVIOUS
<1>1. pconn[s][c].start /\ stream[s][c] # <<>>
  BY DEF SplicePayload, Readable
<1>2. s = "client"
  BY <1>1, Sides DEF Rest
<1> QED BY <1>1, <1>2, RestStreams DEF InUse

-----------------------------------------------------------------------------
(* RelayEof *)

\* RelayEof up to the announcement.
LEMMA EofEffect ==
    ASSUME TypeOK, NEW s \in Side, NEW c \in Proxy, NEW e \in Endpoint, RelayEof(e),
           relay[e].conn = c, SideOf(e) = s, s = "server" => c \in proxyMap
    PROVE  /\ job[s][c] = Idle /\ job'[s][c] = Fins(c, e)
           /\ \A u \in Side, t \in Thread : u # s \/ t # c => job'[u][t] = job[u][t]
           /\ pconn'[s][c] = HalfClose(pconn[s][c])
           /\ pconn'[Other(s)][c] = pconn[Other(s)][c]
           /\ ~relay[e].closed /\ Ended(e)
           /\ relay' = relay /\ sock' = sock /\ ctl' = ctl /\ stream' = stream
           /\ bound' = bound /\ ran' = ran
<1> USE SideType, Sides, Threads
<1>1. /\ job[s][c] = Idle /\ ~relay[e].closed /\ Ended(e)
      /\ relay' = relay /\ sock' = sock /\ ctl' = ctl /\ stream' = stream
      /\ bound' = bound /\ ran' = ran
      /\ SetJob(s, c, Fins(c, e)) /\ SetConn(s, c, HalfClose(pconn[s][c]))
  BY DEF RelayEof, RelayReadable, Ended, Fins, ShutdownFromLocal
<1>2. Other(s) # s /\ Other(s) \in Side
  BY DEF Other
<1>3. pconn'[s][c] = HalfClose(pconn[s][c]) /\ pconn'[Other(s)][c] = pconn[Other(s)][c]
  BY <1>1, <1>2, ConnAt
<1>4. /\ job'[s][c] = Fins(c, e)
      /\ \A u \in Side, t \in Thread : u # s \/ t # c => job'[u][t] = job[u][t]
  BY <1>1, JobAt
<1> QED BY <1>1, <1>3, <1>4

\* The end is about to be announced ...
LEMMA EofDirection ==
    ASSUME TypeOK, NEW s \in Side, NEW c \in Proxy, NEW e \in Endpoint, NEW f \in Endpoint,
           RelayEof(e), relay[e].conn = c, SideOf(e) = Other(s),
           Other(s) = "server" => c \in proxyMap,
           Direction(s, c, e, f, "unsent")
    PROVE  Direction(s, c, e, f, "coming")'
<1>1. Other(s) \in Side /\ Other(Other(s)) = s /\ Other(s) # s
  BY SideType, Sides DEF Other
<1>2. /\ job'[Other(s)][c] = Fins(c, e)
      /\ \A u \in Side, t \in Thread : u # Other(s) \/ t # c => job'[u][t] = job[u][t]
      /\ pconn'[s][c] = pconn[s][c] /\ Ended(e)
      /\ relay' = relay /\ sock' = sock /\ ctl' = ctl
  BY <1>1, EofEffect
<1>3. Reports(Other(s), c)' /\ job'[Other(s)][c].end = e
  BY <1>2, JobFields DEF Reports
<1>4. Ended(e)'
  BY <1>2 DEF Ended
<1>5. Announced(s, c, e, "coming")'
  BY <1>2, <1>3, <1>4 DEF Direction, Announced, Coming
<1>6. \A t \in Thread : \A pc : At(s, t, c, pc)' <=> At(s, t, c, pc)
  BY <1>1, <1>2 DEF At
<1>7. Compared(s, c, e, f, "coming")'
  BY <1>2, <1>6 DEF Direction, Compared, Untold
<1> QED BY <1>5, <1>7 DEF Direction

\* ... and the other direction is as it was.
LEMMA EofOther ==
    ASSUME TypeOK, Next, NEW s \in Side, NEW c \in Proxy, NEW e \in Endpoint,
           NEW f \in Endpoint, RelayEof(e), relay[e].conn = c, SideOf(e) = s,
           s = "server" => c \in proxyMap
    PROVE  Frame(s, c, f, e)
<1>1. Other(s) \in Side /\ Other(Other(s)) = s /\ Other(s) # s /\ c \in Thread
  BY SideType, Sides, Threads DEF Other
<1>2. /\ job'[s][c] = Fins(c, e) /\ job[s][c] = Idle
      /\ \A u \in Side, t \in Thread : u # s \/ t # c => job'[u][t] = job[u][t]
      /\ relay' = relay /\ sock' = sock /\ ctl' = ctl
  BY EofEffect
<1>3. \A t \in Thread : \A pc \in {"shut", "compare"} : At(s, t, c, pc)' => At(s, t, c, pc)
  BY <1>2, JobFields DEF At
<1>4. job'[Other(s)][c] = job[Other(s)][c]
  BY <1>1, <1>2
<1>5. SameCloses(ctl[s], ctl'[s], c)
  BY <1>2 DEF SameCloses
<1> QED BY <1>2, <1>3, <1>4, <1>5, EndSteps DEF Frame, Reports

\* The relay objects that still read, and the stage their end is at.
LEMMA ReadingRelay ==
    ASSUME Ground, NEW c \in Proxy, Steady(c), NEW e \in Endpoint, relay[e].conn = c,
           ~relay[e].closed, job[SideOf(e)][c] = Idle
    PROVE  /\ SideOf(e) = "server" => /\ e \in Public /\ pconn["server"][c].start
                                      /\ e = Last(bound[c]) /\ c \in proxyMap
           /\ SideOf(e) = "client" => /\ e \in Local /\ pconn["client"][c].start
                                      /\ e = Newcomer(c) /\ InUse(c)
<1> USE SideType, Sides, Threads
<1>1. TypeOK /\ OwnRelays
  BY GroundFacts
<1>2. ~Reports(SideOf(e), c)
  BY JobFields DEF Reports
<1>3. ASSUME SideOf(e) = "server" PROVE /\ e \in Public /\ pconn["server"][c].start
                                        /\ e = Last(bound[c]) /\ c \in proxyMap
  <2>1. e \in Public /\ e \notin Local
    BY <1>3
  <2>2. e # Newcomer(c) \/ (~pconn["client"][c].start /\ ~Reports("client", c))
    <3>1. ASSUME e = Newcomer(c), pconn["client"][c].start \/ Reports("client", c)
          PROVE  FALSE
      <4>1. ran[c] \in 1 .. MaxSession
        <5>1. ran[c] \in 0 .. MaxSession
          BY <1>1 DEF TypeOK
        <5>2. life[c] # "absent"
          BY <3>1, JobFields DEF Ground, Fresh, Unmade, Reports, TypeOK
        <5> QED BY <5>1, <5>2, ConstantsAssumption DEF Ground, Fresh
      <4> QED BY <2>1, <3>1, <4>1 DEF Newcomer
    <3> QED BY <3>1
  <2>3. pconn["server"][c].start /\ e = Last(bound[c])
    BY <2>1, <2>2 DEF Steady, Relays
  <2> QED BY <2>1, <2>3 DEF Steady, Undisturbed, Flow
<1>4. ASSUME SideOf(e) = "client" PROVE /\ e \in Local /\ pconn["client"][c].start
                                        /\ e = Newcomer(c) /\ InUse(c)
  <2>1. e \in Local /\ e \notin Public
    BY <1>4
  <2> QED BY <1>2, <1>4, <2>1 DEF Steady, Relays, InUse
<1> QED BY <1>3, <1>4

LEMMA CourseEof ==
    ASSUME Ground, Next, NEW c \in Proxy, Steady(c),
           NEW e \in Endpoint, RelayEof(e), relay[e].conn = c,
           NEW p \in Public, NEW z \in Local, NEW a \in Stage, NEW b \in Stage,
           Course(c, p, z, a, b)
    PROVE  InSession(c)'
<1> USE SideType, Sides, Threads
<1>0. TypeOK /\ ~relay[e].closed /\ job[SideOf(e)][c] = Idle /\ sock[e].fin
  BY GroundFacts DEF RelayEof, RelayReadable
<1>1. /\ EndOf(c, p) /\ EndOf(c, z) /\ p \in Endpoint /\ z \in Endpoint /\ c \in proxyMap
  BY CourseEnds DEF Steady
<1>2. /\ Direction("client", c, p, z, a) /\ Direction("server", c, z, p, b)
      /\ p = Last(bound[c]) /\ z = Newcomer(c)
  BY DEF Course
<1>3. ~Reports(SideOf(e), c)
  BY <1>0, JobFields DEF Reports
<1>31. \A u \in Side : pconn[u][c] \in ProxyConnect
  BY <1>0 DEF TypeOK
<1>4. CASE SideOf(e) = "server"
  <2>1. e = p
    BY <1>0, <1>2, <1>4, ReadingRelay
  <2>2. a = "unsent" /\ b = "unsent"
    BY <1>0, <1>2, <1>3, <1>4, <2>1 DEF Direction, Announced, Course, InOrder
  <2>3. ~pconn["server"][c].half
    BY <2>2 DEF Course
  <2>4. /\ pconn'["server"][c] = HalfClose(pconn["server"][c])
        /\ pconn'["client"][c] = pconn["client"][c]
        /\ job'["server"][c] = Fins(c, e)
        /\ \A t \in Thread : job'["client"][t] = job["client"][t]
        /\ bound' = bound /\ ran' = ran
    BY <1>0, <1>1, <1>4, EofEffect
  <2>5. /\ pconn'["server"][c].half
        /\ pconn'["server"][c].start = pconn["server"][c].start
        /\ pconn'["server"][c].recv = pconn["server"][c].recv
        /\ pconn'["server"][c].total = pconn["server"][c].total
    BY <1>31, <2>3, <2>4 DEF HalfClose, ProxyConnect
  <2>6. Direction("client", c, p, z, "coming")'
    BY <1>0, <1>1, <1>2, <1>4, <2>1, <2>2, EofDirection
  <2>7. Frame("server", c, z, p)
    BY <1>0, <1>1, <1>4, <2>1, EofOther
  <2>8. Direction("server", c, z, p, "unsent")'
    BY <1>2, <2>2, <2>5, <2>7, DirectionFrame
  <2>9. InUse(c)' <=> InUse(c)
    BY <2>4 DEF InUse, OpenFor, At
  <2>10. Course(c, p, z, "coming", "unsent")'
    BY <1>2, <2>2, <2>4, <2>5, <2>6, <2>8, <2>9 DEF Course, InOrder, Newcomer
  <2> QED BY <2>10 DEF InSession, Stage
<1>5. CASE SideOf(e) = "client"
  <2>1. e = z /\ pconn["client"][c].start
    BY <1>0, <1>2, <1>5, ReadingRelay
  <2>2. sock[z].eof
    <3>1. ran[c] \in 1 .. MaxSession /\ z = <<c, ran[c]>>
      BY CourseEnds DEF Steady
    <3> QED BY <1>0, <2>1, <3>1 DEF Steady, LocalEnds
  <2>3. a = "done" /\ b = "unsent"
    <3>1. a = "done"
      BY <1>2, <2>2 DEF Direction, Compared
    <3>2. b = "unsent"
      BY <1>0, <1>2, <1>3, <1>5, <2>1 DEF Direction, Announced
    <3> QED BY <3>1, <3>2
  <2>4. pconn["client"][c].half
    BY <2>3 DEF Course
  <2>5. /\ pconn'["client"][c] = ResetConn
        /\ pconn'["server"][c] = pconn["server"][c]
        /\ job'["client"][c] = Fins(c, e)
        /\ \A t \in Thread : t # c => job'["client"][t] = job["client"][t]
        /\ bound' = bound /\ ran' = ran
    <3>1. /\ pconn'["client"][c] = HalfClose(pconn["client"][c])
          /\ pconn'["server"][c] = pconn["server"][c]
          /\ job'["client"][c] = Fins(c, e)
          /\ \A u \in Side, t \in Thread : u # "client" \/ t # c => job'[u][t] = job[u][t]
          /\ bound' = bound /\ ran' = ran
      BY <1>0, <1>1, <1>5, EofEffect
    <3>2. HalfClose(pconn["client"][c]) = ResetConn
      BY <2>4 DEF HalfClose
    <3> QED BY <3>1, <3>2
  <2>6. Direction("server", c, z, p, "coming")'
    BY <1>0, <1>1, <1>2, <1>5, <2>1, <2>3, EofDirection
  <2>7. Frame("client", c, p, z)
    BY <1>0, <1>1, <1>5, <2>1, EofOther
  <2>8. Direction("client", c, p, z, "done")'
    BY <1>2, <2>3, <2>7, DirectionFrame
  <2>9. ~InUse(c)'
    <3>1. ~OpenFor(c)
      BY <2>1 DEF Steady, Opened
    <3>2. ~OpenFor(c)'
      BY <2>5, <3>1, JobFields DEF OpenFor, At
    <3> QED BY <2>5, <3>2 DEF InUse, ResetConn
  <2>10. /\ ~pconn'["client"][c].half /\ pconn'["client"][c].recv = 0
         /\ Untold(pconn'["client"][c])
    BY <2>5 DEF ResetConn, Untold
  <2>11. /\ pconn["server"][c].start /\ (pconn["server"][c].half <=> a # "unsent")
    BY DEF Course
  <2>12. Course(c, p, z, "done", "coming")'
    BY <1>2, <2>3, <2>5, <2>6, <2>8, <2>9, <2>10, <2>11 DEF Course, InOrder, Newcomer
  <2> QED BY <2>12 DEF InSession, Stage
<1> QED BY <1>4, <1>5

\* Between two sessions no end is announced.
LEMMA RestNoEof ==
    ASSUME Ground, NEW c \in Proxy, Steady(c), Rest(c), NEW e \in Endpoint,
           relay[e].conn = c
    PROVE  ~RelayEof(e)
<1> USE SideType, Sides, Threads
<1> SUFFICES ASSUME RelayEof(e) PROVE FALSE
  OBVIOUS
<1>1. ~relay[e].closed /\ job[SideOf(e)][c] = Idle /\ sock[e].fin
  BY DEF RelayEof, RelayReadable
<1>2. SideOf(e) = "client" /\ e = Newcomer(c) /\ InUse(c)
  BY <1>1, ReadingRelay DEF Rest
<1>3. sock[e].eof
  BY <1>1, <1>2, InUseRan DEF Steady, LocalEnds, Newcomer
<1> QED BY <1>2, <1>3 DEF Rest

-----------------------------------------------------------------------------
\* A direction that is not announced yet needs less to be left alone.
LEMMA UnsentKept ==
    ASSUME NEW s, NEW c, NEW e, NEW f, Direction(s, c, e, f, "unsent"),
           Reports(Other(s), c)' <=> Reports(Other(s), c),
           SameCloses(ctl[s], ctl'[s], c),
           \A t \in Thread : /\ At(s, t, c, "shut")' => At(s, t, c, "shut")
                             /\ At(s, t, c, "compare")' => At(s, t, c, "compare"),
           sock'[f].got = sock[f].got, sock'[f].eof = sock[f].eof,
           pconn'[s][c].recv = pconn[s][c].recv, pconn'[s][c].total = pconn[s][c].total
    PROVE  Direction(s, c, e, f, "unsent")'
<1>1. ~Reports(Other(s), c) /\ ~Has(ctl[s], Closes(c)) /\ Once(ctl[s], Closes(c))
  BY DEF Direction, Announced, Coming
<1>2. ~Reports(Other(s), c)' /\ ~Has(ctl'[s], Closes(c)) /\ Once(ctl'[s], Closes(c))
  BY <1>1 DEF SameCloses
<1>3. Announced(s, c, e, "unsent")'
  BY <1>2 DEF Announced, Coming, Has
<1>4. Compared(s, c, e, f, "unsent")'
  BY DEF Direction, Compared, Untold
<1> QED BY <1>3, <1>4 DEF Direction

-----------------------------------------------------------------------------
(* SendShutdown *)

LEMMA SendEffect ==
    ASSUME TypeOK, NEW s \in Side, NEW c \in Proxy, SendShutdown(s, c),
           NEW e \in Endpoint, job[s][c].end = e
    PROVE  /\ job[s][c].pc = "fin" /\ job'[s][c] = Idle
           /\ \A u \in Side, t \in Thread : u # s \/ t # c => job'[u][t] = job[u][t]
           /\ ctl'[Other(s)] = Append(ctl[Other(s)], ShutdownPeerConn(c, relay[e].tran))
           /\ ctl'[s] = ctl[s]
           /\ relay'[e].closed /\ relay'[e].conn = relay[e].conn
           /\ relay'[e].tran = relay[e].tran
           /\ \A f \in Endpoint : f # e => relay'[f] = relay[f]
           /\ pconn' = pconn /\ sock' = sock /\ stream' = stream
           /\ bound' = bound /\ ran' = ran
<1> USE SideType, Sides, Threads
<1>1. /\ job[s][c].pc = "fin" /\ SetJob(s, c, Idle)
      /\ SendCtl(Other(s), ShutdownPeerConn(c, relay[e].tran))
      /\ relay' = [relay EXCEPT ![e] = [relay[e] EXCEPT !.closed = TRUE]]
      /\ pconn' = pconn /\ sock' = sock /\ stream' = stream
      /\ bound' = bound /\ ran' = ran
  BY DEF SendShutdown
<1>2. Other(s) # s /\ Other(s) \in Side
  BY DEF Other
<1>3. relay[e] \in Relay
  BY DEF TypeOK
<1>4. /\ relay'[e] = [relay[e] EXCEPT !.closed = TRUE]
      /\ \A f \in Endpoint : f # e => relay'[f] = relay[f]
  BY <1>1 DEF TypeOK
<1>5. /\ relay'[e].closed /\ relay'[e].conn = relay[e].conn
      /\ relay'[e].tran = relay[e].tran
  BY <1>3, <1>4 DEF Relay
<1>6. /\ job'[s][c] = Idle
      /\ \A u \in Side, t \in Thread : u # s \/ t # c => job'[u][t] = job[u][t]
  BY <1>1, JobAt
<1>7. /\ ctl'[Other(s)] = Append(ctl[Other(s)], ShutdownPeerConn(c, relay[e].tran))
      /\ ctl'[s] = ctl[s]
  BY <1>1, <1>2, SendCtlAt
<1> QED BY <1>1, <1>4, <1>5, <1>6, <1>7

\* One announcement behind others.
LEMMA OneMore ==
    ASSUME NEW q \in Seq(CtlMsg), NEW c \in Proxy, NEW n \in Count, ~Has(q, Closes(c))
    PROVE  LET r == Append(q, ShutdownPeerConn(c, n))
           IN  /\ Has(r, Closes(c)) /\ Once(r, Closes(c))
               /\ \A i \in 1 .. Len(r) : r[i] \in Closes(c) => r[i].count = n
<1> DEFINE m == ShutdownPeerConn(c, n)
           r == Append(q, m)
<1>1. m \in CtlMsg /\ m \in Closes(c) /\ m.count = n
  BY CtlMsgType DEF Closes, ShutdownPeerConn
<1> HIDE DEF m
<1>2. /\ Len(r) = Len(q) + 1 /\ r[Len(r)] = m /\ Len(r) \in 1 .. Len(r)
      /\ \A i \in 1 .. Len(r) : i = Len(r) \/ (i \in 1 .. Len(q) /\ r[i] = q[i])
  BY <1>1
<1>3. Once(r, Closes(c))
  BY <1>1, OnceAppend
<1>4. Has(r, Closes(c))
  BY <1>1, <1>2 DEF Has
<1>5. \A i \in 1 .. Len(r) : r[i] \in Closes(c) => r[i].count = n
  BY <1>1, <1>2 DEF Has
<1> QED BY <1>3, <1>4, <1>5 DEF m

LEMMA SendDirection ==
    ASSUME TypeOK, NEW s \in Side, NEW c \in Proxy, NEW e \in Endpoint, NEW f \in Endpoint,
           SendShutdown(Other(s), c), NEW st \in Stage, Direction(s, c, e, f, st),
           relay[e].conn = c => relay[e].tran = sock[e].read
    PROVE  Direction(s, c, e, f, st)'
<1>1. Other(s) \in Side /\ Other(Other(s)) = s /\ Other(s) # s
  BY SideType, Sides DEF Other
<1>2. Announced(s, c, e, st) /\ Compared(s, c, e, f, st)
  BY DEF Direction
<1>3. Reports(Other(s), c)
  BY DEF SendShutdown, Reports
<1>4. /\ job[Other(s)][c].end = e /\ relay[e].conn = c /\ st = "coming"
      /\ ~Has(ctl[s], Closes(c)) /\ Ended(e)
  BY <1>2, <1>3 DEF Announced, Coming
<1>5. /\ job'[Other(s)][c] = Idle
      /\ \A u \in Side, t \in Thread : u # Other(s) \/ t # c => job'[u][t] = job[u][t]
      /\ ctl'[s] = Append(ctl[s], ShutdownPeerConn(c, relay[e].tran))
      /\ relay'[e].closed /\ pconn' = pconn /\ sock' = sock
  BY <1>1, <1>4, SendEffect
<1>6. relay[e].tran = sock[e].sent
  BY <1>4 DEF Ended
<1>7. ctl[s] \in Seq(CtlMsg) /\ relay[e].tran \in Count
  BY RelayType DEF TypeOK
<1>8. /\ Has(ctl'[s], Closes(c)) /\ Once(ctl'[s], Closes(c))
      /\ \A i \in 1 .. Len(ctl'[s]) : ctl'[s][i] \in Closes(c) => ctl'[s][i].count = sock[e].sent
  BY <1>4, <1>5, <1>6, <1>7, OneMore
<1>9. ~Reports(Other(s), c)'
  BY <1>5, JobFields DEF Reports
<1>10. Ended(e)'
  BY <1>4, <1>5 DEF Ended
<1>11. Announced(s, c, e, st)'
  BY <1>4, <1>5, <1>8, <1>9, <1>10 DEF Announced, Coming
<1>12. \A t \in Thread : \A pc : At(s, t, c, pc)' <=> At(s, t, c, pc)
  BY <1>1, <1>5 DEF At
<1>13. Compared(s, c, e, f, st)'
  BY <1>2, <1>5, <1>12 DEF Compared, Untold
<1> QED BY <1>11, <1>13 DEF Direction

LEMMA SendOther ==
    ASSUME TypeOK, Next, NEW s \in Side, NEW c \in Proxy, SendShutdown(s, c),
           NEW e \in Endpoint, job[s][c].end = e, NEW f \in Endpoint, NEW g \in Endpoint
    PROVE  Frame(s, c, f, g)
<1>1. Other(s) \in Side /\ Other(Other(s)) = s /\ Other(s) # s /\ c \in Thread
  BY SideType, Sides, Threads DEF Other
<1>2. /\ job'[s][c] = Idle
      /\ \A u \in Side, t \in Thread : u # s \/ t # c => job'[u][t] = job[u][t]
      /\ ctl'[s] = ctl[s] /\ sock' = sock
      /\ relay'[e].closed /\ relay'[e].conn = relay[e].conn
      /\ \A x \in Endpoint : x # e => relay'[x] = relay[x]
  BY SendEffect
<1>3. \A t \in Thread : \A pc \in {"shut", "compare"} : At(s, t, c, pc)' => At(s, t, c, pc)
  BY <1>2, JobFields DEF At
<1>4. job'[Other(s)][c] = job[Other(s)][c]
  BY <1>1, <1>2
<1>5. SameCloses(ctl[s], ctl'[s], c)
  BY <1>2 DEF SameCloses
<1>6. relay'[f].conn = relay[f].conn /\ (relay[f].closed => relay'[f].closed)
  BY <1>2
<1> QED BY <1>2, <1>3, <1>4, <1>5, <1>6, EndSteps DEF Frame, Reports

LEMMA CourseSend ==
    ASSUME Ground, Next, NEW c \in Proxy, Steady(c), NEW s \in Side, SendShutdown(s, c),
           NEW p \in Public, NEW z \in Local, NEW a \in Stage, NEW b \in Stage,
           Course(c, p, z, a, b)
    PROVE  Course(c, p, z, a, b)'
<1> USE SideType, Sides, Threads
<1>0. TypeOK
  BY GroundFacts
<1>1. /\ EndOf(c, p) /\ EndOf(c, z) /\ p \in Endpoint /\ z \in Endpoint
      /\ z = <<c, ran[c]>> /\ ran[c] \in 1 .. MaxSession
  BY CourseEnds DEF Steady
<1>2. /\ Direction("client", c, p, z, a) /\ Direction("server", c, z, p, b)
      /\ p = Last(bound[c]) /\ z = Newcomer(c)
  BY DEF Course
<1>3. /\ relay[p].conn = c => relay[p].tran = sock[p].read
      /\ relay[z].conn = c => relay[z].tran = sock[z].read
  BY <1>1 DEF Steady, LocalEnds, Ground, PublicEnds
<1>4. PICK e \in Endpoint : job[s][c].end = e
  <2>1. job[s][c] \in Job
    BY <1>0 DEF TypeOK
  <2>2. job[s][c].end \in Endpoint
    BY <2>1, JobType DEF SendShutdown
  <2> QED BY <2>2
<1>5. /\ job'[s][c] = Idle /\ job[s][c].pc = "fin"
      /\ \A u \in Side, t \in Thread : u # s \/ t # c => job'[u][t] = job[u][t]
      /\ pconn' = pconn /\ bound' = bound /\ ran' = ran
  BY <1>0, <1>4, SendEffect
<1>6. Direction("client", c, p, z, a)'
  <2>1. CASE s = "client"
    <3>1. Frame("client", c, p, z)
      BY <1>0, <1>1, <1>4, <2>1, SendOther
    <3> QED BY <1>2, <1>5, <3>1, DirectionFrame
  <2>2. CASE s = "server"
    BY <1>0, <1>1, <1>2, <1>3, <2>2, SendDirection
  <2> QED BY <2>1, <2>2
<1>7. Direction("server", c, z, p, b)'
  <2>1. CASE s = "server"
    <3>1. Frame("server", c, z, p)
      BY <1>0, <1>1, <1>4, <2>1, SendOther
    <3> QED BY <1>2, <1>5, <3>1, DirectionFrame
  <2>2. CASE s = "client"
    BY <1>0, <1>1, <1>2, <1>3, <2>2, SendDirection
  <2> QED BY <2>1, <2>2
<1>8. InUse(c)' <=> InUse(c)
  <2>1. \A t \in Thread : At("client", t, c, "run")' <=> At("client", t, c, "run")
    BY <1>5, JobFields DEF At
  <2> QED BY <1>5, <2>1 DEF InUse, OpenFor
<1> QED BY <1>2, <1>5, <1>6, <1>7, <1>8 DEF Course, Newcomer, Untold

LEMMA RestNoSend ==
    ASSUME NEW c \in Proxy, Rest(c), NEW s \in Side
    PROVE  ~SendShutdown(s, c)
<1>1. ~Reports(s, c)
  BY SideType, Sides DEF Rest, Coming
<1> QED BY <1>1 DEF SendShutdown, Reports

-----------------------------------------------------------------------------
(* HandleShutdownPeerConn *)

LEMMA ToldEffect ==
    ASSUME TypeOK, NEW s \in Side, NEW c \in Proxy, HandleShutdownPeerConn(s),
           Head(ctl[s]).conn = c, s = "server" => c \in proxyMap
    PROVE  /\ ctl[s] \in Seq(CtlMsg) /\ ctl[s] # <<>> /\ Head(ctl[s]) \in Closes(c)
           /\ ctl'[s] = Tail(ctl[s]) /\ ctl'[Other(s)] = ctl[Other(s)]
           /\ pconn'[s][c] = AddTotalCount(pconn[s][c], Head(ctl[s]).count)
           /\ pconn'[Other(s)][c] = pconn[Other(s)][c]
           /\ job[s][Main] = Idle /\ job'[s][Main] = Doing("compare", c)
           /\ \A u \in Side, t \in Thread : u # s \/ t # Main => job'[u][t] = job[u][t]
           /\ relay' = relay /\ sock' = sock /\ stream' = stream
           /\ bound' = bound /\ ran' = ran
<1> USE SideType, Sides, Threads
<1>1. /\ NextCtl(s, "shutdown") /\ job[s][Main] = Idle
      /\ SetConn(s, c, AddTotalCount(pconn[s][c], Head(ctl[s]).count))
      /\ SetJob(s, Main, Doing("compare", c))
      /\ relay' = relay /\ sock' = sock /\ stream' = stream
      /\ bound' = bound /\ ran' = ran
  BY DEF HandleShutdownPeerConn, NextCtl
<1>2. Other(s) # s /\ Other(s) \in Side
  BY DEF Other
<1>3. /\ ctl[s] \in Seq(CtlMsg) /\ ctl[s] # <<>> /\ Head(ctl[s]) \in CtlMsg
      /\ ctl'[s] = Tail(ctl[s]) /\ ctl'[Other(s)] = ctl[Other(s)]
  BY <1>1, <1>2, NextCtlAt
<1>4. Head(ctl[s]) \in Closes(c)
  BY <1>1, <1>3 DEF NextCtl, Closes
<1>5. /\ pconn'[s][c] = AddTotalCount(pconn[s][c], Head(ctl[s]).count)
      /\ pconn'[Other(s)][c] = pconn[Other(s)][c]
  BY <1>1, <1>2, ConnAt
<1>6. /\ job'[s][Main] = Doing("compare", c)
      /\ \A u \in Side, t \in Thread : u # s \/ t # Main => job'[u][t] = job[u][t]
  BY <1>1, JobAt
<1> QED BY <1>1, <1>3, <1>4, <1>5, <1>6

LEMMA HeadCloses ==
    ASSUME NEW q \in Seq(CtlMsg), q # <<>>, NEW c, Head(q) \in Closes(c)
    PROVE  Has(q, Closes(c)) /\ Head(q) = q[1] /\ 1 \in 1 .. Len(q)
<1>1. Head(q) = q[1] /\ 1 \in 1 .. Len(q)
  OBVIOUS
<1> QED BY <1>1 DEF Has

\* AddTotalCount after the constructor or resetConn gives the announced count.
LEMMA FirstTotal ==
    ASSUME ShortSessions, NEW k \in ProxyConnect, Untold(k), NEW n \in 0 .. MaxUnits
    PROVE  /\ AddTotalCount(k, n).total = n /\ AddTotalCount(k, n).recv = k.recv
           /\ AddTotalCount(k, n).start = k.start /\ AddTotalCount(k, n).half = k.half
           /\ AddTotalCount(k, n).peer = k.peer
<1>1. n % CountMod = n /\ n \in Nat
  BY SmallCounts, ConstantsAssumption
<1>2. AddTotalCount(k, n).total = IF k.total = NoTotal THEN n ELSE (k.total + n) % CountMod
  BY DEF AddTotalCount, ProxyConnect
<1>3. k.total # NoTotal => k.total = 0 /\ 0 + n = n
  BY <1>1 DEF Untold
<1>4. AddTotalCount(k, n).total = n
  BY <1>1, <1>2, <1>3
<1> QED BY <1>4 DEF AddTotalCount, ProxyConnect

LEMMA ToldDirection ==
    ASSUME TypeOK, ShortSessions, NEW s \in Side, NEW c \in Proxy,
           HandleShutdownPeerConn(s), Head(ctl[s]).conn = c, s = "server" => c \in proxyMap,
           NEW e \in Endpoint, NEW f \in Endpoint, NEW st \in Stage, Direction(s, c, e, f, st)
    PROVE  /\ st = "coming" /\ Direction(s, c, e, f, "told")'
           /\ pconn'[s][c].start = pconn[s][c].start /\ pconn'[s][c].half = pconn[s][c].half
<1> USE SideType, Sides, Threads
<1>0. Other(s) # s /\ Other(s) \in Side
  BY DEF Other
<1>1. Announced(s, c, e, st) /\ Compared(s, c, e, f, st)
  BY DEF Direction
<1>2. /\ ctl[s] \in Seq(CtlMsg) /\ ctl[s] # <<>> /\ Head(ctl[s]) \in Closes(c)
      /\ ctl'[s] = Tail(ctl[s])
      /\ pconn'[s][c] = AddTotalCount(pconn[s][c], Head(ctl[s]).count)
      /\ job[s][Main] = Idle /\ job'[s][Main] = Doing("compare", c)
      /\ \A u \in Side, t \in Thread : u # s \/ t # Main => job'[u][t] = job[u][t]
      /\ relay' = relay /\ sock' = sock
  BY ToldEffect
<1>3. Has(ctl[s], Closes(c)) /\ Head(ctl[s]) = ctl[s][1] /\ 1 \in 1 .. Len(ctl[s])
  BY <1>2, HeadCloses
<1>4. /\ st = "coming" /\ ~Reports(Other(s), c) /\ Once(ctl[s], Closes(c))
      /\ Head(ctl[s]).count = sock[e].sent /\ Ended(e) /\ relay[e].closed
  BY <1>1, <1>2, <1>3 DEF Announced, Coming
<1>5. ~Reports(Other(s), c)'
  BY <1>0, <1>2, <1>4 DEF Reports
<1>6. ~Has(ctl'[s], Closes(c)) /\ Once(ctl'[s], Closes(c))
  BY <1>2, <1>4, OnceTail DEF Shrinks
<1>7. Ended(e)'
  BY <1>2, <1>4 DEF Ended
<1>8. Announced(s, c, e, "told")'
  BY <1>2, <1>4, <1>5, <1>6, <1>7 DEF Announced, Coming, Has
<1>9. /\ sock[e].sent \in 0 .. MaxUnits /\ pconn[s][c] \in ProxyConnect
      /\ Untold(pconn[s][c])
  <2>1. sock[e].sent \in 0 .. MaxUnits
    BY SocketTypes
  <2>2. pconn[s][c] \in ProxyConnect
    BY ConnTypes
  <2>3. Untold(pconn[s][c])
    BY <1>1, <1>4 DEF Compared
  <2> QED BY <2>1, <2>2, <2>3
<1>10. /\ pconn'[s][c].total = sock[e].sent /\ pconn'[s][c].recv = pconn[s][c].recv
       /\ pconn'[s][c].start = pconn[s][c].start /\ pconn'[s][c].half = pconn[s][c].half
  BY <1>2, <1>4, <1>9, FirstTotal
<1>11. \A t \in Thread : ~At(s, t, c, "shut")'
  <2>1. \A t \in Thread : ~At(s, t, c, "shut")
    BY <1>1, <1>4 DEF Compared
  <2> QED BY <1>2, <2>1, JobFields DEF At
<1>12. Compared(s, c, e, f, "told")'
  BY <1>1, <1>2, <1>4, <1>10, <1>11 DEF Compared
<1> QED BY <1>4, <1>8, <1>10, <1>12 DEF Direction

LEMMA ToldOther ==
    ASSUME TypeOK, Next, NEW s \in Side, NEW c \in Proxy,
           HandleShutdownPeerConn(s), Head(ctl[s]).conn = c, s = "server" => c \in proxyMap,
           NEW f \in Endpoint, NEW g \in Endpoint
    PROVE  Frame(Other(s), c, f, g)
<1>1. Other(s) \in Side /\ Other(Other(s)) = s /\ Other(s) # s /\ c \in Thread /\ c # Main
  BY SideType, Sides, Threads DEF Other
<1>2. /\ \A u \in Side, t \in Thread : u # s \/ t # Main => job'[u][t] = job[u][t]
      /\ ctl'[Other(s)] = ctl[Other(s)] /\ sock' = sock /\ relay' = relay
  BY ToldEffect
<1>3. \A t \in Thread : \A pc : At(Other(s), t, c, pc)' <=> At(Other(s), t, c, pc)
  BY <1>1, <1>2 DEF At
<1>4. job'[s][c] = job[s][c]
  BY <1>1, <1>2
<1>5. SameCloses(ctl[Other(s)], ctl'[Other(s)], c)
  BY <1>2 DEF SameCloses
<1> QED BY <1>1, <1>2, <1>3, <1>4, <1>5, EndSteps DEF Frame, Reports

LEMMA CourseTold ==
    ASSUME Ground, ShortSessions, Next, NEW c \in Proxy, Steady(c), NEW s \in Side,
           HandleShutdownPeerConn(s), Head(ctl[s]).conn = c,
           NEW p \in Public, NEW z \in Local, NEW a \in Stage, NEW b \in Stage,
           Course(c, p, z, a, b)
    PROVE  InSession(c)'
<1> USE SideType, Sides, Threads
<1>0. TypeOK
  BY GroundFacts
<1>1. EndOf(c, p) /\ EndOf(c, z) /\ p \in Endpoint /\ z \in Endpoint /\ c \in proxyMap
  BY CourseEnds DEF Steady
<1>2. /\ Direction("client", c, p, z, a) /\ Direction("server", c, z, p, b)
      /\ p = Last(bound[c]) /\ z = Newcomer(c)
  BY DEF Course
<1>3. /\ pconn'[Other(s)][c] = pconn[Other(s)][c]
      /\ job[s][Main] = Idle /\ job'[s][Main] = Doing("compare", c)
      /\ \A u \in Side, t \in Thread : u # s \/ t # Main => job'[u][t] = job[u][t]
      /\ bound' = bound /\ ran' = ran
  BY <1>0, <1>1, ToldEffect
<1>4. \A t \in Thread : At("client", t, c, "run")' <=> At("client", t, c, "run")
  BY <1>3, JobFields DEF At
<1>5. CASE s = "client"
  <2>1. /\ a = "coming" /\ Direction("client", c, p, z, "told")'
        /\ pconn'["client"][c].start = pconn["client"][c].start
        /\ pconn'["client"][c].half = pconn["client"][c].half
    BY <1>0, <1>1, <1>2, <1>5, ToldDirection
  <2>2. Frame("server", c, z, p)
    BY <1>0, <1>1, <1>5, ToldOther
  <2>3. Direction("server", c, z, p, b)'
    BY <1>2, <1>3, <1>5, <2>2, DirectionFrame
  <2>4. b = "unsent"
    BY <2>1 DEF Course, InOrder
  <2>5. InUse(c)' <=> InUse(c)
    BY <1>4, <2>1 DEF InUse, OpenFor
  <2>6. Course(c, p, z, "told", b)'
    BY <1>2, <1>3, <1>5, <2>1, <2>3, <2>4, <2>5 DEF Course, InOrder, Newcomer
  <2> QED BY <2>6 DEF InSession, Stage
<1>6. CASE s = "server"
  <2>1. /\ b = "coming" /\ Direction("server", c, z, p, "told")'
        /\ pconn'["server"][c].start = pconn["server"][c].start
        /\ pconn'["server"][c].half = pconn["server"][c].half
    BY <1>0, <1>1, <1>2, <1>6, ToldDirection
  <2>2. Frame("client", c, p, z)
    BY <1>0, <1>1, <1>6, ToldOther
  <2>3. Direction("client", c, p, z, a)'
    BY <1>2, <1>3, <1>6, <2>2, DirectionFrame
  <2>4. a = "done"
    BY <2>1 DEF Course, InOrder
  <2>5. InUse(c)' <=> InUse(c)
    BY <1>3, <1>4, <1>6 DEF InUse, OpenFor
  <2>6. Course(c, p, z, a, "told")'
    BY <1>2, <1>3, <1>6, <2>1, <2>3, <2>4, <2>5 DEF Course, InOrder, Newcomer, Untold
  <2> QED BY <2>6 DEF InSession, Stage
<1> QED BY <1>5, <1>6

LEMMA RestNotTold ==
    ASSUME TypeOK, NEW c \in Proxy, Rest(c), NEW s \in Side
    PROVE  ~(HandleShutdownPeerConn(s) /\ Head(ctl[s]).conn = c)
<1> SUFFICES ASSUME HandleShutdownPeerConn(s), Head(ctl[s]).conn = c PROVE FALSE
  OBVIOUS
<1>1. NextCtl(s, "shutdown")
  BY DEF HandleShutdownPeerConn
<1>2. ctl[s] \in Seq(CtlMsg) /\ ctl[s] # <<>> /\ Head(ctl[s]) \in CtlMsg
  BY <1>1, NextCtlAt
<1>3. Head(ctl[s]) \in Closes(c)
  BY <1>1, <1>2 DEF NextCtl, Closes
<1>4. Has(ctl[s], Closes(c))
  BY <1>2, <1>3, HeadCloses
<1> QED BY <1>4 DEF Rest, Coming

-----------------------------------------------------------------------------
(* CompareCounts *)

LEMMA CompareDirection ==
    ASSUME TypeOK, ShortSessions, NEW s \in Side, NEW t \in Thread, NEW c \in Proxy,
           CompareCounts(s, t), job[s][t].conn = c,
           NEW e \in Endpoint, NEW f \in Endpoint, NEW st \in Stage,
           Direction(s, c, e, f, st), Len(sock[f].got) <= sock[e].sent
    PROVE  Direction(s, c, e, f, st)'
<1> USE SideType, Sides, Threads
<1>0. Other(s) # s /\ Other(s) \in Side
  BY DEF Other
<1>1. Announced(s, c, e, st) /\ Compared(s, c, e, f, st) /\ At(s, t, c, "compare")
  BY DEF Direction, CompareCounts, At
<1>2. /\ pconn' = pconn /\ sock' = sock /\ ctl' = ctl /\ relay' = relay
      /\ SetJob(s, t, IF AllReceived(pconn[s][c]) THEN Doing("shut", c) ELSE Idle)
  BY DEF CompareCounts
<1>3. /\ job'[s][t] = IF AllReceived(pconn[s][c]) THEN Doing("shut", c) ELSE Idle
      /\ \A u \in Side, v \in Thread : u # s \/ v # t => job'[u][v] = job[u][v]
  BY <1>2, JobAt
<1>4. /\ Reports(Other(s), c)' <=> Reports(Other(s), c)
      /\ job'[Other(s)][c] = job[Other(s)][c]
  BY <1>0, <1>3 DEF Reports
<1>5. Announced(s, c, e, st)'
  BY <1>1, <1>2, <1>4 DEF Announced, Coming, Ended, Reports
<1>6. \A v \in Thread : At(s, v, c, "compare")' => At(s, v, c, "compare")
  BY <1>3, JobFields DEF At
<1>7. st # "done"
  BY <1>1 DEF Compared
<1>8. CASE st \in {"unsent", "coming"}
  <2>1. /\ pconn[s][c].recv # 0 /\ Untold(pconn[s][c])
        /\ pconn[s][c].recv = Len(sock[f].got)
    BY <1>1, <1>8 DEF Compared
  <2>2. Len(sock[f].got) \in 0 .. MaxUnits
    <3> DEFINE g == Len(sock[f].got)
    <3>1. g \in Nat
      BY SocketTypes
    <3>2. sock[e].sent \in 0 .. MaxUnits
      BY SocketTypes
    <3> HIDE DEF g
    <3>3. g <= sock[e].sent => g \in 0 .. MaxUnits
      BY <3>1, <3>2, ConstantsAssumption
    <3> QED BY <3>3 DEF g
  <2>3. ~AllReceived(pconn[s][c])
    BY <2>1, <2>2, SmallCounts DEF AllReceived, Untold
  <2>4. \A v \in Thread : ~At(s, v, c, "shut")'
    BY <1>1, <1>3, <1>8, <2>3, JobFields DEF At, Compared
  <2>5. Compared(s, c, e, f, st)'
    BY <1>1, <1>2, <1>6, <1>8, <2>4 DEF Compared, Untold
  <2> QED BY <1>5, <2>5 DEF Direction
<1>9. CASE st = "told"
  <2>1. pconn[s][c].total = sock[e].sent
    BY <1>1, <1>9 DEF Compared
  <2>2. \A v \in Thread : At(s, v, c, "shut")' => pconn[s][c].recv = sock[e].sent
    <3>1. ASSUME NEW v \in Thread, At(s, v, c, "shut")'
          PROVE  pconn[s][c].recv = sock[e].sent
      <4>1. CASE v = t
        <5>1. AllReceived(pconn[s][c])
          BY <1>3, <3>1, <4>1, JobFields DEF At
        <5> QED BY <2>1, <5>1 DEF AllReceived
      <4>2. CASE v # t
        BY <1>1, <1>3, <1>9, <3>1, <4>2 DEF At, Compared
      <4> QED BY <4>1, <4>2
    <3> QED BY <3>1
  <2>3. Compared(s, c, e, f, st)'
    BY <1>1, <1>2, <1>9, <2>2 DEF Compared
  <2> QED BY <1>5, <2>3 DEF Direction
<1> QED BY <1>7, <1>8, <1>9 DEF Stage

LEMMA CompareOther ==
    ASSUME TypeOK, Next, NEW s \in Side, NEW t \in Thread, NEW c \in Proxy,
           CompareCounts(s, t), job[s][t].conn = c,
           NEW f \in Endpoint, NEW g \in Endpoint
    PROVE  Frame(Other(s), c, f, g)
<1>1. Other(s) \in Side /\ Other(Other(s)) = s /\ Other(s) # s /\ c \in Thread
  BY SideType, Sides, Threads DEF Other
<1>2. /\ sock' = sock /\ ctl' = ctl /\ relay' = relay /\ job[s][t].pc = "compare"
      /\ SetJob(s, t, IF AllReceived(pconn[s][c]) THEN Doing("shut", c) ELSE Idle)
  BY DEF CompareCounts
<1>3. /\ job'[s][t] = IF AllReceived(pconn[s][c]) THEN Doing("shut", c) ELSE Idle
      /\ \A u \in Side, v \in Thread : u # s \/ v # t => job'[u][v] = job[u][v]
  BY <1>2, JobAt
<1>4. \A v \in Thread : \A pc : At(Other(s), v, c, pc)' <=> At(Other(s), v, c, pc)
  BY <1>1, <1>3 DEF At
<1>5. job'[s][c] = job[s][c] \/ (~Reports(s, c) /\ ~Reports(s, c)')
  BY <1>1, <1>2, <1>3, JobFields DEF Reports
<1>6. SameCloses(ctl[Other(s)], ctl'[Other(s)], c)
  BY <1>2 DEF SameCloses
<1> QED BY <1>1, <1>2, <1>4, <1>5, <1>6, EndSteps DEF Frame, Reports

LEMMA CourseCompare ==
    ASSUME Ground, ShortSessions, Next, NEW c \in Proxy, Steady(c), NEW s \in Side,
           NEW t \in Thread, CompareCounts(s, t), job[s][t].conn = c,
           NEW p \in Public, NEW z \in Local, NEW a \in Stage, NEW b \in Stage,
           Course(c, p, z, a, b)
    PROVE  Course(c, p, z, a, b)'
<1> USE SideType, Sides, Threads
<1>0. TypeOK
  BY GroundFacts
<1>1. EndOf(c, p) /\ EndOf(c, z) /\ p \in Endpoint /\ z \in Endpoint
  BY CourseEnds DEF Steady
<1>2. /\ Direction("client", c, p, z, a) /\ Direction("server", c, z, p, b)
      /\ p = Last(bound[c]) /\ z = Newcomer(c)
  BY DEF Course
<1>3. Len(sock[z].got) <= sock[p].sent /\ Len(sock[p].got) <= sock[z].sent
  <2>1. \A x, y, m, n \in Nat : x + y <= m /\ m <= n => x <= n
    OBVIOUS
  <2>2. /\ Len(sock[z].got) + Len(stream["client"][c]) <= sock[p].read
        /\ Len(sock[p].got) + Len(stream["server"][c]) <= sock[z].read
        /\ sock[p].read <= sock[p].sent /\ sock[z].read <= sock[z].sent
    BY Room DEF Steady
  <2>30. sock[z].got \in Seq(Elem) /\ sock[p].got \in Seq(Elem)
    BY <1>0, <1>1, SocketTypes
  <2>3. /\ sock[z].got \in Seq(Elem) /\ stream["client"][c] \in Seq(Elem)
        /\ sock[p].got \in Seq(Elem) /\ stream["server"][c] \in Seq(Elem)
    BY <1>0, <2>30 DEF TypeOK
  <2>31. /\ sock[p].sent \in Nat /\ sock[z].sent \in Nat
         /\ sock[p].read \in Nat /\ sock[z].read \in Nat
    BY <1>0, <1>1, SocketTypes
  <2>32. \A q \in Seq(Elem) : Len(q) \in Nat
    OBVIOUS
  <2>4. /\ Len(sock[z].got) \in Nat /\ Len(stream["client"][c]) \in Nat
        /\ Len(sock[p].got) \in Nat /\ Len(stream["server"][c]) \in Nat
    BY <2>3, <2>32
  <2> QED BY <2>1, <2>2, <2>31, <2>4
<1>4. /\ pconn' = pconn /\ bound' = bound /\ ran' = ran /\ job[s][t].pc = "compare"
      /\ SetJob(s, t, IF AllReceived(pconn[s][c]) THEN Doing("shut", c) ELSE Idle)
  BY DEF CompareCounts
<1>5. Direction("client", c, p, z, a)'
  <2>1. CASE s = "client"
    BY <1>0, <1>1, <1>2, <1>3, <2>1, CompareDirection
  <2>2. CASE s = "server"
    <3>1. Frame("client", c, p, z)
      BY <1>0, <1>1, <2>2, CompareOther
    <3> QED BY <1>2, <1>4, <3>1, DirectionFrame
  <2> QED BY <2>1, <2>2
<1>6. Direction("server", c, z, p, b)'
  <2>1. CASE s = "server"
    BY <1>0, <1>1, <1>2, <1>3, <2>1, CompareDirection
  <2>2. CASE s = "client"
    <3>1. Frame("server", c, z, p)
      BY <1>0, <1>1, <2>2, CompareOther
    <3> QED BY <1>2, <1>4, <3>1, DirectionFrame
  <2> QED BY <2>1, <2>2
<1>7. InUse(c)' <=> InUse(c)
  <2>1. /\ job'[s][t] = IF AllReceived(pconn[s][c]) THEN Doing("shut", c) ELSE Idle
        /\ \A u \in Side, v \in Thread : u # s \/ v # t => job'[u][v] = job[u][v]
    BY <1>0, <1>4, JobAt
  <2>2. \A v \in Thread : At("client", v, c, "run")' <=> At("client", v, c, "run")
    BY <1>4, <2>1, JobFields DEF At
  <2> QED BY <1>4, <2>2 DEF InUse, OpenFor
<1> QED BY <1>2, <1>4, <1>5, <1>6, <1>7 DEF Course, Newcomer, Untold

LEMMA RestNoCompare ==
    ASSUME NEW c \in Proxy, Rest(c), NEW s \in Side, NEW t \in Thread,
           job[s][t].conn = c
    PROVE  ~CompareCounts(s, t) /\ ~ShutdownFromRemote(s, t)
BY DEF Rest, At, CompareCounts, ShutdownFromRemote

-----------------------------------------------------------------------------
(* ShutdownFromRemote *)

LEMMA ShutEffect ==
    ASSUME TypeOK, NEW s \in Side, NEW t \in Thread, NEW c \in Proxy,
           ShutdownFromRemote(s, t), job[s][t].conn = c
    PROVE  /\ job[s][t].pc = "shut"
           /\ job'[s][t] = IF pconn[s][c].half THEN Doing("free", c) ELSE Idle
           /\ \A u \in Side, v \in Thread : u # s \/ v # t => job'[u][v] = job[u][v]
           /\ pconn'[s][c] = HalfClose(pconn[s][c])
           /\ pconn'[Other(s)][c] = pconn[Other(s)][c]
           /\ ctl' = ctl /\ relay' = relay /\ stream' = stream
           /\ bound' = bound /\ ran' = ran
           /\ \A f \in Endpoint : pconn[s][c].peer # f => sock'[f] = sock[f]
           /\ \A f \in Endpoint : /\ sock'[f].got = sock[f].got
                                  /\ sock'[f].read = sock[f].read
                                  /\ sock'[f].sent = sock[f].sent
                                  /\ sock'[f].fin = sock[f].fin
<1> USE SideType, Sides, Threads
<1>1. /\ job[s][t].pc = "shut" /\ SetConn(s, c, HalfClose(pconn[s][c]))
      /\ SetJob(s, t, IF pconn[s][c].half THEN Doing("free", c) ELSE Idle)
      /\ ctl' = ctl /\ relay' = relay /\ stream' = stream
      /\ bound' = bound /\ ran' = ran
      /\ \/ sock' = sock
         \/ sock' = [sock EXCEPT ![pconn[s][c].peer] = [sock[pconn[s][c].peer] EXCEPT !.eof = TRUE]]
  BY DEF ShutdownFromRemote
<1>2. Other(s) # s /\ Other(s) \in Side
  BY DEF Other
<1>3. pconn'[s][c] = HalfClose(pconn[s][c]) /\ pconn'[Other(s)][c] = pconn[Other(s)][c]
  BY <1>1, <1>2, ConnAt
<1>4. /\ job'[s][t] = IF pconn[s][c].half THEN Doing("free", c) ELSE Idle
      /\ \A u \in Side, v \in Thread : u # s \/ v # t => job'[u][v] = job[u][v]
  BY <1>1, JobAt
<1>5. ASSUME NEW f \in Endpoint
      PROVE  /\ pconn[s][c].peer # f => sock'[f] = sock[f]
             /\ sock'[f].got = sock[f].got /\ sock'[f].read = sock[f].read
             /\ sock'[f].sent = sock[f].sent /\ sock'[f].fin = sock[f].fin
  <2> DEFINE x == pconn[s][c].peer
  <2>1. sock' = sock \/ sock' = [sock EXCEPT ![x] = [sock[x] EXCEPT !.eof = TRUE]]
    BY <1>1
  <2>2. sock[f] \in Socket
    BY DEF TypeOK
  <2> HIDE DEF x
  <2>3. /\ x # f => sock'[f] = sock[f]
        /\ sock'[f] = sock[f] \/ sock'[f] = [sock[f] EXCEPT !.eof = TRUE]
    <3>1. CASE x = f
      <4>1. sock' = sock \/ sock' = [sock EXCEPT ![f] = [sock[f] EXCEPT !.eof = TRUE]]
        BY <2>1, <3>1
      <4>2. sock \in [Endpoint -> Socket]
        BY DEF TypeOK
      <4> QED BY <3>1, <4>1, <4>2
    <3>2. CASE x # f
      BY <2>1, <3>2 DEF TypeOK
    <3> QED BY <3>1, <3>2
  <2>4. /\ sock'[f].got = sock[f].got /\ sock'[f].read = sock[f].read
        /\ sock'[f].sent = sock[f].sent /\ sock'[f].fin = sock[f].fin
    BY <2>2, <2>3 DEF Socket
  <2> QED BY <2>3, <2>4 DEF x
<1> QED BY <1>1, <1>3, <1>4, <1>5

LEMMA ShutAlone ==
    ASSUME BothComplete, NEW c \in Proxy, c \notin raced, NEW s \in Side, NEW t \in Thread,
           job[s][t].pc = "shut", job[s][t].conn = c, NEW u \in Thread, u # t
    PROVE  ~At(s, u, c, "shut") /\ ~At(s, u, c, "compare")
BY DEF BothComplete, Completing, At

LEMMA ShutDirection ==
    ASSUME TypeOK, BothComplete, NEW s \in Side, NEW t \in Thread, NEW c \in Proxy,
           c \notin raced,
           ShutdownFromRemote(s, t), job[s][t].conn = c,
           NEW e \in Endpoint, NEW f \in Endpoint, pconn[s][c].peer # e, NEW st \in Stage,
           Direction(s, c, e, f, st)
    PROVE  st = "told" /\ Direction(s, c, e, f, "done")'
<1> USE SideType, Sides, Threads
<1>0. Other(s) # s /\ Other(s) \in Side
  BY DEF Other
<1>1. Announced(s, c, e, st) /\ Compared(s, c, e, f, st)
  BY DEF Direction
<1>2. At(s, t, c, "shut") /\ job[s][t].pc = "shut"
  BY DEF ShutdownFromRemote, At
<1>3. st = "told"
  BY <1>1, <1>2 DEF Compared, Stage
<1>4. /\ job'[s][t] = IF pconn[s][c].half THEN Doing("free", c) ELSE Idle
      /\ \A u \in Side, v \in Thread : u # s \/ v # t => job'[u][v] = job[u][v]
      /\ ctl' = ctl /\ relay' = relay /\ sock'[e] = sock[e] /\ sock'[f].got = sock[f].got
  BY ShutEffect
<1>5. job'[Other(s)][c] = job[Other(s)][c]
  BY <1>0, <1>4
<1>6. Announced(s, c, e, "done")'
  BY <1>1, <1>3, <1>4, <1>5 DEF Announced, Coming, Ended, Reports
<1>7. Len(sock'[f].got) = sock'[e].sent
  BY <1>1, <1>2, <1>3, <1>4 DEF Compared
<1>8. \A v \in Thread : ~At(s, v, c, "shut")' /\ ~At(s, v, c, "compare")'
  BY <1>2, <1>4, JobFields, ShutAlone DEF At
<1>9. Compared(s, c, e, f, "done")'
  BY <1>7, <1>8 DEF Compared
<1> QED BY <1>3, <1>6, <1>9 DEF Direction

LEMMA ShutOther ==
    ASSUME TypeOK, Next, NEW s \in Side, NEW t \in Thread, NEW c \in Proxy,
           ShutdownFromRemote(s, t), job[s][t].conn = c,
           NEW f \in Endpoint, NEW g \in Endpoint, pconn[s][c].peer # g
    PROVE  Frame(Other(s), c, f, g)
<1>1. Other(s) \in Side /\ Other(Other(s)) = s /\ Other(s) # s /\ c \in Thread
  BY SideType, Sides, Threads DEF Other
<1>2. /\ ctl' = ctl /\ relay' = relay /\ job[s][t].pc = "shut"
      /\ job'[s][t] = IF pconn[s][c].half THEN Doing("free", c) ELSE Idle
      /\ \A u \in Side, v \in Thread : u # s \/ v # t => job'[u][v] = job[u][v]
      /\ sock'[g] = sock[g]
  BY ShutEffect
<1>4. \A v \in Thread : \A pc : At(Other(s), v, c, pc)' <=> At(Other(s), v, c, pc)
  BY <1>1, <1>2 DEF At
<1>5. job'[s][c] = job[s][c] \/ (~Reports(s, c) /\ ~Reports(s, c)')
  BY <1>1, <1>2, JobFields DEF Reports
<1>6. SameCloses(ctl[Other(s)], ctl'[Other(s)], c)
  BY <1>2 DEF SameCloses
<1> QED BY <1>1, <1>2, <1>4, <1>5, <1>6, EndSteps DEF Frame, Reports

\* The peer that is sent FIN, if any, is the end of the session at this side.
LEMMA SessionPeer ==
    ASSUME Ground, NEW c \in Proxy, Steady(c),
           NEW p \in Public, NEW z \in Local, NEW a, NEW b, Course(c, p, z, a, b)
    PROVE  /\ pconn["server"][c].peer = p
           /\ pconn["client"][c].peer \in {None, z}
<1> USE SideType, Sides
<1>1. pconn["server"][c].start /\ p = Last(bound[c]) /\ z = Newcomer(c)
  BY DEF Course
<1>2. pconn["client"][c].peer # None => pconn["client"][c].start
  BY DEF Ground, Peers
<1> QED BY <1>1, <1>2, GroundFacts DEF OwnPeers, Steady, LocalEnds

\* Nothing is left on the way to the client when its end has been told.
LEMMA NothingLeft ==
    ASSUME Ground, NEW c \in Proxy, Steady(c),
           NEW p \in Public, NEW z \in Local, NEW b, Course(c, p, z, "done", b)
    PROVE  /\ stream["client"][c] = <<>>
           /\ CarriesFrom(0, sock[z].got, stream["client"][c], p, sock[p].read)
<1> USE SideType, Sides
<1>0. TypeOK
  BY GroundFacts
<1>1. p \in Endpoint /\ z \in Endpoint
  BY CourseEnds DEF Steady
<1>2. Len(sock[z].got) = sock[p].sent /\ sock[p].read = sock[p].sent
  BY DEF Course, Direction, Announced, Compared, Ended
<1>3. PICK d \in Nat : CarriesFrom(d, sock[z].got, stream["client"][c], p, sock[p].read)
  BY DEF Course, Steady, CarriedOut
<1>4. d + Len(sock[z].got) + Len(stream["client"][c]) = Len(sock[z].got)
  BY <1>2, <1>3 DEF CarriesFrom
<1>5. stream["client"][c] \in Seq(Elem) /\ sock[z].got \in Seq(Elem)
  <2>1. stream["client"][c] \in Seq(Elem)
    BY <1>0 DEF TypeOK
  <2>2. sock[z].got \in Seq(Elem)
    BY <1>0, <1>1, SocketTypes
  <2> QED BY <2>1, <2>2
<1>6. \A q \in Seq(Elem) : Len(q) \in Nat /\ (Len(q) = 0 => q = <<>>)
  OBVIOUS
<1>7. \A x, y \in Nat : d + x + y = x => d = 0 /\ y = 0
  OBVIOUS
<1>8. d = 0 /\ Len(stream["client"][c]) = 0
  BY <1>4, <1>5, <1>6, <1>7
<1> QED BY <1>3, <1>5, <1>6, <1>8

LEMMA CourseShut ==
    ASSUME Ground, Next, NEW c \in Proxy, c \notin raced, Steady(c), NEW s \in Side,
           NEW t \in Thread, ShutdownFromRemote(s, t), job[s][t].conn = c,
           NEW p \in Public, NEW z \in Local, NEW a \in Stage, NEW b \in Stage,
           Course(c, p, z, a, b)
    PROVE  /\ s = "client" => InSession(c)'
           /\ s = "server" => Rest(c)' /\ Course(c, p, z, "done", "told")
<1> USE SideType, Sides, Threads
<1>0. TypeOK /\ BothComplete
  BY GroundFacts
<1>1. EndOf(c, p) /\ EndOf(c, z) /\ p \in Endpoint /\ z \in Endpoint /\ p # z
  BY CourseEnds DEF Steady
<1>2. /\ Direction("client", c, p, z, a) /\ Direction("server", c, z, p, b)
      /\ p = Last(bound[c]) /\ z = Newcomer(c)
  BY DEF Course
<1>3. pconn["server"][c].peer = p /\ pconn["client"][c].peer \in {None, z}
  BY SessionPeer
<1>4. None # p /\ None # z
  BY ConstantsAssumption DEF Endpoint, Local
<1>5. /\ pconn'[s][c] = HalfClose(pconn[s][c])
      /\ pconn'[Other(s)][c] = pconn[Other(s)][c]
      /\ job[s][t].pc = "shut"
      /\ job'[s][t] = IF pconn[s][c].half THEN Doing("free", c) ELSE Idle
      /\ \A u \in Side, v \in Thread : u # s \/ v # t => job'[u][v] = job[u][v]
      /\ ctl' = ctl /\ bound' = bound /\ ran' = ran /\ stream' = stream
  BY <1>0, ShutEffect
<1>6. \A v \in Thread : At("client", v, c, "run")' <=> At("client", v, c, "run")
  BY <1>5, JobFields DEF At
<1>7. pconn[s][c] \in ProxyConnect
  BY <1>0 DEF TypeOK
<1>8. CASE s = "client"
  <2>1. a = "told" /\ Direction("client", c, p, z, "done")'
    BY <1>0, <1>1, <1>2, <1>3, <1>4, <1>8, ShutDirection
  <2>2. b = "unsent" /\ ~pconn["client"][c].half
    BY <2>1 DEF Course, InOrder
  <2>3. /\ pconn'["client"][c].half
        /\ pconn'["client"][c].start = pconn["client"][c].start
    BY <1>5, <1>7, <1>8, <2>2 DEF HalfClose, ProxyConnect
  <2>4. Frame("server", c, z, p)
    BY <1>0, <1>1, <1>3, <1>4, <1>8, ShutOther
  <2>5. Direction("server", c, z, p, b)'
    BY <1>2, <1>5, <1>8, <2>4, DirectionFrame
  <2>6. InUse(c)' <=> InUse(c)
    BY <1>6, <2>3 DEF InUse, OpenFor
  <2>7. Course(c, p, z, "done", b)'
    BY <1>2, <1>5, <1>8, <2>1, <2>2, <2>3, <2>5, <2>6 DEF Course, InOrder, Newcomer
  <2> QED BY <1>8, <2>7 DEF InSession, Stage
<1>9. CASE s = "server"
  <2>1. b = "told"
    BY <1>0, <1>1, <1>2, <1>3, <1>4, <1>9, ShutDirection
  <2>2. a = "done" /\ pconn["server"][c].half
    BY <2>1 DEF Course, InOrder
  <2>3. pconn'["server"][c] = ResetConn /\ pconn'["client"][c] = pconn["client"][c]
    BY <1>5, <1>9, <2>2 DEF HalfClose
  <2>4. /\ pconn["client"][c].recv = 0 /\ Untold(pconn["client"][c])
        /\ ~pconn["client"][c].half /\ ~InUse(c)
    BY <2>1 DEF Course
  <2>5. /\ ~Coming("client", c) /\ ~Coming("server", c)
        /\ \A v \in Thread : ~At("client", v, c, "shut") /\ ~At("client", v, c, "compare")
    BY <1>2, <2>1, <2>2 DEF Direction, Announced, Compared
  <2>6. \A u \in Side : Reports(u, c)' => Reports(u, c)
    BY <1>5, JobFields DEF Reports
  <2>7. \A u \in Side : ~Coming(u, c)'
    BY <1>5, <2>5, <2>6 DEF Coming
  <2>8. \A v \in Thread : /\ ~At("client", v, c, "shut")' /\ ~At("client", v, c, "compare")'
                          /\ ~At("server", v, c, "shut")' /\ ~At("server", v, c, "compare")'
    BY <1>0, <1>5, <1>9, <2>5, JobFields, ShutAlone DEF At
  <2>9. ~InUse(c)'
    BY <1>6, <2>3, <2>4 DEF InUse, OpenFor
  <2>10. ~Has(stream'["client"][c], Elem \ OfKind("req"))
    <3>1. stream["client"][c] = <<>>
      BY <2>2, NothingLeft
    <3> QED BY <1>5, <3>1 DEF Has
  <2>11. ran[c] = Len(bound[c])
    BY CourseEnds DEF Steady
  <2>12. Rest(c)'
    BY <1>5, <2>3, <2>4, <2>7, <2>8, <2>9, <2>10, <2>11 DEF Rest, ResetConn, Untold
  <2> QED BY <1>9, <2>1, <2>2, <2>12
<1> QED BY <1>8, <1>9

-----------------------------------------------------------------------------
(* Opening a session *)

\* HandleProxyNotify or HandleProxyConnectReq opens the next local connection.
LEMMA OpenEffect ==
    ASSUME TypeOK, NEW c \in Proxy, HandleProxyNotify(c) \/ HandleProxyConnectReq(c)
    PROVE  /\ ran[c] < MaxSession /\ ran'[c] = ran[c] + 1
           /\ \E t \in {Main, c} :
                /\ job["client"][t] = Idle
                /\ job'["client"][t] = Runs(c, <<c, ran[c] + 1>>)
                /\ \A u \in Side, v \in Thread :
                     u # "client" \/ v # t => job'[u][v] = job[u][v]
           /\ \A s \in Side : SameCloses(ctl[s], ctl'[s], c)
           /\ stream'["client"][c] \in {stream["client"][c], Tail(stream["client"][c])}
           /\ stream'["client"][c] # stream["client"][c] => stream["client"][c] # <<>>
           /\ \A e \in Endpoint :
                /\ sock'[e].got = sock[e].got /\ sock'[e].eof = sock[e].eof
                /\ sock'[e].read = sock[e].read /\ sock'[e].fin = sock[e].fin
                /\ sock'[e].sent = sock[e].sent
           /\ pconn' = pconn /\ relay' = relay /\ bound' = bound
<1> USE SideType, Sides, Threads
<1>1. CreateLocalConn(c) /\ pconn' = pconn /\ relay' = relay /\ bound' = bound
  BY DEF HandleProxyNotify, HandleProxyConnectReq
<1>2. ran[c] < MaxSession /\ ran'[c] = ran[c] + 1
  BY <1>1 DEF CreateLocalConn, TypeOK
<1>3. ASSUME NEW e \in Endpoint
      PROVE  /\ sock'[e].got = sock[e].got /\ sock'[e].eof = sock[e].eof
             /\ sock'[e].read = sock[e].read /\ sock'[e].fin = sock[e].fin
             /\ sock'[e].sent = sock[e].sent
  <2> DEFINE x == <<c, ran[c] + 1>>
  <2>1. sock' = [sock EXCEPT ![x] = [sock[x] EXCEPT !.open = TRUE]]
    BY <1>1 DEF CreateLocalConn
  <2>2. sock[e] \in Socket
    BY DEF TypeOK
  <2> HIDE DEF x
  <2>3. CASE x = e
    <3>1. sock' = [sock EXCEPT ![e] = [sock[e] EXCEPT !.open = TRUE]]
      BY <2>1, <2>3
    <3>2. sock'[e] = [sock[e] EXCEPT !.open = TRUE]
      BY <3>1 DEF TypeOK
    <3> QED BY <2>2, <3>2 DEF Socket
  <2>4. CASE x # e
    BY <2>1, <2>4 DEF TypeOK
  <2> QED BY <2>3, <2>4
<1>4. CASE HandleProxyNotify(c)
  <2>1. /\ NextCtl("client", "notify") /\ job["client"][Main] = Idle
        /\ SetJob("client", Main, Runs(c, <<c, ran[c] + 1>>))
        /\ SendStream("server", c, MetaSet)
    BY <1>4 DEF HandleProxyNotify, NextCtl, Runs
  <2>2. /\ job'["client"][Main] = Runs(c, <<c, ran[c] + 1>>)
        /\ \A u \in Side, v \in Thread : u # "client" \/ v # Main => job'[u][v] = job[u][v]
    BY <2>1, JobAt
  <2>3. /\ ctl["client"] \in Seq(CtlMsg) /\ ctl["client"] # <<>>
        /\ ctl'["client"] = Tail(ctl["client"]) /\ ctl'["server"] = ctl["server"]
    BY <2>1, NextCtlAt
  <2>4. Head(ctl["client"]) \notin Closes(c)
    BY <2>1 DEF NextCtl, Closes
  <2>5. \A s \in Side : SameCloses(ctl[s], ctl'[s], c)
    <3>1. SameCloses(ctl["client"], ctl'["client"], c)
      BY <2>3, <2>4, ClosesTail
    <3>2. SameCloses(ctl["server"], ctl'["server"], c)
      BY <2>3 DEF SameCloses
    <3> QED BY <3>1, <3>2
  <2>6. stream'["client"][c] = stream["client"][c]
    BY <2>1 DEF SendStream, TypeOK
  <2> QED BY <1>1, <1>2, <1>3, <2>1, <2>2, <2>5, <2>6
<1>5. CASE HandleProxyConnectReq(c)
  <2>1. /\ job["client"][c] = Idle /\ stream["client"][c] # <<>>
        /\ SetJob("client", c, Runs(c, <<c, ran[c] + 1>>))
        /\ stream' = [stream EXCEPT
                        !["client"][c] = Tail(@),
                        !["server"][c] = Append(@, ConnectRsp(Head(stream["client"][c]).fd))]
        /\ ctl' = ctl
    BY <1>5 DEF HandleProxyConnectReq, NextMsg, Readable, Runs
  <2>2. /\ job'["client"][c] = Runs(c, <<c, ran[c] + 1>>)
        /\ \A u \in Side, v \in Thread : u # "client" \/ v # c => job'[u][v] = job[u][v]
    BY <2>1, JobAt
  <2>3. \A s \in Side : SameCloses(ctl[s], ctl'[s], c)
    BY <2>1 DEF SameCloses
  <2>4. stream'["client"][c] = Tail(stream["client"][c])
    BY <2>1 DEF TypeOK
  <2> QED BY <1>1, <1>2, <1>3, <2>1, <2>2, <2>3, <2>4
<1> QED BY <1>4, <1>5

\* A session is opened when the connection carries none.
LEMMA OpenBetween ==
    ASSUME Ground, NEW c \in Proxy, Undisturbed(c),
           HandleProxyNotify(c) \/ HandleProxyConnectReq(c)
    PROVE  /\ ~pconn["server"][c].start /\ ran[c] = Len(bound[c])
           /\ ~pconn["client"][c].start /\ (Rest(c) => ~InUse(c))
           /\ HandleProxyConnectReq(c) => Requests(c) /\ Awaited(c)
<1> USE SideType, Sides, Threads
<1>0. TypeOK
  BY GroundFacts
<1>1. CASE HandleProxyNotify(c)
  <2>1. life[c] = "absent" /\ ~HandleProxyConnectReq(c)
    <3>1. life[c] = "absent"
      BY <1>1 DEF HandleProxyNotify, CreateProxyConn
    <3>2. stream["client"][c] = <<>>
      BY <3>1 DEF Ground, Fresh, Unmade
    <3> QED BY <3>1, <3>2 DEF HandleProxyConnectReq, NextMsg, Readable
  <2>2. ~pconn["server"][c].start /\ bound[c] = <<>>
    BY <2>1 DEF Ground, Claimed, NotInUse
  <2>3. ran[c] = 0 /\ ~pconn["client"][c].start /\ \A t \in Thread : job["client"][t].conn # c
    BY <2>1 DEF Ground, Fresh, Unmade
  <2> QED BY <2>1, <2>2, <2>3 DEF InUse, OpenFor, At
<1>2. CASE HandleProxyConnectReq(c)
  <2>1. Requests(c) /\ ~pconn["client"][c].start
    BY <1>0, <1>2, HeadKinds DEF HandleProxyConnectReq, NextMsg
  <2>2. Awaited(c) /\ ~pconn["server"][c].start
    BY <2>1 DEF Undisturbed, Flow
  <2>3. Len(bound[c]) = ran[c]
    BY <2>1 DEF Undisturbed, Counts
  <2> QED BY <1>2, <2>1, <2>2, <2>3 DEF Rest
<1> QED BY <1>1, <1>2

LEMMA RestOpens ==
    ASSUME Ground, Next, NEW c \in Proxy, Steady(c), Rest(c),
           HandleProxyNotify(c) \/ HandleProxyConnectReq(c)
    PROVE  Rest(c)'
<1>00. TypeOK
  BY GroundFacts
<1>0. TypeOK /\ stream["client"][c] \in Seq(Elem)
  <2>1. stream \in [Side -> [Proxy -> Seq(Elem)]]
    BY <1>00 DEF TypeOK
  <2> QED BY <1>00, <2>1, SideType
<1> USE SideType, Sides, Threads
<1>1. ran[c] = Len(bound[c]) /\ ~pconn["client"][c].start
  BY OpenBetween DEF Steady
<1>2. /\ ran[c] < MaxSession /\ ran'[c] = ran[c] + 1
      /\ \A s \in Side : SameCloses(ctl[s], ctl'[s], c)
      /\ pconn' = pconn /\ bound' = bound
  BY <1>0, OpenEffect
<1>3. \A e \in Endpoint : sock'[e].got = sock[e].got /\ sock'[e].eof = sock[e].eof
  BY <1>0, OpenEffect
<1>4. PICK t \in {Main, c} :
        /\ job'["client"][t] = Runs(c, <<c, ran[c] + 1>>)
        /\ \A u \in Side, v \in Thread : u # "client" \/ v # t => job'[u][v] = job[u][v]
  BY <1>0, OpenEffect
<1>5. ran[c] \in 0 .. MaxSession /\ ran[c] \in Nat
  BY <1>0, ConstantsAssumption DEF TypeOK
<1>6. <<c, ran[c] + 1>> \in Endpoint /\ ran[c] + 1 \in 1 .. MaxSession /\ ran[c] + 1 > ran[c]
  <2>1. ran[c] + 1 \in 1 .. MaxSession /\ ran[c] + 1 > ran[c]
    BY <1>2, <1>5, ConstantsAssumption
  <2> QED BY <2>1
<1>7. InUse(c)' /\ ran'[c] # Len(bound'[c])
  BY <1>1, <1>2, <1>4, <1>5, JobFields DEF InUse, OpenFor, At
<1>8. sock'[<<c, ran'[c]>>].got = <<>> /\ ~sock'[<<c, ran'[c]>>].eof
  BY <1>2, <1>3, <1>6 DEF Steady, LocalEnds
<1>9. \A s \in Side : Reports(s, c)' => Reports(s, c)
  BY <1>4, JobFields DEF Reports
<1>10. \A s \in Side : ~Coming(s, c)'
  BY <1>2, <1>9 DEF Rest, Coming, SameCloses
<1>11. \A s \in Side, v \in Thread : ~At(s, v, c, "shut")' /\ ~At(s, v, c, "compare")'
  BY <1>4, JobFields DEF Rest, At
<1>12. ~Has(stream'["client"][c], Elem \ OfKind("req"))
  <2>1. /\ stream'["client"][c] \in {stream["client"][c], Tail(stream["client"][c])}
        /\ stream'["client"][c] # stream["client"][c] => stream["client"][c] # <<>>
    BY <1>0, OpenEffect
  <2> DEFINE V == Elem \ OfKind("req")
  <2>2. ~Has(stream["client"][c], V)
    BY DEF Rest
  <2> HIDE DEF V
  <2>3. ~Has(stream'["client"][c], V)
    <3>1. CASE stream'["client"][c] = stream["client"][c]
      BY <2>2, <3>1
    <3>2. CASE stream'["client"][c] # stream["client"][c]
      <4>1. /\ stream["client"][c] \in Seq(Elem) /\ stream["client"][c] # <<>>
            /\ stream'["client"][c] = Tail(stream["client"][c])
        BY <1>0, <2>1, <3>2
      <4>2. Shrinks(stream["client"][c], Tail(stream["client"][c]), V)
        BY <4>1, OnceTail
      <4> QED BY <2>2, <4>1, <4>2 DEF Shrinks
    <3> QED BY <3>1, <3>2
  <2> QED BY <2>3 DEF V
<1> QED BY <1>2, <1>7, <1>8, <1>10, <1>11, <1>12 DEF Rest, Newcomer

LEMMA CourseNotOpened ==
    ASSUME Ground, NEW c \in Proxy, Undisturbed(c), NEW p, NEW z, NEW a, NEW b,
           Course(c, p, z, a, b)
    PROVE  ~HandleProxyNotify(c) /\ ~HandleProxyConnectReq(c)
BY OpenBetween DEF Course

-----------------------------------------------------------------------------
(* The client's Run *)

LEMMA StartEffect ==
    ASSUME TypeOK, NEW t \in Thread, NEW c \in Proxy, NEW z \in Endpoint, Starts(t),
           job["client"][t].conn = c, job["client"][t].end = z
    PROVE  /\ job["client"][t].pc = "run" /\ job'["client"][t] = Idle
           /\ \A u \in Side, v \in Thread : u # "client" \/ v # t => job'[u][v] = job[u][v]
           /\ pconn'["client"][c].start /\ pconn'["client"][c].peer = z
           /\ pconn'["client"][c].half = pconn["client"][c].half
           /\ pconn'["client"][c].recv = pconn["client"][c].recv
           /\ pconn'["client"][c].total = pconn["client"][c].total
           /\ pconn'["server"][c] = pconn["server"][c]
           /\ ctl' = ctl /\ sock' = sock /\ stream' = stream
           /\ bound' = bound /\ ran' = ran
<1> USE SideType, Sides, Threads
<1>1. /\ job["client"][t].pc = "run" /\ SetJob("client", t, Idle) /\ Run("client", c, z)
      /\ ctl' = ctl /\ sock' = sock /\ stream' = stream
      /\ bound' = bound /\ ran' = ran
  BY DEF Starts, StartLocalConn
<1>2. SetConn("client", c, [pconn["client"][c] EXCEPT !.start = TRUE, !.peer = z])
  BY <1>1 DEF Run
<1>3. /\ pconn'["client"][c] = [pconn["client"][c] EXCEPT !.start = TRUE, !.peer = z]
      /\ pconn'["server"][c] = pconn["server"][c]
  BY <1>2, ConnAt
<1>4. pconn["client"][c] \in ProxyConnect
  BY DEF TypeOK
<1>5. /\ pconn'["client"][c].start /\ pconn'["client"][c].peer = z
      /\ pconn'["client"][c].half = pconn["client"][c].half
      /\ pconn'["client"][c].recv = pconn["client"][c].recv
      /\ pconn'["client"][c].total = pconn["client"][c].total
  BY <1>3, <1>4 DEF ProxyConnect
<1>7. /\ job'["client"][t] = Idle
      /\ \A u \in Side, v \in Thread : u # "client" \/ v # t => job'[u][v] = job[u][v]
  BY <1>1, JobAt
<1> QED BY <1>1, <1>3, <1>5, <1>7

LEMMA StartRelays ==
    ASSUME NEW t \in Thread, Starts(t)
    PROVE  \A f \in Endpoint :
             /\ f = job["client"][t].end =>
                  relay'[f] = [conn |-> job["client"][t].conn, tran |-> 0, closed |-> FALSE]
             /\ f # job["client"][t].end =>
                  \/ relay'[f] = relay[f]
                       /\ ~(SideOf(f) = "client" /\ relay[f].conn = job["client"][t].conn)
                  \/ relay'[f] = NoRelay
                       /\ SideOf(f) = "client" /\ relay[f].conn = job["client"][t].conn
BY DEF Starts, StartLocalConn, Run

\* The connection that is started is the newest, and the only one opened.
LEMMA StartsNewest ==
    ASSUME Ground, NEW c \in Proxy, Steady(c), NEW t \in Thread, Starts(t),
           job["client"][t].conn = c
    PROVE  /\ job["client"][t].end = Newcomer(c) /\ Newcomer(c) \in Local
           /\ Newcomer(c) \in Endpoint /\ InUse(c) /\ OpenFor(c)
           /\ ~pconn["client"][c].start
           /\ \A u \in Thread : At("client", u, c, "run") => u = t
<1> USE SideType, Sides, Threads
<1>1. At("client", t, c, "run")
  BY DEF Starts, At
<1>2. OpenFor(c) /\ InUse(c)
  BY <1>1 DEF OpenFor, InUse
<1>3. job["client"][t].end = Newcomer(c)
  BY DEF Steady, Newest, Newcomer, Starts
<1> QED BY <1>1, <1>2, <1>3, InUseRan DEF Steady, Opened

LEMMA CourseStarts ==
    ASSUME Ground, Next, NEW c \in Proxy, Steady(c), NEW t \in Thread, Starts(t),
           job["client"][t].conn = c,
           NEW p \in Public, NEW z \in Local, NEW a \in Stage, NEW b \in Stage,
           Course(c, p, z, a, b)
    PROVE  Course(c, p, z, a, b)'
<1> USE SideType, Sides, Threads
<1>0. TypeOK
  BY GroundFacts
<1>1. EndOf(c, p) /\ EndOf(c, z) /\ p \in Endpoint /\ z \in Endpoint
  BY CourseEnds DEF Steady
<1>2. /\ Direction("client", c, p, z, a) /\ Direction("server", c, z, p, b)
      /\ p = Last(bound[c]) /\ z = Newcomer(c)
  BY DEF Course
<1>3. job["client"][t].end = z /\ InUse(c) /\ b = "unsent"
  BY <1>2, StartsNewest DEF Course
<1>4. /\ job["client"][t].pc = "run" /\ job'["client"][t] = Idle
      /\ \A u \in Side, v \in Thread : u # "client" \/ v # t => job'[u][v] = job[u][v]
      /\ pconn'["client"][c].start
      /\ pconn'["client"][c].half = pconn["client"][c].half
      /\ pconn'["client"][c].recv = pconn["client"][c].recv
      /\ pconn'["client"][c].total = pconn["client"][c].total
      /\ pconn'["server"][c] = pconn["server"][c]
      /\ ctl' = ctl /\ sock' = sock /\ bound' = bound /\ ran' = ran
  BY <1>0, <1>1, <1>3, StartEffect
<1>5. relay'[p] = relay[p]
  BY <1>1, <1>3, StartRelays
<1>6. \A u \in Side, v \in Thread : \A pc \in {"shut", "compare"} :
        At(u, v, c, pc)' => At(u, v, c, pc)
  BY <1>4, JobFields DEF At
<1>7. \A u \in Side : /\ Reports(u, c)' <=> Reports(u, c)
                      /\ Reports(u, c) => job'[u][c].end = job[u][c].end
  BY <1>4, JobFields DEF Reports
<1>8. \A u \in Side : SameCloses(ctl[u], ctl'[u], c)
  BY <1>4 DEF SameCloses
<1>9. Frame("client", c, p, z)
  BY <1>0, <1>1, <1>4, <1>5, <1>6, <1>7, <1>8, EndSteps DEF Frame
<1>10. Direction("client", c, p, z, a)'
  BY <1>2, <1>4, <1>9, DirectionFrame
<1>11. Direction("server", c, z, p, b)'
  BY <1>2, <1>3, <1>4, <1>6, <1>7, <1>8, UnsentKept
<1>12. InUse(c)'
  BY <1>4 DEF InUse
<1> QED BY <1>2, <1>3, <1>4, <1>10, <1>11, <1>12 DEF Course, Newcomer

LEMMA RestStarts ==
    ASSUME Ground, Next, NEW c \in Proxy, Steady(c), NEW t \in Thread, Starts(t),
           job["client"][t].conn = c, Rest(c)
    PROVE  Rest(c)'
<1> USE SideType, Sides, Threads
<1>0. TypeOK
  BY GroundFacts
<1>1. job["client"][t].end = Newcomer(c) /\ InUse(c) /\ Newcomer(c) \in Endpoint
  BY StartsNewest
<1>2. /\ job["client"][t].pc = "run" /\ job'["client"][t] = Idle
      /\ \A u \in Side, v \in Thread : u # "client" \/ v # t => job'[u][v] = job[u][v]
      /\ pconn'["client"][c].start
      /\ pconn'["client"][c].half = pconn["client"][c].half
      /\ pconn'["client"][c].recv = pconn["client"][c].recv
      /\ pconn'["client"][c].total = pconn["client"][c].total
      /\ pconn'["server"][c] = pconn["server"][c]
      /\ ctl' = ctl /\ sock' = sock /\ stream' = stream /\ bound' = bound /\ ran' = ran
  BY <1>0, <1>1, StartEffect
<1>3. \A u \in Side, v \in Thread : ~At(u, v, c, "shut")' /\ ~At(u, v, c, "compare")'
  BY <1>2, JobFields DEF At, Rest
<1>4. \A u \in Side : Reports(u, c)' => Reports(u, c)
  BY <1>2, JobFields DEF Reports
<1>5. \A u \in Side : ~Coming(u, c)'
  BY <1>2, <1>4 DEF Rest, Coming
<1>6. InUse(c)'
  BY <1>2 DEF InUse
<1> QED BY <1>1, <1>2, <1>3, <1>5, <1>6 DEF Rest, Newcomer, Untold

-----------------------------------------------------------------------------
(* The server's Run *)

LEMMA BindConn ==
    ASSUME TypeOK, NEW c \in Proxy, NEW p \in Public, Binds(c, p)
    PROVE  /\ pconn'["server"][c].start /\ pconn'["server"][c].peer = p
           /\ pconn'["server"][c].half = pconn["server"][c].half
           /\ pconn'["server"][c].recv = pconn["server"][c].recv
           /\ pconn'["server"][c].total = pconn["server"][c].total
           /\ pconn'["client"][c] = pconn["client"][c]
           /\ ~pconn["server"][c].start
<1> USE SideType, Sides, Threads
<1>1. Run("server", c, p) /\ ~pconn["server"][c].start
  BY DEF Binds, BindPublicFd
<1>2. SetConn("server", c, [pconn["server"][c] EXCEPT !.start = TRUE, !.peer = p])
  BY <1>1 DEF Run
<1>3. /\ pconn'["server"][c] = [pconn["server"][c] EXCEPT !.start = TRUE, !.peer = p]
      /\ pconn'["client"][c] = pconn["client"][c]
  BY <1>2, ConnAt
<1>4. pconn["server"][c] \in ProxyConnect
  BY DEF TypeOK
<1> QED BY <1>1, <1>3, <1>4 DEF ProxyConnect

\* A public client is bound when a local connection waits for it.
LEMMA BindsInUse ==
    ASSUME Ground, Next, NEW c \in Proxy, Steady(c), NEW p \in Public, Binds(c, p), Rest(c)
    PROVE  /\ InUse(c) /\ Len(bound[c]) + 1 = ran[c]
           /\ stream["client"][c] = <<>>
<1> USE SideType, Sides
<1>0. TypeOK /\ bound[c] \in Seq(Public)
  BY GroundFacts DEF TypeOK
<1>1. Offers(c) \/ Answers(c)
  <2>1. stream["server"][c] # <<>> /\ stream["server"][c] \in Seq(Elem)
    BY <1>0 DEF Binds, TypeOK
  <2>2. Has(stream["server"][c], OfKind(Head(stream["server"][c]).kind))
    BY <2>1, HeadHas
  <2> QED BY <2>2 DEF Binds, Offers, Answers
<1>2. Len(bound[c]) + 1 = ran[c]
  BY <1>1 DEF Steady, Undisturbed, Counts
<1>3. Len(bound[c]) \in Nat
  BY <1>0
<1>4. ran[c] # Len(bound[c])
  BY <1>2, <1>3
<1>5. InUse(c)
  BY <1>4 DEF Rest
<1> QED BY <1>2, <1>5, RestStreams DEF Steady

LEMMA RestBinds ==
    ASSUME Ground, Next, NEW c \in Proxy, Steady(c), NEW p \in Public, Binds(c, p), Rest(c)
    PROVE  InSession(c)'
<1> USE SideType, Sides, Threads
<1>0. TypeOK /\ FdInv /\ Owners /\ Claimed /\ MetaOnce
  BY GroundFacts
<1>01. InUse(c) /\ Newcomer(c) \in Local
  BY BindsInUse, InUseRan
<1> PICK z \in Local : z = Newcomer(c)
  BY <1>01
<1>1. InUse(c)
  BY <1>01
<1>2. UNCHANGED <<job, ran, sock, ctl>>
  BY <1>0, BindsHead
<1>3. /\ pconn'["server"][c].start
      /\ pconn'["server"][c].half = pconn["server"][c].half
      /\ pconn'["server"][c].recv = pconn["server"][c].recv
      /\ pconn'["server"][c].total = pconn["server"][c].total
      /\ pconn'["client"][c] = pconn["client"][c]
  BY <1>0, BindConn
<1>4. bound[c] \in Seq(Public) /\ bound'[c] = Append(bound[c], p)
  BY <1>0, BoundGrows
<1>5. p = Last(bound'[c])
  BY <1>4 DEF Last
<1>6. sock[p].got = <<>> /\ ~sock[p].eof
  BY <1>0, BindsFresh, BindsUnbound DEF Ground, PublicEnds
<1>7. sock[z].got = <<>> /\ ~sock[z].eof
  BY <1>1 DEF Rest
<1>8. z = Newcomer(c)'
  BY <1>2 DEF Newcomer
<1>9. \A s \in Side : /\ ~Coming(s, c)' /\ ~Has(ctl'[s], Closes(c)) /\ ~Reports(s, c)'
                      /\ ~pconn'[s][c].half /\ pconn'[s][c].recv = 0 /\ Untold(pconn'[s][c])
                      /\ \A t \in Thread : ~At(s, t, c, "shut")' /\ ~At(s, t, c, "compare")'
  <2>1. \A s \in Side : ~Coming(s, c)
    BY DEF Rest
  <2>2. \A s \in Side : ~Coming(s, c)'
    BY <1>2, <2>1 DEF Coming, Reports
  <2>3. \A s \in Side : ~Has(ctl'[s], Closes(c)) /\ ~Reports(s, c)'
    BY <2>2 DEF Coming
  <2>4. \A s \in Side : ~pconn'[s][c].half /\ pconn'[s][c].recv = 0 /\ Untold(pconn'[s][c])
    BY <1>3 DEF Rest, Untold
  <2>5. \A s \in Side, t \in Thread : ~At(s, t, c, "shut")' /\ ~At(s, t, c, "compare")'
    BY <1>2 DEF Rest, At
  <2> QED BY <2>2, <2>3, <2>4, <2>5
<1>10. ASSUME NEW s \in Side, NEW e, NEW f, sock'[f].got = <<>>, ~sock'[f].eof
       PROVE  Direction(s, c, e, f, "unsent")'
  <2>1. Other(s) \in Side
    OBVIOUS
  <2>2. Announced(s, c, e, "unsent")'
    BY <1>9, <2>1 DEF Announced, Has, Once
  <2>3. Len(sock'[f].got) = 0
    BY <1>10
  <2>4. Compared(s, c, e, f, "unsent")'
    BY <1>9, <1>10, <2>3 DEF Compared
  <2> QED BY <2>2, <2>4 DEF Direction
<1>11. Direction("client", c, p, z, "unsent")' /\ Direction("server", c, z, p, "unsent")'
  BY <1>2, <1>6, <1>7, <1>10
<1>12. InUse(c)'
  BY <1>1, <1>2, <1>3 DEF InUse, OpenFor, At
<1>13. Course(c, p, z, "unsent", "unsent")'
  BY <1>3, <1>5, <1>8, <1>9, <1>11, <1>12 DEF Course, InOrder
<1> QED BY <1>1, <1>13 DEF InSession, Stage

LEMMA RestNewConn ==
    ASSUME Ground, Next, NEW c \in Proxy, NewProxyConn(c), Rest(c)
    PROVE  Rest(c)'
<1> USE SideType, Sides, Threads
<1>0. TypeOK
  BY GroundFacts
<1>1. /\ SetConn("server", c, NewProxyConnect)
      /\ UNCHANGED <<stream, ctl, sock, job, bound, ran>>
  BY DEF NewProxyConn
<1>2. pconn'["server"][c] = NewProxyConnect /\ pconn'["client"][c] = pconn["client"][c]
  BY <1>0, <1>1, ConnAt
<1>3. \A s \in Side : ~Coming(s, c)'
  BY <1>1 DEF Rest, Coming, Reports
<1>4. \A s \in Side, t \in Thread : ~At(s, t, c, "shut")' /\ ~At(s, t, c, "compare")'
  BY <1>1 DEF Rest, At
<1>5. InUse(c)' <=> InUse(c)
  BY <1>1, <1>2 DEF InUse, OpenFor, At
<1> QED BY <1>1, <1>2, <1>3, <1>4, <1>5 DEF Rest, NewProxyConnect, Untold, Newcomer

-----------------------------------------------------------------------------
\* A step of c's: the session goes on, ends or begins.
LEMMA StageStep ==
    ASSUME Ground, ShortSessions, Next, NEW c \in Proxy, c \notin raced, Steady(c),
           Rest(c) \/ InSession(c)
    PROVE  Rest(c)' \/ InSession(c)'
<1> USE SideType, Sides, Threads
<1>0. TypeOK /\ Undisturbed(c)
  BY GroundFacts DEF Steady
<1>1. CASE Rest(c)
  <2>1. CASE Idles(c)
    BY <1>1, <2>1, RestIdles DEF Steady
  <2>2. CASE HandleProxyNotify(c) \/ HandleProxyConnectReq(c)
    BY <1>1, <2>2, RestOpens
  <2>3. CASE NewProxyConn(c)
    BY <1>1, <2>3, RestNewConn
  <2>4. CASE \E p \in Public : Binds(c, p)
    BY <1>1, <2>4, RestBinds
  <2>5. CASE \E t \in Thread : Starts(t) /\ job["client"][t].conn = c
    BY <1>1, <2>5, RestStarts
  <2>6. \A s \in Side : ~EndsOn(s, c)
    BY <1>0, <1>1, RestNotTold, RestNoCompare, RestNoSplice, RestNoSend, RestNoEof DEF EndsOn
  <2>7. \/ Idles(c) \/ OpensOn("server", c) \/ OpensOn("client", c)
    BY <2>6 DEF Idles, Works
  <2> QED BY <2>1, <2>2, <2>3, <2>4, <2>5, <2>7 DEF OpensOn
<1>2. CASE InSession(c)
  <2> PICK p \in Public, z \in Local, a \in Stage, b \in Stage : Course(c, p, z, a, b)
    BY <1>2 DEF InSession
  <2> DEFINE Remains == Course(c, p, z, a, b)'
  <2>0. Remains => InSession(c)'
    BY DEF InSession
  <2>1. CASE Idles(c)
    BY <1>0, <2>0, <2>1, CourseIdles
  <2>2. ~HandleProxyNotify(c) /\ ~HandleProxyConnectReq(c)
    BY <1>0, CourseNotOpened
  <2>3. ~NewProxyConn(c) /\ ~ \E x \in Public : Binds(c, x)
    <3>1. pconn["server"][c].start
      BY DEF Course
    <3>2. life[c] = "claimed"
      BY <3>1 DEF Ground, Claimed, NotInUse
    <3> QED BY <3>1, <3>2 DEF NewProxyConn, Binds
  <2>4. CASE \E t \in Thread : Starts(t) /\ job["client"][t].conn = c
    BY <2>0, <2>4, CourseStarts
  <2>5. ASSUME NEW s \in Side, EndsOn(s, c)
        PROVE  Rest(c)' \/ InSession(c)'
    <3>1. CASE HandleShutdownPeerConn(s) /\ Head(ctl[s]).conn = c
      BY <3>1, CourseTold
    <3>2. CASE \E t \in Thread : CompareCounts(s, t) /\ job[s][t].conn = c
      BY <2>0, <3>2, CourseCompare
    <3>3. CASE \E t \in Thread : ShutdownFromRemote(s, t) /\ job[s][t].conn = c
      BY <3>3, CourseShut
    <3>4. CASE SplicePayload(s, c)
      BY <2>0, <3>4, CourseSplice
    <3>5. CASE SendShutdown(s, c)
      BY <2>0, <3>5, CourseSend
    <3>6. CASE \E e \in Endpoint : RelayEof(e) /\ relay[e].conn = c /\ SideOf(e) = s
      BY <3>6, CourseEof
    <3> QED BY <2>5, <3>1, <3>2, <3>3, <3>4, <3>5, <3>6 DEF EndsOn
  <2> QED BY <2>1, <2>2, <2>3, <2>4, <2>5 DEF Idles, Works, OpensOn
<1> QED BY <1>1, <1>2

-----------------------------------------------------------------------------
(* What ends a session, and the relay objects *)

\* The session of a connection is over when both directions are: the server
\* resets its ProxyConnect in shutdownFromRemote, the client in
\* shutdownFromLocal.
LEMMA StartFields ==
    ASSUME NEW k \in ProxyConnect
    PROVE  /\ ~k.half => HalfClose(k).start = k.start
           /\ \A n : AddTotalCount(k, n).start = k.start
           /\ \A n : AddRecvCount(k, n).start = k.start
BY DEF HalfClose, AddTotalCount, AddRecvCount, ProxyConnect

\* The conditions of the lemmas below.
Ready(c) == Ground /\ Steady(c) /\ (Rest(c) \/ InSession(c))

LEMMA ReadyFacts ==
    ASSUME NEW c \in Proxy, Ready(c)
    PROVE  /\ Ground /\ TypeOK /\ Steady(c) /\ Undisturbed(c) /\ Newest(c)
           /\ Rest(c) \/ InSession(c)
           /\ pconn["server"][c].start <=> InSession(c)
           /\ pconn["server"][c].start <=> ~Rest(c)
BY GroundFacts DEF Ready, Steady, InSession, Course, Rest

\* In a session, what ends it.
LEMMA StartKept ==
    ASSUME Next, NEW c \in Proxy, c \notin raced, Ready(c)
    PROVE  /\ pconn["server"][c].start =>
                \/ pconn'["server"][c].start
                \/ \E t \in Thread :
                     ShutdownFromRemote("server", t) /\ job["server"][t].conn = c
           /\ pconn["client"][c].start =>
                \/ pconn'["client"][c].start
                \/ \E e \in Endpoint :
                     RelayEof(e) /\ relay[e].conn = c /\ SideOf(e) = "client"
<1> USE SideType, Sides, Threads
<1>0. TypeOK /\ Ground /\ Steady(c) /\ Undisturbed(c)
  BY ReadyFacts
<1>1. ASSUME NEW s \in Side, pconn[s][c].start, ~pconn'[s][c].start
      PROVE  \/ /\ s = "server"
                /\ \E t \in Thread :
                     ShutdownFromRemote("server", t) /\ job["server"][t].conn = c
             \/ /\ s = "client"
                /\ \E e \in Endpoint :
                     RelayEof(e) /\ relay[e].conn = c /\ SideOf(e) = "client"
  <2>0. pconn[s][c] \in ProxyConnect
    BY <1>0 DEF TypeOK
  <2>1. Works(s, c)
    BY <1>0, <1>1, ConnUntouched
  <2>2. ~OpensOn(s, c)
    <3>1. ~HandleProxyNotify(c) /\ ~HandleProxyConnectReq(c)
      BY <1>1, <1>0, OpenEffect
    <3>2. s = "server" => ~NewProxyConn(c) /\ ~ \E p \in Public : Binds(c, p)
      BY <1>0, <1>1 DEF Ground, Claimed, NotInUse, NewProxyConn, Binds
    <3>3. s = "client" => ~ \E t \in Thread : Starts(t) /\ job["client"][t].conn = c
      BY <1>0, <1>1, StartsNewest
    <3> QED BY <3>1, <3>2, <3>3 DEF OpensOn
  <2>3. EndsOn(s, c)
    BY <2>1, <2>2 DEF Works
  <2>4. InSession(c)
    BY <1>0, <2>3, RestNotTold, RestNoCompare, RestNoSplice, RestNoSend, RestNoEof, ReadyFacts
    DEF EndsOn
  <2> PICK p \in Public, z \in Local, a \in Stage, b \in Stage : Course(c, p, z, a, b)
    BY <2>4 DEF InSession
  <2>40. c \in proxyMap
    BY <1>0, CourseEnds
  <2>5. CASE HandleShutdownPeerConn(s) /\ Head(ctl[s]).conn = c
    <3>1. pconn'[s][c] = AddTotalCount(pconn[s][c], Head(ctl[s]).count)
      BY <1>0, <2>5, <2>40, ToldEffect
    <3> QED BY <1>1, <2>0, <3>1, StartFields
  <2>6. CASE \E t \in Thread : CompareCounts(s, t) /\ job[s][t].conn = c
    BY <1>1, <2>6 DEF CompareCounts
  <2>7. CASE \E t \in Thread : ShutdownFromRemote(s, t) /\ job[s][t].conn = c
    <3>1. CASE s = "server"
      BY <2>7, <3>1
    <3>2. CASE s = "client"
      <4> PICK t \in Thread : ShutdownFromRemote(s, t) /\ job[s][t].conn = c
        BY <2>7
      <4>1. /\ EndOf(c, p) /\ EndOf(c, z) /\ p \in Endpoint /\ z \in Endpoint /\ p # z
        BY <1>0, CourseEnds
      <4>2. pconn["client"][c].peer # p
        BY <1>0, <4>1, SessionPeer, ConstantsAssumption DEF Endpoint
      <4>3. a = "told"
        <5>1. Direction("client", c, p, z, a) /\ BothComplete
          BY <1>0, GroundFacts DEF Course
        <5> QED BY <1>0, <3>2, <4>1, <4>2, <5>1, ShutDirection
      <4>4. ~pconn["client"][c].half
        BY <4>3 DEF Course
      <4>5. pconn'["client"][c] = HalfClose(pconn["client"][c])
        BY <1>0, <3>2, ShutEffect
      <4> QED BY <1>1, <2>0, <3>2, <4>4, <4>5, StartFields
    <3> QED BY <3>1, <3>2
  <2>8. CASE SplicePayload(s, c)
    <3>1. \E k : pconn'[s][c] = AddRecvCount(pconn[s][c], k)
      <4>1. \E k \in 1 .. Len(stream[s][c]) : SetConn(s, c, AddRecvCount(pconn[s][c], k))
        BY <2>8 DEF SplicePayload
      <4> QED BY <1>0, <4>1, ConnAt
    <3> QED BY <1>1, <2>0, <3>1, StartFields
  <2>9. CASE SendShutdown(s, c)
    BY <1>1, <2>9 DEF SendShutdown
  <2>10. CASE \E e \in Endpoint : RelayEof(e) /\ relay[e].conn = c /\ SideOf(e) = s
    <3>1. CASE s = "client"
      BY <2>10, <3>1
    <3>2. CASE s = "server"
      <4> PICK e \in Endpoint : RelayEof(e) /\ relay[e].conn = c /\ SideOf(e) = s
        BY <2>10
      <4>1. ~relay[e].closed /\ job[SideOf(e)][c] = Idle
        BY DEF RelayEof, RelayReadable
      <4>2. e = p
        BY <1>0, <3>2, <4>1, ReadingRelay DEF Course
      <4>3. a = "unsent"
        <5>1. ~Reports("server", c)
          BY <3>2, <4>1, JobFields DEF Reports
        <5> QED BY <4>1, <4>2, <5>1 DEF Course, Direction, Announced
      <4>4. ~pconn["server"][c].half
        BY <4>3 DEF Course
      <4>5. pconn'["server"][c] = HalfClose(pconn["server"][c])
        BY <1>0, <2>40, <3>2, EofEffect
      <4> QED BY <1>1, <2>0, <3>2, <4>4, <4>5, StartFields
    <3> QED BY <3>1, <3>2
  <2> QED BY <2>3, <2>5, <2>6, <2>7, <2>8, <2>9, <2>10 DEF EndsOn
<1> QED BY <1>1

\* A local connection that is in use is the newest until its session is over.
LEMMA NewcomerStays ==
    ASSUME Next, NEW c \in Proxy, Ready(c),
           \/ pconn["client"][c].start \/ Reports("client", c) \/ OpenFor(c)
           \/ pconn["server"][c].start
    PROVE  /\ ~HandleProxyNotify(c) /\ ~HandleProxyConnectReq(c)
           /\ ran'[c] = ran[c] /\ Newcomer(c)' = Newcomer(c)
<1> USE SideType, Sides
<1>0. TypeOK /\ Ground /\ Undisturbed(c)
  BY ReadyFacts
<1>1. ~HandleProxyNotify(c) /\ ~HandleProxyConnectReq(c)
  <2>1. CASE InSession(c)
    BY <1>0, <2>1, CourseNotOpened DEF InSession
  <2>2. CASE Rest(c)
    <3>1. ~Reports("client", c) /\ ~pconn["server"][c].start
      BY <2>2 DEF Rest, Coming
    <3> QED BY <1>0, <2>2, <3>1, OpenBetween DEF InUse
  <2> QED BY <2>1, <2>2, ReadyFacts
<1>2. ran'[c] = ran[c]
  BY <1>0, <1>1, RanAt
<1> QED BY <1>1, <1>2 DEF Newcomer

\* A thread that is about to announce an end does that next.
LEMMA FinStays ==
    ASSUME TypeOK, Next, NEW s \in Side, NEW c \in Proxy, job[s][c].pc = "fin",
           ~SendShutdown(s, c)
    PROVE  job'[s][c] = job[s][c]
<1> DEFINE Moves0 == \E u \in Side, v \in Thread : \E k : SetJob(u, v, k) /\ job[u][v].pc # "fin"
           Goal == job'[s][c] = job[s][c]
<1> USE SideType, Sides, Threads
<1>1. job' = job => Goal
  OBVIOUS
<1>2. Moves0 => Goal
  <2>1. ASSUME NEW u \in Side, NEW v \in Thread, NEW k, SetJob(u, v, k), job[u][v].pc # "fin"
        PROVE  Goal
    BY <2>1, JobAt
  <2> QED BY <2>1
<1>3. Idle.pc # "fin"
  BY JobFields
<1>4. ASSUME NEW u \in Side, NEW d \in Proxy, SendShutdown(u, d) PROVE Goal
  <2>1. SetJob(u, d, Idle) /\ (u # s \/ d # c)
    BY <1>4 DEF SendShutdown
  <2> QED BY <2>1, JobAt
<1>5. /\ \A x \in Endpoint : Send(x) \/ Fin(x) \/ RelayPayload(x) => job' = job
      /\ AddWaitProxyConn => job' = job
      /\ \A p \in Public : ReuseProxyConn(p) \/ NotifyClientNeedProxy(p) => job' = job
      /\ \A d \in Proxy : NewProxyConn(d) \/ ClaimProxyConn(d) \/ HandleStartProxyConnRsp(d)
                            => job' = job
      /\ \A u \in Side, d \in Proxy : DropPayload(u, d) \/ ReadnGoesOn(u, d) => job' = job
  BY DEF Send, Fin, RelayPayload, AddWaitProxyConn, ReuseProxyConn, NotifyClientNeedProxy,
         NewProxyConn, ClaimProxyConn, HandleStartProxyConnRsp, DropPayload, ReadnGoesOn
<1>6. ASSUME NEW x \in Endpoint, RelayEof(x) PROVE Goal
  <2>1. relay[x].conn \in Thread /\ SideOf(x) \in Side
    BY <1>6, RelayType DEF RelayEof, RelayReadable, TypeOK
  <2>2. job' = job \/ Moves0
    BY <1>3, <1>6, <2>1 DEF RelayEof, RelayReadable
  <2> HIDE DEF Goal, Moves0
  <2> QED BY <1>1, <1>2, <2>2
<1>7. /\ HandleFreeProxyConnReq => Moves0
      /\ \A d \in Proxy : HandleProxyNotify(d) \/ HandleProxyConnectReq(d) => Moves0
      /\ \A u \in Side : HandleShutdownPeerConn(u) => Moves0 \/ job' = job
      /\ \A u \in Side, t \in Thread : CompareCounts(u, t) \/ ShutdownFromRemote(u, t)
                                         => Moves0
      /\ \A t \in Thread : (\/ FreeProxyConn(t) \/ RecycleProxyConn(t)
                            \/ SendFreeConnReq(t) \/ StartLocalConn(t)) => Moves0
      /\ \A u \in Side, d \in Proxy : SplicePayload(u, d) => Moves0
  <2>1. HandleFreeProxyConnReq => Moves0
    BY <1>3 DEF HandleFreeProxyConnReq, NextCtl
  <2>2. \A d \in Proxy : HandleProxyNotify(d) \/ HandleProxyConnectReq(d) => Moves0
    BY <1>3 DEF HandleProxyNotify, HandleProxyConnectReq, NextCtl, NextMsg, Readable
  <2>3. \A u \in Side : HandleShutdownPeerConn(u) => Moves0 \/ job' = job
    BY <1>3 DEF HandleShutdownPeerConn, NextCtl
  <2>4. \A u \in Side, t \in Thread : CompareCounts(u, t) \/ ShutdownFromRemote(u, t)
                                         => Moves0
    <3>1. ASSUME NEW u \in Side, NEW t \in Thread, CompareCounts(u, t) PROVE Moves0
      BY <1>3, <3>1 DEF CompareCounts
    <3>2. ASSUME NEW u \in Side, NEW t \in Thread, ShutdownFromRemote(u, t) PROVE Moves0
      BY <1>3, <3>2 DEF ShutdownFromRemote
    <3> HIDE DEF Moves0
    <3> QED BY <3>1, <3>2
  <2>5. ASSUME NEW t \in Thread,
               FreeProxyConn(t) \/ RecycleProxyConn(t) \/ SendFreeConnReq(t) \/ StartLocalConn(t)
        PROVE  Moves0
    BY <1>3, <2>5 DEF FreeProxyConn, RecycleProxyConn, SendFreeConnReq, StartLocalConn
  <2>6. \A u \in Side, d \in Proxy : SplicePayload(u, d) => Moves0
    <3>1. ASSUME NEW u \in Side, NEW d \in Proxy, SplicePayload(u, d)
          PROVE  SetJob(u, d, Doing("compare", d)) /\ job[u][d] = Idle
      BY <3>1 DEF SplicePayload, Readable
    <3> QED BY <1>3, <3>1
  <2> HIDE DEF Moves0
  <2> QED BY <2>1, <2>2, <2>3, <2>4, <2>5, <2>6
<1> HIDE DEF Goal, Moves0
<1>8. Goal
  BY <1>1, <1>2, <1>4, <1>5, <1>6, <1>7, NextCases
<1> QED BY <1>8 DEF Goal

LEMMA RelaysStep ==
    ASSUME Next, NEW c \in Proxy, c \notin raced, Ready(c)
    PROVE  Relays(c)'
<1> USE SideType, Sides, Threads
<1>0. TypeOK /\ Ground /\ Steady(c) /\ Relays(c)
  BY ReadyFacts DEF Steady
<1> SUFFICES ASSUME NEW e \in Endpoint, relay'[e].conn = c, ~relay'[e].closed
             PROVE  \/ /\ e = Newcomer(c)'
                       /\ pconn'["client"][c].start \/ Reports("client", c)'
                    \/ e \in Public /\ pconn'["server"][c].start /\ e = Last(bound'[c])
  BY DEF Relays
<1>1. CASE relay[e].conn = c /\ ~relay[e].closed
  <2>1. CASE e = Newcomer(c) /\ (pconn["client"][c].start \/ Reports("client", c))
    <3>1. Newcomer(c)' = Newcomer(c)
      BY <2>1, NewcomerStays
    <3>2. CASE pconn["client"][c].start
      <4>1. CASE \E x \in Endpoint : RelayEof(x) /\ relay[x].conn = c /\ SideOf(x) = "client"
        <5>1. \E x \in Endpoint : job'["client"][c] = Fins(c, x)
          BY <1>0, <4>1, EofEffect
        <5> QED BY <2>1, <3>1, <5>1, JobFields DEF Reports
      <4> QED BY <2>1, <3>1, <3>2, <4>1, StartKept
    <3>3. CASE Reports("client", c)
      <4>1. InSession(c)
        BY <3>3, ReadyFacts DEF Rest, Coming
      <4>2. job["client"][c].end = e
        BY <2>1, <3>3, <4>1 DEF InSession, Course, Direction, Announced
      <4>3. ~SendShutdown("client", c)
        BY <1>0, <4>2, SendEffect
      <4>4. Reports("client", c)'
        BY <1>0, <3>3, <4>3, FinStays DEF Reports
      <4> QED BY <2>1, <3>1, <4>4
    <3> QED BY <2>1, <3>2, <3>3
  <2>2. CASE e \in Public /\ pconn["server"][c].start /\ e = Last(bound[c])
    <3>1. bound'[c] = bound[c]
      BY <1>0, <2>2, BoundGrows DEF Binds
    <3>2. pconn'["server"][c].start
      <4>1. ASSUME NEW t \in Thread, ShutdownFromRemote("server", t), job["server"][t].conn = c
            PROVE  FALSE
        <5>1. \E p \in Public, z \in Local, a \in Stage, b \in Stage : Course(c, p, z, a, b)
          BY <2>2, ReadyFacts DEF InSession
        <5>2. PICK p \in Public, z \in Local : Course(c, p, z, "done", "told")
          BY <1>0, <4>1, <5>1, CourseShut
        <5>3. relay[p].closed /\ p = e
          BY <2>2, <5>2 DEF Course, Direction, Announced, Coming
        <5> QED BY <1>1, <5>3
      <4> QED BY <2>2, <4>1, StartKept
    <3> QED BY <2>2, <3>1, <3>2
  <2> QED BY <1>0, <1>1, <2>1, <2>2 DEF Relays
<1>2. CASE ~(relay[e].conn = c /\ ~relay[e].closed)
  <2>1. CASE \E d \in Proxy : /\ e \in Public /\ Binds(d, e)
                              /\ relay'[e] = [conn |-> d, tran |-> 0, closed |-> FALSE]
    <3>1. e \in Public /\ Binds(c, e)
      BY <2>1
    <3>2. bound[c] \in Seq(Public) /\ bound'[c] = Append(bound[c], e)
      BY <1>0, <3>1, BoundGrows
    <3> QED BY <1>0, <3>1, <3>2, BindConn DEF Last
  <2>2. CASE \E t \in Thread :
               /\ Starts(t) /\ job["client"][t].end = e
               /\ relay'[e] = [conn |-> job["client"][t].conn, tran |-> 0, closed |-> FALSE]
    <3>1. PICK t \in Thread : Starts(t) /\ job["client"][t].end = e /\ job["client"][t].conn = c
      BY <2>2
    <3>2. e = Newcomer(c)
      BY <1>0, <3>1, StartsNewest
    <3>3. pconn'["client"][c].start /\ ran' = ran
      BY <1>0, <3>1, StartEffect
    <3> QED BY <3>2, <3>3 DEF Newcomer
  <2>3. NoRelay.conn # c
    BY DEF NoRelay
  <2> QED BY <1>0, <1>2, <2>1, <2>2, <2>3, RelayKept
<1> QED BY <1>1, <1>2

-----------------------------------------------------------------------------
(* The local connections *)

\* The local connections of c: one that is not yet open has received nothing,
\* the local server closes after it has read EOF, the counts of the units read
\* are right.
LEMMA LocalEndsStep ==
    ASSUME Next, ShortSessions, NEW c \in Proxy, c \notin Eager, c \notin raced, Ready(c)
    PROVE  LocalEnds(c)'
<1> USE SideType, Sides, Threads
<1>0. /\ TypeOK /\ FdInv /\ Owners /\ OwnRuns /\ Peers /\ Ground /\ Steady(c)
      /\ LocalEnds(c) /\ Opened(c)
  BY ReadyFacts, GroundFacts DEF Steady
<1>1. ASSUME NEW i \in 1 .. MaxSession, i > ran'[c]
      PROVE  sock'[<<c, i>>].got = <<>> /\ ~sock'[<<c, i>>].eof
  <2> DEFINE e == <<c, i>>
  <2>1. i > ran[c] /\ i # ran[c]
    <3>1. ran[c] \in Nat /\ (ran'[c] = ran[c] \/ ran'[c] = ran[c] + 1)
      BY <1>0, RanAt
    <3> QED BY <1>1, <3>1
  <2>2. e \in Local /\ e \in Endpoint /\ EndOf(c, e) /\ SideOf(e) = "client" /\ e # Newcomer(c)
    BY <2>1 DEF EndOf, Newcomer
  <2>3. sock[e].got = <<>> /\ ~sock[e].eof
    BY <1>0, <2>1 DEF LocalEnds
  <2>4. pconn["client"][c].peer # e
    <3>1. pconn["client"][c].peer # None => pconn["client"][c].peer = Newcomer(c)
      BY <1>0 DEF Peers, LocalEnds
    <3>2. e # None
      BY <2>2, ConstantsAssumption DEF Local
    <3> QED BY <2>2, <3>1, <3>2
  <2> HIDE DEF e
  <2>5. sock'[e].got = sock[e].got /\ sock'[e].eof = sock[e].eof
    BY <1>0, <2>2, <2>4, EndCalm
  <2> QED BY <2>3, <2>5 DEF e
<1>2. ASSUME NEW i \in 1 .. MaxSession, sock'[<<c, i>>].fin PROVE sock'[<<c, i>>].eof
  <2> DEFINE e == <<c, i>>
  <2>1. e \in Endpoint /\ e \in Local /\ e[1] = c
    OBVIOUS
  <2>2. sock[e].fin => sock[e].eof
    BY <1>0 DEF LocalEnds
  <2>3. Fin(e) => sock[e].eof
    BY <2>1 DEF Fin
  <2>4. sock'[e].fin
    BY <1>2
  <2> HIDE DEF e
  <2>5. sock'[e].eof
    BY <1>0, <2>1, <2>2, <2>3, <2>4, EndSteps DEF SocketKept
  <2> QED BY <2>5 DEF e
<1>3. ASSUME NEW i \in 1 .. MaxSession, relay'[<<c, i>>].conn # None
      PROVE  relay'[<<c, i>>].tran = sock'[<<c, i>>].read
  <2> DEFINE e == <<c, i>>
  <2>1. e \in Endpoint /\ e \in Local /\ e \notin Public /\ e[1] = c /\ relay'[e].conn # None
    BY <1>3
  <2>2. relay[e].conn # None => relay[e].tran = sock[e].read
    BY <1>0 DEF LocalEnds
  <2> HIDE DEF e
  <2>3. CASE RelayPayload(e)
    <3>1. relay[e].conn # None
      BY <2>3 DEF RelayPayload, RelayReadable
    <3>2. relay'[e].tran = sock'[e].read
      BY <1>0, <2>1, <2>2, <2>3, <3>1, RelayCounts
    <3> QED BY <3>2 DEF e
  <2>4. CASE ~RelayPayload(e)
    <3>1. sock'[e].read = sock[e].read
      BY <1>0, <2>1, <2>4, SockSteps
    <3>2. CASE \E t \in Thread :
                 /\ Starts(t) /\ job["client"][t].end = e
                 /\ relay'[e] = [conn |-> job["client"][t].conn, tran |-> 0, closed |-> FALSE]
      <4>1. PICK t \in Thread : /\ Starts(t) /\ job["client"][t].end = e
                                /\ relay'[e].tran = 0
        BY <3>2
      <4>2. job["client"][t].conn = c
        BY <1>0, <2>1, <4>1 DEF Starts, OwnRuns
      <4>3. e = Newcomer(c) /\ OpenFor(c)
        BY <1>0, <4>1, <4>2, StartsNewest
      <4>4. sock[e].read = 0
        BY <1>0, <4>3 DEF Opened
      <4> QED BY <3>1, <4>1, <4>4 DEF e
    <3>3. CASE relay'[e].conn = relay[e].conn /\ relay'[e].tran = relay[e].tran
      <4>1. relay'[e].tran = sock'[e].read
        BY <2>1, <2>2, <3>1, <3>3
      <4> QED BY <4>1 DEF e
    <3>4. relay'[e] = relay[e] => relay'[e].conn = relay[e].conn /\ relay'[e].tran = relay[e].tran
      OBVIOUS
    <3>5. NoRelay.conn = None
      BY DEF NoRelay
    <3> QED BY <1>0, <2>1, <2>4, <3>2, <3>3, <3>4, <3>5, RelayKept
  <2> QED BY <2>3, <2>4
<1>4. ASSUME pconn'["client"][c].start PROVE pconn'["client"][c].peer = Newcomer(c)'
  <2>1. CASE \E t \in Thread : Starts(t) /\ job["client"][t].conn = c
    <3>1. PICK t \in Thread : Starts(t) /\ job["client"][t].conn = c
      BY <2>1
    <3>2. job["client"][t].end = Newcomer(c) /\ Newcomer(c) \in Endpoint
      BY <1>0, <3>1, StartsNewest
    <3>3. PICK z \in Endpoint : z = Newcomer(c)
      BY <3>2
    <3>4. pconn'["client"][c].peer = z /\ ran' = ran
      BY <1>0, <3>1, <3>2, <3>3, StartEffect
    <3> QED BY <3>3, <3>4 DEF Newcomer
  <2>2. CASE Kept(pconn["client"][c], pconn'["client"][c])
    <3>1. pconn["client"][c].start /\ pconn'["client"][c].peer = pconn["client"][c].peer
      BY <1>4, <2>2 DEF Kept
    <3>2. pconn["client"][c].peer = Newcomer(c) /\ Newcomer(c)' = Newcomer(c)
      BY <1>0, <3>1, NewcomerStays DEF LocalEnds
    <3> QED BY <3>1, <3>2
  <2> QED BY <1>0, <2>1, <2>2, ConnSteps
<1> QED BY <1>1, <1>2, <1>3, <1>4 DEF LocalEnds

-----------------------------------------------------------------------------
(* Opened and not yet started *)

LEMMA OpenedOpens ==
    ASSUME NEW c \in Proxy, Ready(c), HandleProxyNotify(c) \/ HandleProxyConnectReq(c)
    PROVE  Opened(c)'
<1> USE SideType, Sides, Threads
<1>0. /\ TypeOK /\ OwnRelays /\ Ground /\ Undisturbed(c) /\ LocalEnds(c) /\ Newest(c)
  BY ReadyFacts, GroundFacts DEF Steady
<1>1. ~pconn["server"][c].start /\ ~pconn["client"][c].start /\ (Rest(c) => ~InUse(c))
  BY <1>0, OpenBetween
<1>2. ~OpenFor(c)
  BY <1>1, ReadyFacts DEF InUse
<1>3. /\ ran[c] < MaxSession /\ ran'[c] = ran[c] + 1
      /\ \A e \in Endpoint : sock'[e].got = sock[e].got /\ sock'[e].read = sock[e].read
      /\ pconn' = pconn /\ relay' = relay
  BY <1>0, OpenEffect
<1> DEFINE e == <<c, ran[c] + 1>>
<1>4. ran[c] \in 0 .. MaxSession
  BY <1>0 DEF TypeOK
<1>5. /\ ran[c] + 1 \in 1 .. MaxSession /\ ran[c] + 1 > ran[c] /\ ~(ran[c] + 1 < ran[c])
      /\ ran[c] + 1 # ran[c]
  BY <1>3, <1>4, ConstantsAssumption
<1>6. e \in Local /\ e \in Endpoint /\ e[1] = c /\ e[2] = ran[c] + 1 /\ Newcomer(c)' = e
  BY <1>3, <1>5 DEF Newcomer
<1>7. sock'[e].read = 0 /\ sock'[e].got = <<>>
  BY <1>0, <1>3, <1>5, <1>6 DEF Newest, LocalEnds
<1>8. relay'[e].conn = None
  BY <1>0, <1>3, <1>5, <1>6 DEF OwnRelays, Newest
<1>9. ASSUME NEW v \in Thread, NEW u \in Thread,
             At("client", v, c, "run")', At("client", u, c, "run")'
      PROVE  v = u
  <2>0. PICK t \in {Main, c} :
          /\ job["client"][t] = Idle
          /\ job'["client"][t] = Runs(c, <<c, ran[c] + 1>>)
          /\ \A x \in Side, w \in Thread :
               x # "client" \/ w # t => job'[x][w] = job[x][w]
    BY <1>0, OpenEffect
  <2>1. \A w \in Thread : w # t => job'["client"][w] = job["client"][w]
    BY <2>0
  <2>2. \A w \in Thread : w # t => ~At("client", w, c, "run")'
    BY <1>2, <2>1 DEF OpenFor, At
  <2> QED BY <1>9, <2>2
<1>10. ~pconn'["client"][c].start
  BY <1>1, <1>3
<1> HIDE DEF e
<1> QED BY <1>6, <1>7, <1>8, <1>9, <1>10 DEF Opened

LEMMA OpenRemains ==
    ASSUME TypeOK, Next, NEW c \in Proxy, ~HandleProxyNotify(c), ~HandleProxyConnectReq(c),
           NEW t \in Thread, At("client", t, c, "run")'
    PROVE  At("client", t, c, "run")
<1> USE SideType
<1> DEFINE k == job'["client"][t]
<1>1. JobStep("client", t, k)
  BY JobSteps
<1>2. k.conn = c /\ k.pc = "run"
  BY DEF At
<1>3. ran'[c] = ran[c] /\ ran[c] \in Nat
  BY RanAt
<1>4. ran \in [Proxy -> 0 .. MaxSession]
  BY DEF TypeOK
<1>5. ran' # [ran EXCEPT ![c] = @ + 1]
  BY <1>3, <1>4
<1> HIDE DEF k
<1>6. k = job["client"][t]
  BY <1>1, <1>2, <1>5, JobCases, JobFields
<1> QED BY <1>2, <1>6 DEF At

\* Between HandleProxyConnectReq and Run the client's ProxyConnect and the new
\* local connection are untouched.
LEMMA OpenedStep ==
    ASSUME Next, NEW c \in Proxy, c \notin raced, Ready(c)
    PROVE  Opened(c)'
<1> USE SideType, Sides, Threads
<1>0. /\ TypeOK /\ FdInv /\ Owners /\ OwnRuns /\ Peers /\ PublicEnds /\ Ground /\ Steady(c)
      /\ Opened(c)
  BY ReadyFacts, GroundFacts DEF Steady
<1>1. CASE HandleProxyNotify(c) \/ HandleProxyConnectReq(c)
  BY <1>1, OpenedOpens
<1>2. ASSUME ~HandleProxyNotify(c), ~HandleProxyConnectReq(c), OpenFor(c)'
      PROVE  Opened(c)'
  <2>1. \A t \in Thread : At("client", t, c, "run")' => At("client", t, c, "run")
    BY <1>0, <1>2, OpenRemains
  <2>2. OpenFor(c)
    BY <1>2, <2>1 DEF OpenFor
  <2>3. ASSUME NEW t \in Thread, Starts(t), job["client"][t].conn = c PROVE FALSE
    <3>1. \A u \in Thread : At("client", u, c, "run") => u = t
      BY <1>0, <2>3, StartsNewest
    <3>2. ~At("client", t, c, "run")'
      <4>1. SetJob("client", t, Idle)
        BY <2>3 DEF Starts, StartLocalConn
      <4>2. job'["client"][t] = Idle
        BY <1>0, <4>1, JobAt
      <4> QED BY <4>2, JobFields DEF At
    <3> QED BY <1>2, <2>1, <3>1, <3>2 DEF OpenFor
  <2>4. /\ ~pconn["client"][c].start
        /\ sock[Newcomer(c)].read = 0 /\ sock[Newcomer(c)].got = <<>>
        /\ relay[Newcomer(c)].conn = None
        /\ \A t, u \in Thread : At("client", t, c, "run") /\ At("client", u, c, "run") => t = u
    BY <1>0, <2>2 DEF Opened
  <2>5. ~pconn'["client"][c].start
    <3>1. Kept(pconn["client"][c], pconn'["client"][c])
      BY <1>0, <2>3, ConnSteps
    <3> QED BY <2>4, <3>1 DEF Kept
  <2>6. Newcomer(c)' = Newcomer(c)
    BY <2>2, NewcomerStays
  <2>7. Newcomer(c) \in Local /\ Newcomer(c) \in Endpoint /\ EndOf(c, Newcomer(c))
    BY <1>0, <2>2, InUseRan DEF InUse
  <2>8. PICK e \in Endpoint : e = Newcomer(c)
    BY <2>7
  <2>9. SideOf(e) = "client" /\ EndOf(c, e)
    BY <2>7, <2>8
  <2>10. sock'[e].got = <<>>
    <3>1. ~SplicePayload("client", c)
      BY <2>4 DEF SplicePayload
    <3> QED BY <1>0, <2>4, <2>8, <2>9, <3>1, EndCalm
  <2>11. relay'[e].conn = None
    BY <1>0, <2>3, <2>4, <2>8, <2>9, RelayCalm
  <2>12. sock'[e].read = 0
    <3>1. ~RelayPayload(e)
      BY <2>4, <2>8 DEF RelayPayload, RelayReadable
    <3> QED BY <1>0, <2>4, <2>8, <3>1, SockSteps
  <2>13. \A t, u \in Thread : At("client", t, c, "run")' /\ At("client", u, c, "run")' => t = u
    BY <2>1, <2>4
  <2> QED BY <2>5, <2>6, <2>8, <2>10, <2>11, <2>12, <2>13 DEF Opened
<1>3. ~OpenFor(c)' => Opened(c)'
  BY DEF Opened
<1> QED BY <1>1, <1>2, <1>3

-----------------------------------------------------------------------------
(* What the public client sent *)

\* The same of what a public client sent, of which the first d are lost.
LEMMA FromConcat ==
    ASSUME NEW got \in Seq(Elem), NEW q \in Seq(Elem), NEW r \in Seq(Elem), NEW e,
           NEW d \in Nat, NEW n \in Nat, CarriesFrom(d, got, q, e, n),
           \A i \in 1 .. Len(r) : r[i] = Data(e, n + i)
    PROVE  CarriesFrom(d, got, q \o r, e, n + Len(r))
<1> DEFINE t == q \o r
<1>0. Len(q) \in Nat /\ Len(r) \in Nat /\ Len(got) \in Nat /\ Len(t) = Len(q) + Len(r)
  OBVIOUS
<1>1. /\ \A i \in 1 .. Len(q) : t[i] = q[i]
      /\ \A i \in 1 .. Len(r) : t[Len(q) + i] = r[i]
  OBVIOUS
<1>2. \A j \in 1 .. Len(q) : q[j] = Data(e, d + Len(got) + j)
  BY DEF CarriesFrom
<1>a. d + Len(got) + Len(q) = n
  BY DEF CarriesFrom
<1> DEFINE a == Len(q)
           b == Len(r)
           g == Len(got)
           l == Len(t)
<1>b. a \in Nat /\ b \in Nat /\ g \in Nat /\ l = a + b /\ d + g + a = n
  BY <1>0, <1>a
<1> HIDE DEF t
<1>3. ASSUME NEW j \in 1 .. l PROVE t[j] = Data(e, d + g + j)
  <2>1. CASE j <= a
    <3>1. j \in 1 .. a
      BY <1>b, <2>1
    <3> QED BY <1>1, <1>2, <3>1
  <2>2. CASE ~(j <= a)
    <3> HIDE DEF a, b, g, l
    <3>1. j - a \in 1 .. b /\ a + (j - a) = j
      BY <1>b, <2>2
    <3>2. n + (j - a) = d + g + j
      BY <1>b, <2>2
    <3>3. t[a + (j - a)] = r[j - a] /\ r[j - a] = Data(e, n + (j - a))
      BY <1>1, <3>1 DEF a, b
    <3> QED BY <3>1, <3>2, <3>3
  <2> QED BY <2>1, <2>2
<1>4. d + g + l = n + b
  <2> HIDE DEF a, b, g, l
  <2> QED BY <1>b
<1>6. \A j \in 1 .. Len(got) : got[j] = Data(e, d + j)
  BY DEF CarriesFrom
<1>5. CarriesFrom(d, got, t, e, n + Len(r))
  BY <1>3, <1>4, <1>6 DEF CarriesFrom
<1> QED BY <1>5 DEF t

LEMMA FromUnread ==
    ASSUME NEW got \in Seq(Elem), NEW q \in Seq(Elem), NEW e, NEW d \in Nat, NEW n \in Nat,
           CarriesFrom(d, got, q, e, n), NEW k \in 1 .. Len(q)
    PROVE  CarriesFrom(d, got \o SubSeq(q, 1, k), Unread(q, k), e, n)
<1> DEFINE h == SubSeq(q, 1, k)
           r == SubSeq(q, k + 1, Len(q))
           t == got \o h
<1>1. /\ Len(q) \in Nat /\ k \in Nat /\ Len(r) = Len(q) - k /\ Len(h) = k
      /\ Len(got) \in Nat
      /\ \A i \in 1 .. Len(r) : r[i] = q[k + i] /\ k + i \in 1 .. Len(q)
      /\ \A i \in 1 .. k : h[i] = q[i] /\ i \in 1 .. Len(q)
      /\ h \in Seq(Elem)
  OBVIOUS
<1>2. /\ d + Len(got) + Len(q) = n
      /\ \A j \in 1 .. Len(got) : got[j] = Data(e, d + j)
      /\ \A j \in 1 .. Len(q) : q[j] = Data(e, d + Len(got) + j)
  BY DEF CarriesFrom
<1>3. /\ Len(t) = Len(got) + k
      /\ \A i \in 1 .. Len(got) : t[i] = got[i]
      /\ \A i \in 1 .. k : t[Len(got) + i] = h[i]
  <2>1. Len(h) = k /\ h \in Seq(Elem)
    BY <1>1
  <2> HIDE DEF h
  <2> QED BY <2>1
<1> HIDE DEF h, r, t
<1>4. ASSUME NEW j \in 1 .. Len(r) PROVE r[j] = Data(e, d + Len(t) + j)
  <2>1. r[j] = Data(e, d + Len(got) + (k + j))
    BY <1>1, <1>2
  <2>2. d + Len(got) + (k + j) = d + Len(t) + j
    BY <1>1, <1>3
  <2> QED BY <2>1, <2>2
<1>5. d + Len(t) + Len(r) = n
  <2>1. /\ Len(q) \in Nat /\ k \in Nat /\ Len(got) \in Nat /\ Len(r) = Len(q) - k
        /\ Len(t) = Len(got) + k /\ d + Len(got) + Len(q) = n
    BY <1>1, <1>2, <1>3
  <2> QED BY <2>1
<1>6. ASSUME NEW j \in 1 .. Len(t) PROVE t[j] = Data(e, d + j)
  <2>1. CASE j <= Len(got)
    BY <1>1, <1>2, <1>3, <1>6, <2>1
  <2>2. CASE ~(j <= Len(got))
    <3>1. j - Len(got) \in 1 .. k /\ Len(got) + (j - Len(got)) = j
          /\ d + Len(got) + (j - Len(got)) = d + j
      BY <1>1, <1>3, <2>2
    <3>3. \A i \in 1 .. k : h[i] = Data(e, d + Len(got) + i)
      BY <1>1, <1>2
    <3>4. \A i \in 1 .. k : t[Len(got) + i] = Data(e, d + Len(got) + i)
      BY <1>3, <3>3
    <3>2. t[j] = Data(e, d + Len(got) + (j - Len(got)))
      BY <3>1, <3>4
    <3> QED BY <3>1, <3>2
  <2> QED BY <2>1, <2>2
<1>8. CarriesFrom(d, t, r, e, n)
  BY <1>4, <1>5, <1>6 DEF CarriesFrom
<1> QED BY <1>8 DEF Unread, h, r, t

LEMMA FromDrop ==
    ASSUME NEW q \in Seq(Elem), q # <<>>, NEW e, NEW d \in Nat, NEW n \in Nat,
           CarriesFrom(d, <<>>, q, e, n)
    PROVE  CarriesFrom(d + 1, <<>>, Tail(q), e, n)
<1>1. /\ d + 0 + Len(q) = n /\ \A j \in 1 .. Len(q) : q[j] = Data(e, d + 0 + j)
  BY DEF CarriesFrom
<1>2. /\ Len(q) \in Nat /\ Len(Tail(q)) = Len(q) - 1
      /\ \A j \in 1 .. Len(Tail(q)) : Tail(q)[j] = q[j + 1] /\ j + 1 \in 1 .. Len(q)
  OBVIOUS
<1>3. ASSUME NEW j \in 1 .. Len(Tail(q)) PROVE Tail(q)[j] = Data(e, (d + 1) + 0 + j)
  <2>1. Tail(q)[j] = Data(e, d + 0 + (j + 1))
    BY <1>1, <1>2
  <2>2. d + 0 + (j + 1) = (d + 1) + 0 + j
    OBVIOUS
  <2> QED BY <2>1, <2>2
<1>4. (d + 1) + 0 + Len(Tail(q)) = n
  BY <1>1, <1>2
<1>5. Len(<<>>) = 0 /\ \A j \in 1 .. Len(<<>>) : FALSE
  OBVIOUS
<1> QED BY <1>3, <1>4, <1>5 DEF CarriesFrom

\* What a step does to the client's end of c, element by element.
LEMMA ArrivalsOut ==
    ASSUME TypeOK, Next, NEW c \in Proxy
    PROVE  \/ stream'["client"][c] = stream["client"][c]
           \/ DropPayload("client", c) \/ ReadnGoesOn("client", c)
           \/ SplicePayload("client", c)
           \/ HandleProxyConnectReq(c)
           \/ \E p \in Public : ReuseProxyConn(p) /\ c = freeList[Len(freeList)]
           \/ \E p \in Public : RelayPayload(p) /\ relay[p].conn = c
<1> USE SideType, Sides
<1> DEFINE Goal ==
           \/ stream'["client"][c] = stream["client"][c]
           \/ DropPayload("client", c) \/ ReadnGoesOn("client", c)
           \/ SplicePayload("client", c)
           \/ HandleProxyConnectReq(c)
           \/ \E p \in Public : ReuseProxyConn(p) /\ c = freeList[Len(freeList)]
           \/ \E p \in Public : RelayPayload(p) /\ relay[p].conn = c
<1>1. ASSUME NEW u \in Side, NEW d \in Proxy, NEW r, stream' = [stream EXCEPT ![u][d] = r],
             u # "client" \/ d # c
      PROVE  Goal
  BY <1>1 DEF TypeOK
<1>2. ASSUME NEW d \in Proxy, ClaimProxyConn(d) \/ HandleStartProxyConnRsp(d)
      PROVE  Goal
  <2>1. stream' = [stream EXCEPT !["server"][d] = Tail(stream["server"][d])]
    BY <1>2 DEF ClaimProxyConn, HandleStartProxyConnRsp, TypeOK
  <2> HIDE DEF Goal
  <2> QED BY <1>1, <2>1
<1>3. ASSUME NEW u \in Side, NEW d \in Proxy, DropPayload(u, d) \/ ReadnGoesOn(u, d) PROVE Goal
  <2>1. stream' = [stream EXCEPT ![u][d] = Tail(stream[u][d])]
    BY <1>3 DEF DropPayload, ReadnGoesOn, TypeOK
  <2> HIDE DEF Goal
  <2>2. u # "client" \/ d # c => Goal
    BY <1>1, <2>1
  <2> QED BY <1>3, <2>2 DEF Goal
<1>4. ASSUME NEW u \in Side, NEW d \in Proxy, SplicePayload(u, d) PROVE Goal
  <2>1. PICK k : stream' = [stream EXCEPT ![u][d] = Unread(stream[u][d], k)]
    BY <1>4 DEF SplicePayload, TypeOK
  <2> HIDE DEF Goal
  <2>2. u # "client" \/ d # c => Goal
    BY <1>1, <2>1
  <2> QED BY <1>4, <2>2 DEF Goal
<1>5. ASSUME NEW d \in Proxy, HandleProxyNotify(d) PROVE Goal
  <2>1. stream' = [stream EXCEPT !["server"][d] = Append(stream["server"][d], MetaSet)]
    BY <1>5 DEF HandleProxyNotify, SendStream, TypeOK
  <2> HIDE DEF Goal
  <2> QED BY <1>1, <2>1
<1>6. ASSUME NEW p \in Public, ReuseProxyConn(p) PROVE Goal
  <2> DEFINE d == freeList[Len(freeList)]
  <2>1. d \in Proxy
    BY <1>6, SeqType DEF ReuseProxyConn, TypeOK
  <2>2. stream' = [stream EXCEPT !["client"][d] = Append(stream["client"][d], ConnectReq(p))]
    BY <1>6, <2>1 DEF ReuseProxyConn, SendStream, TypeOK
  <2> HIDE DEF Goal
  <2>3. d # c => Goal
    <3> HIDE DEF d
    <3> QED BY <1>1, <2>1, <2>2
  <2> QED BY <1>6, <2>3 DEF Goal
<1>7. ASSUME NEW d \in Proxy, HandleProxyConnectReq(d) PROVE Goal
  <2>1. \A u \in Side, b \in Proxy : b # d => stream'[u][b] = stream[u][b]
    BY <1>7, AnswerElsewhere
  <2> QED BY <1>7, <2>1
<1>8. ASSUME NEW e \in Endpoint, RelayPayload(e) PROVE Goal
  <2> DEFINE u == Other(SideOf(e))
             d == relay[e].conn
  <2>1. d \in Proxy /\ u \in Side
    BY <1>8, RelayType DEF RelayPayload, RelayReadable, TypeOK
  <2>2. PICK k : stream' = [stream EXCEPT ![u][d] = stream[u][d] \o
                              [i \in 1 .. k |-> Data(e, sock[e].read + i)]]
    BY <1>8, <2>1 DEF RelayPayload, TypeOK
  <2>3. u = "client" => e \in Public
    OBVIOUS
  <2> HIDE DEF Goal, u, d
  <2>4. u # "client" \/ d # c => Goal
    BY <1>1, <2>1, <2>2
  <2> QED BY <1>8, <2>3, <2>4 DEF Goal, d
<1>9. /\ \A e \in Endpoint : Send(e) \/ Fin(e) \/ RelayEof(e) => stream' = stream
      /\ AddWaitProxyConn \/ HandleFreeProxyConnReq => stream' = stream
      /\ \A p \in Public : NotifyClientNeedProxy(p) => stream' = stream
      /\ \A u \in Side : HandleShutdownPeerConn(u) => stream' = stream
      /\ \A d \in Proxy : NewProxyConn(d) => stream' = stream
      /\ \A u \in Side, t \in Thread : CompareCounts(u, t) \/ ShutdownFromRemote(u, t)
                                          => stream' = stream
      /\ \A t \in Thread : FreeProxyConn(t) \/ RecycleProxyConn(t) \/ SendFreeConnReq(t)
                              => stream' = stream
      /\ \A t \in Thread : StartLocalConn(t) => stream' = stream
      /\ \A u \in Side, d \in Proxy : SendShutdown(u, d) => stream' = stream
  BY DEF Send, Fin, RelayEof, AddWaitProxyConn, NotifyClientNeedProxy, NewProxyConn,
         HandleShutdownPeerConn, ShutdownFromRemote, StartLocalConn,
         HandleFreeProxyConnReq, CompareCounts, FreeProxyConn, RecycleProxyConn,
         SendFreeConnReq, SendShutdown
<1>10. stream' = stream => Goal
  OBVIOUS
<1> HIDE DEF Goal
<1>11. Goal
  BY <1>2, <1>3, <1>4, <1>5, <1>6, <1>7, <1>8, <1>9, <1>10, NextCases
<1> QED BY <1>11 DEF Goal

\* The same of a public client.
LEMMA RelayedOut ==
    ASSUME TypeOK, NEW p \in Public, RelayPayload(p)
    PROVE  LET c == relay[p].conn
           IN  /\ c \in Proxy /\ job["server"][c] = Idle
               /\ \E r \in Seq(Elem) :
                    /\ stream'["client"][c] = stream["client"][c] \o r
                    /\ \A i \in 1 .. Len(r) : r[i] = Data(p, sock[p].read + i)
                    /\ sock'[p].read = sock[p].read + Len(r)
               /\ \A e \in Endpoint : e # p => sock'[e] = sock[e]
               /\ \A e \in Endpoint : sock'[e].got = sock[e].got
               /\ UNCHANGED <<bound, ran, pconn>>
<1> USE SideType, Sides
<1> DEFINE c == relay[p].conn
           fed(k) == [i \in 1 .. k |-> Data(p, sock[p].read + i)]
<1>1. c \in Proxy /\ sock[p] \in Socket /\ job["server"][c] = Idle
  BY RelayType DEF RelayPayload, RelayReadable, TypeOK
<1>2. PICK k \in 1 .. (sock[p].sent - sock[p].read) :
        /\ stream' = [stream EXCEPT !["client"][c] = @ \o fed(k)]
        /\ sock' = [sock EXCEPT ![p].read = @ + k]
  BY DEF RelayPayload
<1>3. sock[p].sent \in 0 .. MaxUnits /\ sock[p].read \in 0 .. MaxUnits
  BY <1>1, SocketType
<1>4. k \in Nat /\ \A i \in 1 .. k : sock[p].read + i \in 1 .. MaxUnits
  BY <1>3, ConstantsAssumption
<1>5. /\ fed(k) \in Seq(Elem) /\ Len(fed(k)) = k
      /\ \A i \in 1 .. Len(fed(k)) : fed(k)[i] = Data(p, sock[p].read + i)
  BY <1>4, ElemType DEF Data
<1> HIDE DEF fed
<1>6. stream'["client"][c] = stream["client"][c] \o fed(k)
  BY <1>1, <1>2 DEF TypeOK
<1>7. sock'[p] = [sock[p] EXCEPT !.read = sock[p].read + k]
      /\ \A e \in Endpoint : e # p => sock'[e] = sock[e]
  BY <1>2 DEF TypeOK
<1>8. sock'[p].read = sock[p].read + k /\ sock'[p].got = sock[p].got
  BY <1>1, <1>7 DEF Socket
<1>9. \A e \in Endpoint : sock'[e].got = sock[e].got
  BY <1>7, <1>8
<1>10. UNCHANGED <<bound, ran, pconn>>
  BY DEF RelayPayload
<1> QED BY <1>1, <1>5, <1>6, <1>7, <1>8, <1>9, <1>10

LEMMA RelayedFrom ==
    ASSUME TypeOK, NEW c \in Proxy, NEW p \in Public, RelayPayload(p), relay[p].conn = c
    PROVE  \E r \in Seq(Elem) :
             /\ stream'["client"][c] = stream["client"][c] \o r
             /\ \A i \in 1 .. Len(r) : r[i] = Data(p, sock[p].read + i)
             /\ sock'[p].read = sock[p].read + Len(r)
BY RelayedOut

LEMMA RelayedGot ==
    ASSUME TypeOK, NEW c \in Proxy, NEW p \in Public, RelayPayload(p), relay[p].conn = c
    PROVE  \A e \in Endpoint : sock'[e].got = sock[e].got
BY RelayedOut

LEMMA SplicedOut ==
    ASSUME TypeOK, NEW c \in Proxy, NEW f \in Endpoint, SplicePayload("client", c),
           pconn["client"][c].peer = f
    PROVE  \E k \in 1 .. Len(stream["client"][c]) :
             /\ stream'["client"][c] = Unread(stream["client"][c], k)
             /\ sock'[f].got = sock[f].got \o SubSeq(stream["client"][c], 1, k)
<1> DEFINE s == "client"
<1>1. s \in Side /\ SplicePayload(s, c) /\ pconn[s][c].peer = f
  BY SideType
<1> HIDE DEF s
<1>2. \E k \in 1 .. Len(stream[s][c]) :
        /\ stream'[s][c] = Unread(stream[s][c], k)
        /\ sock'[f].got = sock[f].got \o SubSeq(stream[s][c], 1, k)
        /\ pconn'[s][c] = AddRecvCount(pconn[s][c], k)
  BY <1>1, SpliceMoves, Zenon
<1> QED BY <1>2, Zenon DEF s

LEMMA CarriedOutBinds ==
    ASSUME Next, NEW c \in Proxy, NEW p \in Public, Binds(c, p), Ready(c)
    PROVE  CarriedOut(c)'
<1> USE SideType, Sides
<1>0. TypeOK /\ FdInv /\ Ground /\ Steady(c) /\ Claimed /\ MetaOnce /\ PublicEnds /\ Rest(c)
  BY ReadyFacts, GroundFacts DEF Binds
<1>1. /\ InUse(c) /\ stream["client"][c] = <<>>
  BY <1>0, BindsInUse
<1>2. sock[Newcomer(c)].got = <<>>
  BY <1>0, <1>1 DEF Rest
<1>3. UNCHANGED <<ran, sock>> /\ stream'["client"][c] = stream["client"][c]
  BY <1>0, BindsHead
<1>4. bound'[c] = Append(bound[c], p) /\ bound[c] \in Seq(Public)
  BY <1>0, BoundGrows
<1>5. Last(bound'[c]) = p
  BY <1>4 DEF Last
<1>6. sock[p].read = 0
  BY <1>0, BindsUnbound DEF PublicEnds
<1>7. Newcomer(c)' = Newcomer(c)
  BY <1>3 DEF Newcomer
<1>8. 0 \in Nat /\ CarriesFrom(0, <<>>, <<>>, p, 0)
  BY DEF CarriesFrom
<1>9. CarriesFrom(0, sock'[Newcomer(c)].got, stream'["client"][c], p, sock'[p].read)
  BY <1>1, <1>2, <1>3, <1>6, <1>8
<1> QED BY <1>2, <1>3, <1>5, <1>7, <1>8, <1>9 DEF CarriedOut

\* What SplicePayload and RelayPayload of the client's direction do to what is
\* on the way; DropPayload loses it only before the client's Run, and
\* ReadnGoesOn only before the first SplicePayload.
LEMMA CarriedOutStep ==
    ASSUME Next, NEW c \in Proxy, c \notin raced, Ready(c)
    PROVE  CarriedOut(c)'
<1> USE SideType, Sides, Threads
<1>0. /\ TypeOK /\ FdInv /\ Owners /\ Claimed /\ Fresh /\ Peers /\ PublicEnds
      /\ Ground /\ Steady(c) /\ Opened(c) /\ CarriedOut(c) /\ LocalEnds(c)
      /\ Undisturbed(c) /\ Flow(c) /\ Counts(c)
  BY ReadyFacts, GroundFacts DEF Steady, Undisturbed
<1>1. CASE \E p \in Public : Binds(c, p)
  BY <1>1, CarriedOutBinds
<1>2. ASSUME ~\E p \in Public : Binds(c, p), pconn'["server"][c].start
      PROVE  CarriedOut(c)'
  <2>1. pconn["server"][c].start
    BY <1>0, <1>2, ConnSteps DEF Kept
  <2>2. PICK p \in Public, z \in Local, a \in Stage, b \in Stage : Course(c, p, z, a, b)
    BY <2>1, ReadyFacts DEF InSession
  <2>3. /\ EndOf(c, p) /\ EndOf(c, z) /\ p \in Endpoint /\ z \in Endpoint
        /\ p = Last(bound[c]) /\ z = Newcomer(c) /\ c \in proxyMap
    BY <1>0, <2>2, CourseEnds DEF Course
  <2>4. /\ bound'[c] = bound[c] /\ Newcomer(c)' = z
        /\ ~HandleProxyNotify(c) /\ ~HandleProxyConnectReq(c)
    BY <1>0, <2>1, <2>3, StartedSame
  <2> DEFINE q == stream["client"][c]
             n == sock[p].read
             got == sock[z].got
             Q == stream'["client"][c]
             N == sock'[p].read
             G == sock'[z].got
  <2>12. /\ <<"client", c>> \in held => got = <<>>
         /\ \E d \in Nat : CarriesFrom(d, got, q, p, n)
    BY <1>0, <2>1, <2>3 DEF CarriedOut
  <2>5. PICK d \in Nat : CarriesFrom(d, got, q, p, n)
    BY <2>12
  <2>6. q \in Seq(Elem) /\ got \in Seq(Elem) /\ n \in Nat
    BY <1>0, <2>3, SocketTypes, ConnTypes
  <2>13. ASSUME DropPayload("client", c)
         PROVE  q # <<>> /\ Q = Tail(q) /\ sock' = sock /\ got = <<>>
    <3>1. q # <<>> /\ ~pconn["client"][c].start /\ sock' = sock
      BY <2>13 DEF DropPayload, NextMsg, Readable
    <3>2. Q = Tail(q)
      BY <1>0, <2>13 DEF DropPayload, TypeOK
    <3>3. InUse(c)
      <4>1. ASSUME ~InUse(c) PROVE FALSE
        <5>1. b # "unsent"
          BY <2>2, <4>1 DEF Course
        <5>2. a = "done"
          BY <2>2, <5>1 DEF Course, InOrder
        <5> QED BY <1>0, <2>2, <3>1, <5>2, NothingLeft
      <4> QED BY <4>1
    <3>4. got = <<>>
      BY <1>0, <2>3, <3>1, <3>3 DEF InUse, Opened
    <3> QED BY <3>1, <3>2, <3>4
  <2>14. <<"client", c>> \in held' => G = <<>>
    <3>1. CASE DropPayload("client", c)
      BY <2>13, <3>1
    <3>2. CASE ~DropPayload("client", c) /\ <<"client", c>> \in held
      <4>1. ~SplicePayload("client", c)
        BY <3>2 DEF SplicePayload, Readable
      <4>2. G = got
        BY <1>0, <2>3, <4>1, EndCalm
      <4> QED BY <2>12, <3>2, <4>2
    <3>3. CASE ~DropPayload("client", c) /\ <<"client", c>> \notin held
      BY <3>3, HeldStep
    <3> QED BY <3>1, <3>2, <3>3
  <2>7. SUFFICES \E k \in Nat : CarriesFrom(k, G, Q, p, N)
    BY <2>3, <2>4, <2>14 DEF CarriedOut
  <2>8. CASE SplicePayload("client", c)
    <3>1. pconn["client"][c].peer = z
      BY <1>0, <2>3, <2>8 DEF SplicePayload, LocalEnds
    <3>2. \E m \in 1 .. Len(q) : Q = Unread(q, m) /\ G = got \o SubSeq(q, 1, m)
      BY <1>0, <2>3, <2>8, <3>1, SplicedOut
    <3>3. N = n
      BY <1>0, <2>3, <2>8, Spliced
    <3> HIDE DEF q, n, got, Q, N, G
    <3> QED BY <2>5, <2>6, <3>2, <3>3, FromUnread
  <2>9. ASSUME NEW x \in Public, RelayPayload(x), relay[x].conn = c
        PROVE  \E k \in Nat : CarriesFrom(k, G, Q, p, N)
    <3>1. x = p
      <4>1. ~relay[x].closed /\ job[SideOf(x)][c] = Idle /\ x \in Endpoint
        BY <2>9 DEF RelayPayload, RelayReadable
      <4> QED BY <1>0, <2>3, <2>9, <4>1, ReadingRelay
    <3>4. PICK r \in Seq(Elem) :
            /\ stream'["client"][c] = stream["client"][c] \o r
            /\ \A i \in 1 .. Len(r) : r[i] = Data(x, sock[x].read + i)
            /\ sock'[x].read = sock[x].read + Len(r)
      BY <1>0, <2>9, RelayedFrom
    <3>2. Q = q \o r /\ N = n + Len(r) /\ \A i \in 1 .. Len(r) : r[i] = Data(p, n + i)
      BY <3>1, <3>4
    <3>5. \A e \in Endpoint : sock'[e].got = sock[e].got
      BY <1>0, <2>9, RelayedGot
    <3>3. G = got
      BY <2>3, <3>5
    <3> HIDE DEF q, n, got, Q, N, G
    <3> QED BY <2>5, <2>6, <3>2, <3>3, FromConcat
  <2>10. CASE DropPayload("client", c) \/ ReadnGoesOn("client", c)
    <3>1. ASSUME ReadnGoesOn("client", c)
          PROVE  q # <<>> /\ Q = Tail(q) /\ sock' = sock /\ got = <<>>
      <4>1. q # <<>> /\ sock' = sock /\ <<"client", c>> \in held
        BY <3>1 DEF ReadnGoesOn
      <4>2. Q = Tail(q)
        BY <1>0, <3>1 DEF ReadnGoesOn, TypeOK
      <4> QED BY <2>12, <4>1, <4>2
    <3>2. q # <<>> /\ Q = Tail(q) /\ sock' = sock /\ got = <<>>
      BY <2>10, <2>13, <3>1
    <3>3. G = <<>> /\ N = n /\ d + 1 \in Nat
      BY <3>2
    <3> HIDE DEF q, n, got, Q, N, G
    <3> QED BY <2>5, <2>6, <3>2, <3>3, FromDrop
  <2>11. ASSUME ~SplicePayload("client", c), ~DropPayload("client", c),
                ~ReadnGoesOn("client", c),
                ~\E x \in Public : RelayPayload(x) /\ relay[x].conn = c
         PROVE  \E k \in Nat : CarriesFrom(k, G, Q, p, N)
    <3>1. G = got
      BY <1>0, <2>3, <2>11, EndCalm
    <3>2. N = n
      <4>1. ~RelayPayload(p)
        <5>1. ASSUME RelayPayload(p) PROVE FALSE
          <6>1. relay[p].conn \in Proxy
            BY <1>0, <2>3, <5>1, RelayType DEF RelayPayload, RelayReadable, TypeOK
          <6>2. EndOf(relay[p].conn, p)
            BY <1>0, <6>1 DEF PublicEnds, EndOf
          <6>3. relay[p].conn = c
            BY <1>0, <2>3, <6>1, <6>2, EndsApart
          <6> QED BY <2>11, <5>1, <6>3
        <5> QED BY <5>1
      <4> QED BY <1>0, <2>3, <4>1, SockSteps
    <3>3. ASSUME NEW x \in Public, ReuseProxyConn(x), c = freeList[Len(freeList)] PROVE FALSE
      <4>1. freeList \in Seq(Proxy) /\ freeList # <<>>
        BY <1>0, <3>3 DEF TypeOK, ReuseProxyConn
      <4>2. Free(c)
        BY <3>3, <4>1, OncePopBack DEF Free
      <4> QED BY <1>0, <2>3, <4>2 DEF Flow
    <3>4. Q = q
      BY <1>0, <2>4, <2>11, <3>3, ArrivalsOut
    <3> QED BY <2>5, <3>1, <3>2, <3>4
  <2> QED BY <2>8, <2>9, <2>10, <2>11
<1> QED BY <1>1, <1>2 DEF CarriedOut

-----------------------------------------------------------------------------
(* The sessions that are over *)

LEMMA AheadStep ==
    ASSUME Next, NEW c \in Proxy, Ready(c), Ahead(c)
    PROVE  Ahead(c)'
<1>0. TypeOK /\ Ground /\ Steady(c)
  BY ReadyFacts
<1>1. /\ bound[c] \in Seq(Public) /\ Len(bound[c]) \in Nat /\ ran[c] \in Nat
      /\ ran'[c] = ran[c] \/ ran'[c] = ran[c] + 1
  <2>1. bound[c] \in Seq(Public) /\ ran[c] \in Nat
    BY <1>0 DEF TypeOK
  <2>2. Len(bound[c]) \in Nat
    BY <2>1
  <2>3. ran'[c] = ran[c] \/ ran'[c] = ran[c] + 1
    BY <1>0, RanAt
  <2> QED BY <2>1, <2>2, <2>3
<1>2. CASE bound'[c] = bound[c]
  BY <1>1, <1>2 DEF Ahead
<1>3. ASSUME NEW p \in Public, Binds(c, p), bound'[c] = Append(bound[c], p)
      PROVE  Ahead(c)'
  <2>1. Rest(c)
    BY <1>3, ReadyFacts DEF Binds
  <2>2. Len(bound[c]) + 1 = ran[c]
    BY <1>0, <1>3, <2>1, BindsInUse
  <2>3. Len(bound'[c]) = Len(bound[c]) + 1
    BY <1>1, <1>3
  <2> QED BY <1>1, <2>2, <2>3 DEF Ahead
<1> QED BY <1>0, <1>2, <1>3, BoundGrows

\* All that e sent, in order.
LEMMA Delivered ==
    ASSUME NEW e, NEW f, sock[e].fin, sock[e].sent \in 0 .. MaxUnits,
           sock[f].got \in Seq(Elem),
           Len(sock[f].got) = sock[e].sent,
           \A j \in 1 .. Len(sock[f].got) : sock[f].got[j] = Data(e, j)
    PROVE  AllDelivered(e, f)
<1> DEFINE n == sock[e].sent
<1>1. \A j \in 1 .. n : j \in 1 .. MaxUnits /\ sock[f].got[j] = Data(e, j)
  BY ConstantsAssumption
<1>2. \A i, j : Data(e, i) = Data(e, j) => i = j
  BY DEF Data
<1>3. {i \in 1 .. MaxUnits : \E j \in 1 .. n : sock[f].got[j] = Data(e, i)} = 1 .. n
  <2> HIDE DEF n
  <2> QED BY <1>1, <1>2
<1> QED BY <1>3 DEF AllDelivered

LEMMA AllDeliveredKept ==
    ASSUME TypeOK, Next, NEW e \in Endpoint, NEW f \in Endpoint, AllDelivered(e, f),
           sock'[f].got = sock[f].got
    PROVE  AllDelivered(e, f)'
<1>1. SocketKept(sock[e], sock'[e])
  BY EndSteps
<1>2. sock'[e].fin /\ sock'[e].sent = sock[e].sent
  BY <1>1 DEF SocketKept, AllDelivered
<1> QED BY <1>2 DEF AllDelivered

\* What is over stays as it is.
LEMMA PastKept ==
    ASSUME Next, NEW c \in Proxy, Ready(c), Ahead(c), NEW i \in 1 .. Len(bound[c]),
           i < Len(bound[c]) \/ ~pconn["server"][c].start, Whole(<<c, i>>)
    PROVE  Whole(<<c, i>>)'
<1> USE SideType, Sides, Threads
<1>0. /\ TypeOK /\ FdInv /\ Owners /\ Peers /\ Ground /\ Undisturbed(c) /\ LocalEnds(c)
  BY ReadyFacts, GroundFacts DEF Steady
<1>1. /\ bound[c] \in Seq(Public) /\ Len(bound[c]) \in Nat /\ i \in Nat /\ i <= Len(bound[c])
      /\ ran[c] \in 0 .. MaxSession
  BY <1>0 DEF TypeOK
<1>2. i \in 1 .. MaxSession
  BY <1>1, ConstantsAssumption DEF Ahead
<1>20. <<c, i>> \in Local /\ bound[c][i] \in Public
  BY <1>1, <1>2
<1>21. PICK z \in Local : z = <<c, i>>
  BY <1>20
<1>22. PICK p \in Public : p = bound[c][i]
  BY <1>20
<1>3. /\ z \in Local /\ z \in Endpoint /\ EndOf(c, z) /\ SideOf(z) = "client"
      /\ z[1] = c /\ z[2] = i
  BY <1>2, <1>21 DEF EndOf
<1>4. p \in Public /\ p \in Endpoint /\ EndOf(c, p) /\ SideOf(p) = "server"
  <2>2. Has(bound[c], {p})
    BY <1>22 DEF Has
  <2> QED BY <2>2 DEF EndOf
<1>5. bound'[c][i] = p
  <2>1. CASE bound'[c] = bound[c]
    BY <1>22, <2>1
  <2>2. ASSUME NEW x \in Public, bound'[c] = Append(bound[c], x) PROVE bound'[c][i] = p
    BY <1>1, <1>22, <2>2
  <2> QED BY <1>0, <2>1, <2>2, BoundGrows
<1>6. PublicEnd(z) = p /\ PublicEnd(z)' = p
  BY <1>3, <1>5, <1>22 DEF PublicEnd
<1>7. pconn["client"][c].peer # z
  <2>1. ASSUME pconn["client"][c].peer = z PROVE FALSE
    <3>1. pconn["client"][c].start
      BY <1>0, <1>3, <2>1, ConstantsAssumption DEF Peers, Local
    <3>2. i = ran[c]
      BY <1>0, <1>3, <2>1, <3>1 DEF LocalEnds, Newcomer
    <3>3. CASE Rest(c)
      <4>1. ran[c] # Len(bound[c])
        BY <3>1, <3>3 DEF Rest, InUse
      <4> QED BY <1>1, <3>2, <4>1 DEF Ahead
    <3>4. CASE InSession(c)
      <4>1. ran[c] = Len(bound[c]) /\ pconn["server"][c].start
        BY <1>0, <3>4, CourseEnds DEF InSession, Course
      <4> QED BY <1>1, <3>2, <4>1
    <3> QED BY <3>3, <3>4, ReadyFacts
  <2> QED BY <2>1
<1>8. pconn["server"][c].peer # p
  <2>1. ASSUME pconn["server"][c].peer = p PROVE FALSE
    <3>1. pconn["server"][c].start
      BY <1>0, <1>4, <2>1, ConstantsAssumption DEF Peers
    <3>2. p = Last(bound[c]) /\ bound[c] # <<>>
      BY <1>0, <2>1, <3>1 DEF Owners, OwnPeers
    <3>3. Once(bound[c], {Last(bound[c])})
      BY <1>0, <1>4, <3>2, BoundApart
    <3>4. i = Len(bound[c])
      BY <1>1, <1>22, <3>2, <3>3, LastHas
    <3> QED BY <1>1, <3>1, <3>4
  <2> QED BY <2>1
<1>9. /\ sock'[z].got = sock[z].got /\ sock'[z].eof = sock[z].eof
      /\ sock'[p].got = sock[p].got /\ sock'[p].eof = sock[p].eof
  BY <1>0, <1>3, <1>4, <1>7, <1>8, EndCalm
<1>10. Whole(z)
  BY <1>21
<1>11. /\ sock'[z].eof => AllDelivered(p, z)'
       /\ sock'[p].eof => AllDelivered(z, p)'
  <2>1. sock[z].eof => AllDelivered(p, z)
    BY <1>6, <1>10 DEF Whole, FinAfterData
  <2>2. sock[p].eof => AllDelivered(z, p)
    BY <1>6, <1>10 DEF Whole, FinAfterData
  <2> QED BY <1>0, <1>3, <1>4, <1>9, <2>1, <2>2, AllDeliveredKept
<1>12. PayloadOnly(z)'
  BY <1>9, <1>10 DEF Whole, PayloadOnly
<1>13. Whole(z)'
  BY <1>6, <1>11, <1>12 DEF Whole, FinAfterData
<1> QED BY <1>13, <1>21

\* When the session is over, all that either end sent has been delivered.
LEMMA SessionOver ==
    ASSUME Next, NEW c \in Proxy, c \notin raced, Ready(c),
           pconn["server"][c].start, ~pconn'["server"][c].start,
           NEW n, n = Len(bound[c])
    PROVE  Whole(<<c, n>>)'
<1> USE SideType, Sides, Threads
<1>0. /\ TypeOK /\ FdInv /\ Ground /\ Steady(c) /\ Undisturbed(c)
      /\ Owners /\ Claimed /\ Fresh /\ BothComplete
  BY ReadyFacts, GroundFacts
<1>1. PICK t \in Thread : ShutdownFromRemote("server", t) /\ job["server"][t].conn = c
  BY StartKept
<1>2. \E p \in Public, z \in Local, a \in Stage, b \in Stage : Course(c, p, z, a, b)
  BY ReadyFacts DEF InSession
<1>3. PICK p \in Public, z \in Local : Course(c, p, z, "done", "told")
  BY <1>0, <1>1, <1>2, CourseShut
<1>4. /\ p \in Endpoint /\ z \in Endpoint /\ z = <<c, ran[c]>> /\ ran[c] = Len(bound[c])
      /\ bound[c] \in Seq(Public) /\ bound[c] # <<>> /\ bound[c][ran[c]] = p
      /\ ran[c] \in 1 .. MaxSession
  BY <1>0, <1>3, CourseEnds
<1>5. ran[c] \in 1 .. Len(bound[c])
  BY <1>4
<1>6. /\ bound' = bound
      /\ \A f \in Endpoint : sock'[f].got = sock[f].got
  BY <1>0, <1>1, ShutEffect
<1>7. /\ sock[z].got \in Seq(Elem) /\ sock[p].got \in Seq(Elem)
      /\ sock[z].sent \in 0 .. MaxUnits /\ sock[p].sent \in 0 .. MaxUnits
  BY <1>0, <1>4, SocketTypes
<1>8. Direction("client", c, p, z, "done") /\ Direction("server", c, z, p, "told")
  BY <1>3 DEF Course
<1>9. AllDelivered(p, z) /\ PayloadOnly(z)
  <2>1. /\ stream["client"][c] = <<>>
        /\ CarriesFrom(0, sock[z].got, stream["client"][c], p, sock[p].read)
    BY <1>0, <1>3, NothingLeft
  <2>2. \A j \in 1 .. Len(sock[z].got) : sock[z].got[j] = Data(p, j)
    BY <2>1 DEF CarriesFrom
  <2>3. sock[p].fin /\ Len(sock[z].got) = sock[p].sent
    BY <1>8 DEF Direction, Announced, Compared, Ended
  <2>4. AllDelivered(p, z)
    BY <1>7, <2>2, <2>3, Delivered
  <2>5. \A j : Data(p, j).kind = "data"
    BY DEF Data
  <2> QED BY <2>2, <2>4, <2>5 DEF PayloadOnly
<1>10. AllDelivered(z, p)
  <2>1. PrefixOf(sock[p].got, z)
    BY <1>0, <1>4, <1>5 DEF Undisturbed, Received
  <2>2. \A j \in 1 .. Len(sock[p].got) : sock[p].got[j] = Data(z, j)
    BY <2>1 DEF PrefixOf
  <2>3. sock[z].fin
    BY <1>8 DEF Direction, Announced, Ended
  <2>4. At("server", t, c, "shut")
    BY <1>1 DEF At, ShutdownFromRemote
  <2>5. Len(sock[p].got) = sock[z].sent
    BY <1>8, <2>4 DEF Direction, Compared
  <2> QED BY <1>7, <2>2, <2>3, <2>5, Delivered
<1>11. AllDelivered(p, z)' /\ AllDelivered(z, p)'
  BY <1>0, <1>4, <1>6, <1>9, <1>10, AllDeliveredKept
<1>12. PublicEnd(z)' = p
  BY <1>4, <1>6 DEF PublicEnd
<1>13. PayloadOnly(z)'
  BY <1>4, <1>6, <1>9 DEF PayloadOnly
<1>15. z = <<c, n>>
  BY <1>4
<1>14. Whole(z)'
  BY <1>11, <1>12, <1>13 DEF Whole, FinAfterData
<1> QED BY <1>14, <1>15

LEMMA PastStep ==
    ASSUME Next, NEW c \in Proxy, c \notin raced, Ready(c), Ahead(c), Past(c)
    PROVE  Past(c)'
<1> USE SideType, Sides, Threads
<1>0. /\ TypeOK /\ FdInv /\ Ground /\ Steady(c) /\ Undisturbed(c)
      /\ Owners /\ Claimed /\ Fresh
  BY ReadyFacts, GroundFacts
<1>1. bound[c] \in Seq(Public)
  BY <1>0 DEF TypeOK
<1> SUFFICES ASSUME NEW i \in 1 .. Len(bound'[c]),
                    i < Len(bound'[c]) \/ ~pconn'["server"][c].start
             PROVE  Whole(<<c, i>>)'
  BY DEF Past
<1>2. CASE i \in 1 .. Len(bound[c]) /\ (i < Len(bound[c]) \/ ~pconn["server"][c].start)
  <2>1. Whole(<<c, i>>)
    BY <1>2 DEF Past
  <2> QED BY <1>2, <2>1, PastKept
<1>3. CASE i \in 1 .. Len(bound[c]) /\ ~(i < Len(bound[c])) /\ pconn["server"][c].start
  <2>1. i = Len(bound[c])
    BY <1>1, <1>3
  <2>2. bound'[c] = bound[c]
    BY <1>0, <1>3, StartedSame DEF Undisturbed
  <2>3. ~pconn'["server"][c].start
    BY <1>3, <2>2
  <2> QED BY <1>3, <2>1, <2>3, SessionOver
<1>4. CASE i \notin 1 .. Len(bound[c])
  <2>1. bound'[c] # bound[c]
    BY <1>4
  <2>2. PICK p \in Public : Binds(c, p) /\ bound'[c] = Append(bound[c], p)
    BY <1>0, <2>1, BoundGrows
  <2>3. pconn'["server"][c].start
    BY <1>0, <2>2, BindConn
  <2>4. Len(bound'[c]) = Len(bound[c]) + 1 /\ Len(bound[c]) \in Nat
    BY <1>1, <2>2
  <2> QED BY <1>4, <2>3, <2>4
<1> QED BY <1>2, <1>3, <1>4

-----------------------------------------------------------------------------
(* The invariant *)

\* The invariant of SessionsIntact.
JInv ==
    /\ SInv /\ Peers /\ ReadSent /\ PublicEnds
    /\ \A c \in Proxy : c \notin Eager \cup raced => Orderly(c)

LEMMA InitIntact == Init => JInv
<1> SUFFICES ASSUME Init PROVE JInv
  OBVIOUS
<1> USE SideType, Sides, Threads
<1>1. SInv
  BY InitSessions
<1>2. /\ \A s \in Side, c \in Proxy :
           /\ stream[s][c] = <<>> /\ ~pconn[s][c].start /\ ~pconn[s][c].half
           /\ pconn[s][c].recv = 0 /\ pconn[s][c].total = NoTotal
           /\ pconn[s][c].peer = None
      /\ \A s \in Side : ctl[s] = <<>>
      /\ \A s \in Side, t \in Thread : job[s][t] = Idle
      /\ \A e \in Endpoint : /\ relay[e].conn = None
                             /\ sock[e].got = <<>> /\ sock[e].read = 0 /\ sock[e].sent = 0
                             /\ ~sock[e].fin /\ ~sock[e].eof
      /\ \A c \in Proxy : bound[c] = <<>> /\ ran[c] = 0
  BY DEF Init, NewProxyConnect, NoRelay, NewSocket
<1>3. \A V : ~Has(<<>>, V)
  BY DEF Has
<1>4. Peers /\ ReadSent /\ PublicEnds
  BY <1>2 DEF Peers, ReadSent, PublicEnds
<1>5. ASSUME NEW c \in Proxy PROVE Orderly(c)
  <2>1. ran[c] = 0 /\ bound[c] = <<>> /\ Len(bound[c]) = 0
    BY <1>2
  <2>2. \A s \in Side, t \in Thread : \A pc \in {"compare", "shut", "run"} : ~At(s, t, c, pc)
    BY <1>2, JobFields DEF At
  <2>3. ~InUse(c) /\ ~OpenFor(c)
    BY <1>2, <2>2 DEF InUse, OpenFor
  <2>4. \A s \in Side : ~Coming(s, c)
    BY <1>2, <1>3, JobFields DEF Coming, Reports
  <2>5. Rest(c)
    BY <1>2, <1>3, <2>1, <2>2, <2>3, <2>4 DEF Rest, Untold
  <2>6. Relays(c)
    BY <1>2, ConstantsAssumption DEF Relays
  <2>7. \A i \in 1 .. MaxSession : <<c, i>> \in Endpoint
    OBVIOUS
  <2>8. LocalEnds(c)
    BY <1>2, <2>7 DEF LocalEnds
  <2>9. Opened(c) /\ CarriedOut(c)
    BY <1>2, <2>3 DEF Opened, CarriedOut
  <2>10. Past(c) /\ Ahead(c)
    BY <2>1 DEF Past, Ahead
  <2> QED BY <2>5, <2>6, <2>8, <2>9, <2>10 DEF Orderly
<1> QED BY <1>1, <1>4, <1>5 DEF JInv

LEMMA StutterIntact ==
    ASSUME JInv, UNCHANGED vars, SInv'
    PROVE  JInv'
<1> USE DEF vars
<1>1. Peers' /\ ReadSent' /\ PublicEnds'
  BY DEF JInv, Peers, ReadSent, PublicEnds, IsBound, Has
<1>2. ASSUME NEW c \in Proxy, Rest(c) PROVE Rest(c)'
  BY <1>2 DEF Rest, Coming, Reports, Has, Untold, At, InUse, OpenFor, Newcomer
<1>3. ASSUME NEW c \in Proxy, InSession(c) PROVE InSession(c)'
  <2>1. PICK p \in Public, z \in Local, a \in Stage, b \in Stage : Course(c, p, z, a, b)
    BY <1>3 DEF InSession
  <2>2. Direction("client", c, p, z, a)'
    BY <2>1 DEF Course, Direction, Announced, Compared, Coming, Reports, Has, Once, Ended,
                Untold, At
  <2>3. Direction("server", c, z, p, b)'
    BY <2>1 DEF Course, Direction, Announced, Compared, Coming, Reports, Has, Once, Ended,
                Untold, At
  <2>4. /\ InUse(c)' <=> InUse(c)
        /\ Newcomer(c)' = Newcomer(c)
        /\ \A k \in Side : Untold(pconn[k][c]) => Untold(pconn'[k][c])
    BY DEF InUse, OpenFor, At, Newcomer, Untold
  <2>5. Course(c, p, z, a, b)'
    BY <2>1, <2>2, <2>3, <2>4, Sides DEF Course
  <2> QED BY <2>5 DEF InSession
<1>4. ASSUME NEW c \in Proxy, Relays(c), LocalEnds(c), Opened(c), CarriedOut(c)
      PROVE  Relays(c)' /\ LocalEnds(c)' /\ Opened(c)' /\ CarriedOut(c)'
  BY <1>4 DEF Relays, LocalEnds, Opened, CarriedOut, OpenFor, At, Newcomer, Reports,
              CarriesFrom
<1>5. ASSUME NEW c \in Proxy, Past(c), Ahead(c) PROVE Past(c)' /\ Ahead(c)'
  <2>1. Past(c)'
    <3> SUFFICES ASSUME NEW i \in 1 .. Len(bound'[c]),
                        i < Len(bound'[c]) \/ ~pconn'["server"][c].start
                 PROVE  Whole(<<c, i>>)'
      BY DEF Past
    <3> DEFINE z == <<c, i>>
    <3>1. Whole(z)
      BY <1>5 DEF Past
    <3>2. PublicEnd(z)' = PublicEnd(z)
      BY DEF PublicEnd
    <3> HIDE DEF z
    <3>3. /\ AllDelivered(PublicEnd(z), z)' <=> AllDelivered(PublicEnd(z), z)
          /\ AllDelivered(z, PublicEnd(z))' <=> AllDelivered(z, PublicEnd(z))
      BY <3>2 DEF AllDelivered
    <3>4. PayloadOnly(z)' <=> PayloadOnly(z)
      BY DEF PayloadOnly
    <3>5. Whole(z)'
      BY <3>1, <3>2, <3>3, <3>4 DEF Whole, FinAfterData
    <3> QED BY <3>5 DEF z
  <2> QED BY <1>5, <2>1 DEF Ahead
<1> QED BY <1>1, <1>2, <1>3, <1>4, <1>5 DEF JInv, Orderly

LEMMA OrderlyReady ==
    ASSUME JInv, NEW c \in Proxy, c \notin Eager \cup raced
    PROVE  Ready(c) /\ Ahead(c) /\ Past(c)
<1>1. Orderly(c) /\ Undisturbed(c) /\ Newest(c)
  BY DEF JInv, SInv
<1>2. Ground
  BY DEF JInv, SInv, IInv, Ground
<1> QED BY <1>1, <1>2 DEF Ready, Steady, Orderly

LEMMA NextIntact ==
    ASSUME ShortSessions
    PROVE  JInv /\ [Next]_vars => JInv'
<1>1. ASSUME JInv, [Next]_vars PROVE SInv'
  BY <1>1, NextSessions DEF JInv
<1>2. ASSUME JInv, Next, SInv' PROVE JInv'
  <2>1. TypeOK /\ FdInv /\ Owners /\ BothComplete /\ Peers /\ ReadSent /\ PublicEnds
    BY <1>2 DEF JInv, SInv, IInv
  <2>2. Peers' /\ ReadSent' /\ PublicEnds'
    BY <1>2, <2>1, PeersStep, ReadSentStep, PublicEndsStep
  <2>3. raced \subseteq raced'
    BY <1>2, <2>1, BothCompleteStep
  <2>4. ASSUME NEW c \in Proxy, c \notin Eager \cup raced' PROVE Orderly(c)'
    <3>1. c \notin raced /\ c \notin Eager
      BY <2>3, <2>4
    <3>2. Ready(c) /\ Ahead(c) /\ Past(c)
      BY <1>2, <3>1, OrderlyReady
    <3>3. Rest(c)' \/ InSession(c)'
      BY <1>2, <3>1, <3>2, ReadyFacts, StageStep
    <3>4. Relays(c)' /\ LocalEnds(c)'
      BY <1>2, <3>1, <3>2, RelaysStep, LocalEndsStep
    <3>5. Opened(c)' /\ CarriedOut(c)'
      BY <1>2, <3>1, <3>2, OpenedStep, CarriedOutStep
    <3>6. Past(c)' /\ Ahead(c)'
      BY <1>2, <3>1, <3>2, PastStep, AheadStep
    <3> QED BY <3>3, <3>4, <3>5, <3>6 DEF Orderly
  <2> QED BY <1>2, <2>2, <2>4 DEF JInv
<1> QED BY <1>1, <1>2, StutterIntact

\* A session that is not over: only the local connection may have been told.
LEMMA CurrentIntact ==
    ASSUME NEW c \in Proxy, Ready(c), pconn["server"][c].start,
           NEW n, n = Len(bound[c])
    PROVE  Whole(<<c, n>>)
<1> USE SideType, Sides, Threads
<1>0. TypeOK /\ Ground /\ Steady(c) /\ Undisturbed(c)
  BY ReadyFacts
<1>1. PICK p \in Public, z \in Local, a \in Stage, b \in Stage : Course(c, p, z, a, b)
  BY ReadyFacts DEF InSession
<1>2. /\ p \in Endpoint /\ z \in Endpoint /\ z = <<c, ran[c]>> /\ ran[c] = Len(bound[c])
      /\ bound[c][ran[c]] = p
  BY <1>0, <1>1, CourseEnds
<1>3. z = <<c, n>> /\ PublicEnd(z) = p
  BY <1>2 DEF PublicEnd
<1>4. Direction("client", c, p, z, a) /\ Direction("server", c, z, p, b) /\ InOrder(a, b)
  BY <1>1 DEF Course
<1>5. ~sock[p].eof
  <2>1. b # "done"
    BY <1>4 DEF InOrder
  <2> QED BY <1>4, <2>1 DEF Direction, Compared
<1>6. PayloadOnly(z)
  <2>1. PICK d \in Nat : CarriesFrom(d, sock[z].got, stream["client"][c], p, sock[p].read)
    BY <1>0, <1>1 DEF Course, Steady, CarriedOut
  <2>2. \A j : Data(p, j).kind = "data"
    BY DEF Data
  <2> QED BY <2>1, <2>2 DEF CarriesFrom, PayloadOnly
<1>7. ASSUME sock[z].eof PROVE AllDelivered(p, z)
  <2>1. a = "done"
    BY <1>4, <1>7 DEF Direction, Compared
  <2>2. CarriesFrom(0, sock[z].got, stream["client"][c], p, sock[p].read)
    BY <1>0, <1>1, <2>1, NothingLeft
  <2>3. \A j \in 1 .. Len(sock[z].got) : sock[z].got[j] = Data(p, j)
    BY <2>2 DEF CarriesFrom
  <2>4. sock[p].fin /\ Len(sock[z].got) = sock[p].sent
    BY <1>4, <2>1 DEF Direction, Announced, Compared, Ended
  <2>5. sock[z].got \in Seq(Elem) /\ sock[p].sent \in 0 .. MaxUnits
    BY <1>0, <1>2, SocketTypes
  <2> QED BY <2>3, <2>4, <2>5, Delivered
<1>8. Whole(z)
  BY <1>3, <1>5, <1>6, <1>7 DEF Whole, FinAfterData
<1> QED BY <1>3, <1>8

LEMMA IntactSessions == JInv => SessionIntactUnlessRaced
<1> SUFFICES ASSUME JInv, NEW z \in Session, z[1] \notin Eager \cup raced
             PROVE  FinAfterData(z) /\ PayloadOnly(z) /\ PayloadOnly(PublicEnd(z))
  BY DEF SessionIntactUnlessRaced
<1> USE SideType, Sides, Threads
<1>1. z \in Local /\ z[2] <= Len(bound[z[1]])
  BY DEF Session
<1>2. z[1] \in Proxy /\ z[2] \in 1 .. MaxSession /\ z = <<z[1], z[2]>>
  BY <1>1
<1>3. PICK c \in Proxy, i \in 1 .. MaxSession : c = z[1] /\ i = z[2] /\ z = <<c, i>>
  BY <1>2
<1>4. bound[c] \in Seq(Public)
  BY DEF JInv, SInv, IInv, TypeOK
<1>5. i \in 1 .. Len(bound[c]) /\ (i < Len(bound[c]) \/ i = Len(bound[c]))
  BY <1>1, <1>3, <1>4, ConstantsAssumption
<1>6. Ready(c) /\ Past(c)
  BY <1>3, OrderlyReady
<1>7. Whole(<<c, i>>)
  <2>1. CASE i < Len(bound[c]) \/ ~pconn["server"][c].start
    BY <1>5, <1>6, <2>1 DEF Past
  <2>2. CASE i = Len(bound[c]) /\ pconn["server"][c].start
    BY <1>6, <2>2, CurrentIntact
  <2> QED BY <1>5, <2>1, <2>2
<1>8. PayloadOnly(PublicEnd(z))
  <2>1. Received(c)
    BY <1>6, ReadyFacts DEF Undisturbed
  <2>2. PrefixOf(sock[bound[c][i]].got, <<c, i>>)
    BY <1>5, <2>1 DEF Received
  <2>3. \A y, j : Data(y, j).kind = "data"
    BY DEF Data
  <2> QED BY <1>3, <2>2, <2>3 DEF PayloadOnly, PublicEnd, PrefixOf
<1> QED BY <1>3, <1>7, <1>8 DEF Whole

\* In every session on a proxy connection, however often it is used again,
\* shutdownFromRemote gives an end its FIN only when the other end has sent one
\* and all that it sent has been delivered, and nothing but payload of that
\* session reaches the ends: handleRead's splices, the counts on the control
\* connection and freeProxyConn may meet in any order.  Not where the local
\* server may close first, where two threads completed a session at once, or
\* where a counter wraps within a session.
THEOREM SessionsIntact ==
    ASSUME ShortSessions
    PROVE  Spec => []SessionIntactUnlessRaced
<1>1. JInv /\ [Next]_vars => JInv'
  BY NextIntact
<1>2. Spec => []JInv
  BY <1>1, InitIntact, PTL DEF Spec
<1> QED BY <1>2, IntactSessions, PTL
=============================================================================
