------------------------- MODULE ControlPlane_proofs -------------------------
(***************************************************************************)
(* Proofs about the control plane, for any number of ProxyClients and of   *)
(* public connections: types; a claimed connection finds its control and   *)
(* its tunnel; and every public connection that waits in a Tunnel is paid  *)
(* for by a NotifyClient or a proxy connection on the way, so that no      *)
(* claim pops an empty list.                                               *)
(***************************************************************************)
EXTENDS ControlPlane, FiniteSetTheorems, TLAPS

USE ConstantsAssumption

-----------------------------------------------------------------------------
(* The inductive invariant *)

\* The NotifyClient messages in q.
Notes(q) == {i \in 1 .. Len(q) : q[i] = "NotifyClient"}
Count(q) == Cardinality(Notes(q))

\* Types; a connection waits for the acceptor of its kind.
Types ==
    /\ proc \in [Client -> {"off", "up", "dead"}]
    /\ clientMap \in SUBSET Client
    /\ made \in [Client -> Nat]
    /\ up \in [Client -> Seq(ToServer)]
    /\ down \in [Client -> Seq(ToClient)]
    /\ backlog \in [Acceptor -> Seq(Pending)]
    /\ backlog["ctl"] \in Seq(Client)
    /\ backlog["proxy"] \in Seq(Conn)
    /\ edge \in [Acceptor -> BOOLEAN]
    /\ main \in      [pc : {"idle", "ctl", "proxy"}, of : {None}]
                \cup [pc : {"add", "rsp"}, of : Client]
    /\ controlMap \in SUBSET Client
    /\ tunnelMap \in SUBSET Client
    /\ port \in Client \cup {None}
    /\ unclaimed \in SUBSET Conn
    /\ worker \in [Conn -> {"none", "meta", "found", "done"}]
    /\ unhandled \in [Client -> Seq(Public)]
    /\ bound \in [Public -> Conn \cup {None}]
    /\ arrived \in SUBSET Public
    /\ early \in [Client -> Nat]
    /\ crashed \in BOOLEAN

\* A client makes a proxy connection for a public connection that has arrived.
Paid == \A k \in Client : made[k] + Count(down[k]) <= Cardinality(arrived)

\* q brings the client the id of its tunnel.
Told(q) == \E i \in 1 .. Len(q) : q[i] = "NewTunnelRsp"

\* The maps of the server are filled before a client can name its tunnel.
Registered ==
    /\ \A k \in tunnelMap : k \in controlMap \/ proc[k] = "dead"
    /\ main.pc \in {"add", "rsp"} => main.of \in controlMap
    /\ main.pc = "rsp" => main.of \in tunnelMap
    /\ \A k \in Client : Told(down[k]) => k \in tunnelMap
    /\ clientMap \subseteq tunnelMap
    /\ \A k \in Client : made[k] > 0 => k \in tunnelMap

\* The connections in q are different, have been made and have no worker.
Line(q, w, m) ==
    \A i \in 1 .. Len(q) :
        /\ w[q[i]] = "none"
        /\ q[i][2] <= m[q[i][1]]
        /\ \A j \in 1 .. Len(q) : q[i] = q[j] => i = j

\* A connection is accepted once, after it was made.
Numbered ==
    /\ Line(backlog["proxy"], worker, made)
    /\ \A c \in Conn : worker[c] # "none" => c[2] <= made[c[1]]

\* Nobody has heard of a client that has not been started.
Off ==
    \A k \in Client : proc[k] = "off" =>
        /\ up[k] = <<>> /\ down[k] = <<>> /\ unhandled[k] = <<>>
        /\ made[k] = 0 /\ early[k] = 0 /\ port # k

\* The account of WaitingAreCovered.
Covered ==
    \A k \in Client : proc[k] # "dead" =>
        Len(unhandled[k]) = Count(down[k]) + Cardinality(OnTheWay(k)) + early[k]

IInv == Types /\ Paid /\ Registered /\ Numbered /\ Off /\ Covered

-----------------------------------------------------------------------------
(* Counting *)

LEMMA CountNat ==
    ASSUME NEW q \in Seq(ToClient)
    PROVE  IsFiniteSet(Notes(q)) /\ Count(q) \in Nat
<1>1. IsFiniteSet(1 .. Len(q))
  BY FS_Interval
<1>2. Notes(q) \in SUBSET (1 .. Len(q))
  BY DEF Notes
<1> QED BY <1>1, <1>2, FS_Subset, FS_CardinalityType DEF Count

LEMMA CountEmpty == Count(<<>>) = 0
<1>1. Notes(<<>>) = {}
  BY DEF Notes
<1> QED BY <1>1, FS_EmptySet DEF Count

LEMMA CountAppend ==
    ASSUME NEW q \in Seq(ToClient), NEW m \in ToClient
    PROVE  Count(Append(q, m)) = Count(q) + (IF m = "NotifyClient" THEN 1 ELSE 0)
<1>1. CASE m = "NotifyClient"
  <2>1. Notes(Append(q, m)) = Notes(q) \cup {Len(q) + 1}
    BY <1>1 DEF Notes
  <2>2. Len(q) + 1 \notin Notes(q)
    BY DEF Notes
  <2> QED BY <1>1, <2>1, <2>2, CountNat, FS_AddElement DEF Count
<1>2. CASE m # "NotifyClient"
  <2>1. Notes(Append(q, m)) = Notes(q)
    BY <1>2 DEF Notes
  <2> QED BY <1>2, <2>1, CountNat DEF Count
<1> QED BY <1>1, <1>2

LEMMA CountTail ==
    ASSUME NEW q \in Seq(ToClient), q # <<>>
    PROVE  Count(q) = Count(Tail(q)) + (IF Head(q) = "NotifyClient" THEN 1 ELSE 0)
<1> DEFINE later == Notes(q) \ {1}
           earlier == [i \in later |-> i - 1]
<1>1. Tail(q) \in Seq(ToClient) /\ Len(Tail(q)) = Len(q) - 1
  OBVIOUS
<1>2. \A i \in Notes(Tail(q)) : i + 1 \in later
  BY DEF Notes
<1>3. \A i \in later : i - 1 \in Notes(Tail(q))
  BY DEF Notes
<1>4. later \subseteq Nat /\ Notes(Tail(q)) \subseteq Nat
  BY DEF Notes
<1>5. earlier \in Bijection(later, Notes(Tail(q)))
  <2>1. earlier \in [later -> Notes(Tail(q))]
    BY <1>3
  <2>2. earlier \in Injection(later, Notes(Tail(q)))
    BY <1>4, <2>1 DEF Injection, IsInjective
  <2>3. \A j \in Notes(Tail(q)) : \E i \in later : earlier[i] = j
    BY <1>2, <1>4
  <2> QED BY <2>1, <2>2, <2>3 DEF Bijection, Surjection
<1>6. IsFiniteSet(later)
        /\ Cardinality(later) = IF 1 \in Notes(q) THEN Cardinality(Notes(q)) - 1
                                ELSE Cardinality(Notes(q))
  BY CountNat, FS_RemoveElement
<1>7. Cardinality(Notes(Tail(q))) = Cardinality(later)
  BY <1>5, <1>6, FS_Bijection DEF ExistsBijection
<1>8. 1 \in Notes(q) <=> Head(q) = "NotifyClient"
  BY DEF Notes
<1> QED BY <1>6, <1>7, <1>8, CountNat DEF Count

\* What an answer of the server puts on the way.
LEMMA AnswerEffect ==
    ASSUME Types, NEW k \in Client, NEW m \in ToClient, Answer(k, m)
    PROVE  /\ down' \in [Client -> Seq(ToClient)]
           /\ \A j \in Client \ {k} : down'[j] = down[j]
           /\ IF proc[k] = "up" THEN down'[k] = Append(down[k], m)
                                ELSE down'[k] = down[k]
           /\ Count(down'[k]) = Count(down[k]) +
                (IF proc[k] = "up" /\ m = "NotifyClient" THEN 1 ELSE 0)
<1>1. CASE proc[k] = "up"
  <2>1. down' = [down EXCEPT ![k] = Append(down[k], m)]
    BY <1>1 DEF Answer, SendDown
  <2> QED BY <1>1, <2>1, CountAppend DEF Types
<1>2. CASE proc[k] # "up"
  BY <1>2, CountNat, SMTT(20) DEF Answer, Types
<1> QED BY <1>1, <1>2

\* What a client takes off the control connection.
LEMMA NextDownEffect ==
    ASSUME Types, NEW k \in Client, NEW m \in ToClient, NextDown(k, m)
    PROVE  /\ down' \in [Client -> Seq(ToClient)]
           /\ proc[k] = "up" /\ down[k] # <<>> /\ Head(down[k]) = m
           /\ \A j \in Client \ {k} : down'[j] = down[j]
           /\ down'[k] = Tail(down[k])
           /\ Count(down[k]) = Count(down'[k]) + (IF m = "NotifyClient" THEN 1 ELSE 0)
<1>1. /\ proc[k] = "up" /\ down[k] # <<>> /\ Head(down[k]) = m
      /\ down' = [down EXCEPT ![k] = Tail(down[k])]
  BY DEF NextDown
<1>2. down[k] \in Seq(ToClient) /\ down'[k] = Tail(down[k])
  BY <1>1 DEF Types
<1>3. down' \in [Client -> Seq(ToClient)]
  BY <1>1 DEF Types
<1> QED BY <1>1, <1>2, <1>3, CountTail DEF Types

LEMMA InitIInv == Init => IInv
<1> SUFFICES ASSUME Init PROVE IInv
  OBVIOUS
<1>1. Types
  <2>1. /\ proc \in [Client -> {"off", "up", "dead"}]
        /\ made \in [Client -> Nat] /\ early \in [Client -> Nat]
        /\ worker \in [Conn -> {"none", "meta", "found", "done"}]
        /\ bound \in [Public -> Conn \cup {None}]
        /\ edge \in [Acceptor -> BOOLEAN]
    BY DEF Init
  <2>2. /\ up \in [Client -> Seq(ToServer)]
        /\ down \in [Client -> Seq(ToClient)]
        /\ unhandled \in [Client -> Seq(Public)]
    BY DEF Init
  <2>3. /\ backlog \in [Acceptor -> Seq(Pending)]
        /\ backlog["ctl"] \in Seq(Client) /\ backlog["proxy"] \in Seq(Conn)
    BY DEF Init, Acceptor
  <2>4. main \in [pc : {"idle", "ctl", "proxy"}, of : {None}]
    BY DEF Init, MainIdle
  <2>5. /\ clientMap \in SUBSET Client /\ controlMap \in SUBSET Client
        /\ tunnelMap \in SUBSET Client /\ port \in Client \cup {None}
        /\ unclaimed \in SUBSET Conn /\ arrived \in SUBSET Public
        /\ crashed \in BOOLEAN
    BY DEF Init
  <2> HIDE DEF Init
  <2> QED BY <2>1, <2>2, <2>3, <2>4, <2>5 DEF Types
<1>2. \A k \in Client : Count(down[k]) = 0
  BY CountEmpty DEF Init
<1>3. Cardinality({}) = 0
  BY FS_EmptySet
<1>4. Paid
  BY <1>2, <1>3 DEF Init, Paid
<1>5. Registered /\ Numbered
  BY DEF Init, Registered, Told, Numbered, Line, MainIdle, Acceptor
<1>6. Off
  BY DEF Init, Off
<1>7. \A k \in Client : OnTheWay(k) = {}
  BY DEF Init, OnTheWay
<1>8. Covered
  <2>1. \A k \in Client : Cardinality(OnTheWay(k)) = 0
    BY <1>3, <1>7
  <2>2. \A k \in Client : Len(unhandled[k]) = 0 /\ early[k] = 0
    BY DEF Init
  <2> QED BY <1>2, <2>1, <2>2 DEF Covered
<1> QED BY <1>1, <1>4, <1>5, <1>6, <1>8 DEF IInv

-----------------------------------------------------------------------------
(* Types *)

\* A client that has a NotifyClient to handle can name one more connection.
LEMMA Affordable ==
    ASSUME Types, Paid, NEW k \in Client, NextDown(k, "NotifyClient")
    PROVE  /\ made[k] + 1 \in 1 .. Cardinality(Public)
           /\ <<k, made[k] + 1>> \in Conn
<1>1. Count(down[k]) = Count(down'[k]) + 1 /\ Count(down'[k]) \in Nat
  BY NextDownEffect, CountNat DEF ToClient, Types
<1>2. /\ Cardinality(arrived) <= Cardinality(Public)
      /\ Cardinality(arrived) \in Nat /\ Cardinality(Public) \in Nat
  BY FS_Subset, FS_CardinalityType DEF Types
<1>3. made[k] \in Nat /\ made[k] + Count(down[k]) <= Cardinality(arrived)
  BY DEF Types, Paid
<1>4. made[k] + 1 \in 1 .. Cardinality(Public)
  BY <1>1, <1>2, <1>3
<1> QED BY <1>4 DEF Conn

LEMMA ConnectTypes ==
    ASSUME Types, NEW a \in Acceptor, NEW x \in Pending, Connect(a, x),
           a = "ctl" => x \in Client, a = "proxy" => x \in Conn
    PROVE  /\ backlog' \in [Acceptor -> Seq(Pending)]
           /\ backlog'["ctl"] \in Seq(Client)
           /\ backlog'["proxy"] \in Seq(Conn)
           /\ edge' \in [Acceptor -> BOOLEAN]
BY DEF Connect, Types, Acceptor

LEMMA ClientTypes ==
    ASSUME Types, Paid, NEW k \in Client, Run(k) \/ Die(k) \/ ClientStep(k)
    PROVE  Types'
<1>1. CASE Run(k)
  <2>1. Connect("ctl", k) /\ k \in Pending /\ "ctl" \in Acceptor
    BY <1>1 DEF Run, Pending, Acceptor
  <2>2. up' \in [Client -> Seq(ToServer)]
    BY <1>1 DEF Run, SendUp, Types, ToServer
  <2>3. proc' \in [Client -> {"off", "up", "dead"}]
    BY <1>1 DEF Run, Types
  <2>4. /\ backlog' \in [Acceptor -> Seq(Pending)]
        /\ backlog'["ctl"] \in Seq(Client) /\ backlog'["proxy"] \in Seq(Conn)
        /\ edge' \in [Acceptor -> BOOLEAN]
    BY <2>1, ConnectTypes
  <2> QED BY <1>1, <2>2, <2>3, <2>4 DEF Run, Types, maps, claims, publics
<1>2. CASE Die(k)
  <2>1. proc' \in [Client -> {"off", "up", "dead"}] /\ down' \in [Client -> Seq(ToClient)]
    BY <1>2 DEF Die, Types
  <2> QED BY <1>2, <2>1 DEF Die, Types, accepting, maps, claims, publics
<1>3. CASE HandleNewCtlRsp(k)
  <2>1. down' \in [Client -> Seq(ToClient)]
    BY <1>3, NextDownEffect DEF HandleNewCtlRsp, ToClient
  <2>2. up' \in [Client -> Seq(ToServer)]
    BY <1>3 DEF HandleNewCtlRsp, SendUp, AfterCtlRsp, Types, ToServer
  <2> QED BY <1>3, <2>1, <2>2
             DEF HandleNewCtlRsp, Types, process, accepting, maps, claims, publics
<1>4. CASE HandleNewTunnelRsp(k)
  <2>1. down' \in [Client -> Seq(ToClient)]
    BY <1>4, NextDownEffect DEF HandleNewTunnelRsp, ToClient
  <2> QED BY <1>4, <2>1
             DEF HandleNewTunnelRsp, Types, accepting, maps, claims, publics
<1>5. CASE HandleProxyNotify(k)
  <2>1. down' \in [Client -> Seq(ToClient)]
    BY <1>5, NextDownEffect DEF HandleProxyNotify, ToClient
  <2>2. UNCHANGED <<proc, clientMap, up, main, maps, claims, publics, crashed>>
    BY <1>5 DEF HandleProxyNotify
  <2>3. CASE k \in clientMap
    <3>1. /\ Connect("proxy", <<k, made[k] + 1>>)
          /\ <<k, made[k] + 1>> \in Conn
          /\ made' \in [Client -> Nat] /\ early' = early
      <4>1. <<k, made[k] + 1>> \in Conn
        BY <1>5, Affordable DEF HandleProxyNotify
      <4>2. /\ Connect("proxy", <<k, made[k] + 1>>)
            /\ made' = [made EXCEPT ![k] = @ + 1] /\ early' = early
        BY <1>5, <2>3 DEF HandleProxyNotify
      <4>3. made' \in [Client -> Nat]
        BY <4>2 DEF Types
      <4> QED BY <4>1, <4>2, <4>3
    <3>2. <<k, made[k] + 1>> \in Pending /\ "proxy" \in Acceptor
      BY <3>1 DEF Pending, Acceptor
    <3>3. /\ backlog' \in [Acceptor -> Seq(Pending)]
          /\ backlog'["ctl"] \in Seq(Client) /\ backlog'["proxy"] \in Seq(Conn)
          /\ edge' \in [Acceptor -> BOOLEAN]
      BY <3>1, <3>2, ConnectTypes
    <3>4. made' \in [Client -> Nat] /\ early' \in [Client -> Nat]
      <4>1. early \in [Client -> Nat]
        BY DEF Types
      <4> QED BY <3>1, <4>1
    <3>5. /\ proc' = proc /\ clientMap' = clientMap /\ up' = up /\ main' = main
          /\ controlMap' = controlMap /\ tunnelMap' = tunnelMap /\ port' = port
          /\ unclaimed' = unclaimed /\ worker' = worker /\ crashed' = crashed
          /\ unhandled' = unhandled /\ bound' = bound /\ arrived' = arrived
      BY <2>2 DEF maps, claims, publics
    <3> QED BY <2>1, <3>3, <3>4, <3>5 DEF Types
  <2>4. CASE k \notin clientMap
    <3>1. early' \in [Client -> Nat] /\ UNCHANGED <<made, backlog, edge>>
      <4>1. early' = [early EXCEPT ![k] = @ + 1] /\ UNCHANGED <<made, backlog, edge>>
        BY <1>5, <2>4 DEF HandleProxyNotify
      <4>2. early \in [Client -> Nat]
        BY DEF Types
      <4> QED BY <4>1, <4>2
    <3>2. /\ proc' = proc /\ clientMap' = clientMap /\ up' = up /\ main' = main
          /\ controlMap' = controlMap /\ tunnelMap' = tunnelMap /\ port' = port
          /\ unclaimed' = unclaimed /\ worker' = worker /\ crashed' = crashed
          /\ unhandled' = unhandled /\ bound' = bound /\ arrived' = arrived
      BY <2>2 DEF maps, claims, publics
    <3> QED BY <2>1, <3>1, <3>2 DEF Types
  <2> QED BY <2>3, <2>4
<1> QED BY <1>1, <1>2, <1>3, <1>4, <1>5 DEF ClientStep

\* What Accept leaves in the queue.
LEMMA AcceptTypes ==
    ASSUME Types, NEW a \in Acceptor, Accept(a)
    PROVE  /\ backlog' \in [Acceptor -> Seq(Pending)]
           /\ backlog'["ctl"] \in Seq(Client)
           /\ backlog'["proxy"] \in Seq(Conn)
           /\ UNCHANGED <<main, edge>>
           /\ main = MainDo(a, None) /\ backlog[a] # <<>>
<1>1. backlog' = [backlog EXCEPT ![a] = Tail(@)] /\ backlog[a] # <<>>
  BY DEF Accept
<1>2. Tail(backlog[a]) \in Seq(Pending)
  BY <1>1 DEF Types
<1>3. /\ a = "ctl" => Tail(backlog[a]) \in Seq(Client)
      /\ a = "proxy" => Tail(backlog[a]) \in Seq(Conn)
  BY <1>1 DEF Types
<1>4. backlog' \in [Acceptor -> Seq(Pending)]
  BY <1>1, <1>2 DEF Types
<1>5. backlog'["ctl"] \in Seq(Client) /\ backlog'["proxy"] \in Seq(Conn)
  BY <1>1, <1>3 DEF Types, Acceptor
<1> QED BY <1>4, <1>5 DEF Accept

LEMMA MainTypes ==
    ASSUME Types, MainLoop PROVE Types'
<1>1. ASSUME NEW a \in Acceptor, WakeAcceptor(a) \/ EveryHandler(a) PROVE Types'
  <2>1. main' \in      [pc : {"idle", "ctl", "proxy"}, of : {None}]
                  \cup [pc : {"add", "rsp"}, of : Client]
    BY <1>1 DEF WakeAcceptor, EveryHandler, MainIdle, MainDo, Acceptor
  <2>2. edge' \in [Acceptor -> BOOLEAN]
    BY <1>1 DEF WakeAcceptor, EveryHandler, Types
  <2> QED BY <1>1, <2>1, <2>2
             DEF WakeAcceptor, EveryHandler, Types, process, link, maps, claims, publics
<1>2. CASE NewCtlConn
  <2>1. Accept("ctl") /\ "ctl" \in Acceptor
    BY <1>2 DEF NewCtlConn, Acceptor
  <2>2. Head(backlog["ctl"]) \in Client
    BY <2>1, AcceptTypes, SMTT(20) DEF Types
  <2> QED BY <1>2, <2>1, <2>2, AcceptTypes
             DEF NewCtlConn, Types, process, link, claims, publics
<1>3. CASE NewProxyConn
  <2>1. Accept("proxy") /\ "proxy" \in Acceptor
    BY <1>3 DEF NewProxyConn, Acceptor
  <2>2. Head(backlog["proxy"]) \in Conn
    BY <2>1, AcceptTypes, SMTT(20) DEF Types
  <2>3. worker' \in [Conn -> {"none", "meta", "found", "done"}]
    BY <1>3 DEF NewProxyConn, Types
  <2> QED BY <1>3, <2>1, <2>2, <2>3, AcceptTypes
             DEF NewProxyConn, Types, process, link, maps, publics
<1>4. ASSUME NEW k \in Client, HandleNewCtlReq(k) PROVE Types'
  <2>1. down' \in [Client -> Seq(ToClient)]
    BY <1>4, AnswerEffect DEF HandleNewCtlReq, ToClient
  <2>2. up' \in [Client -> Seq(ToServer)]
    BY <1>4 DEF HandleNewCtlReq, NextUp, Types
  <2> QED BY <1>4, <2>1, <2>2
             DEF HandleNewCtlReq, Types, process, accepting, maps, claims, publics
<1>5. ASSUME NEW k \in Client, HandleNewTunnelReq(k) PROVE Types'
  <2>1. up' \in [Client -> Seq(ToServer)]
    BY <1>5 DEF HandleNewTunnelReq, NextUp, Types
  <2>2. main' \in [pc : {"add", "rsp"}, of : Client]
    BY <1>5 DEF HandleNewTunnelReq, MainDo, AfterListen
  <2>3. port' \in Client \cup {None}
    BY <1>5 DEF HandleNewTunnelReq, Types
  <2> QED BY <1>5, <2>1, <2>2, <2>3
             DEF HandleNewTunnelReq, Types, process, claims, publics
<1>6. ASSUME NEW k \in Client, HandleCtlConnClose(k) PROVE Types'
  BY <1>6 DEF HandleCtlConnClose, Types, process, link, accepting, claims, publics
<1>7. CASE AddToTunnel
  <2>1. main.of \in Client
    BY <1>7 DEF AddToTunnel, Types
  <2>2. main' \in [pc : {"add", "rsp"}, of : Client]
    BY <1>7, <2>1 DEF AddToTunnel, MainDo
  <2> QED BY <1>7, <2>1, <2>2
             DEF AddToTunnel, Types, process, link, claims, publics
<1>8. CASE SendTunnelRsp
  <2>1. main.of \in Client
    BY <1>8 DEF SendTunnelRsp, Types
  <2>2. down' \in [Client -> Seq(ToClient)]
    BY <1>8, <2>1, AnswerEffect DEF SendTunnelRsp, ToClient
  <2>3. main' \in [pc : {"idle", "ctl", "proxy"}, of : {None}]
    BY <1>8 DEF SendTunnelRsp, MainIdle
  <2> QED BY <1>8, <2>2, <2>3
             DEF SendTunnelRsp, Types, process, maps, claims, publics
<1> QED
  BY <1>1, <1>2, <1>3, <1>4, <1>5, <1>6, <1>7, <1>8 DEF MainLoop

\* pop_back, also of an empty list.
LEMMA PopBackType ==
    ASSUME NEW S, NEW q \in Seq(S)
    PROVE  /\ PopBack(q) \in Seq(S)
           /\ q # <<>> => Len(PopBack(q)) = Len(q) - 1
           /\ q = <<>> => PopBack(q) = <<>>
<1> DEFINE n == Len(q) - 1
<1>1. q = <<>> \/ (n \in Nat /\ n + 1 = Len(q))
  OBVIOUS
<1>2. CASE q = <<>>
  BY <1>2 DEF PopBack
<1>3. CASE n \in Nat /\ n + 1 = Len(q)
  <2> HIDE DEF n
  <2>1. \A i \in 1 .. n : q[i] \in S
    BY <1>3
  <2>2. SubSeq(q, 1, n) \in Seq(S) /\ Len(SubSeq(q, 1, n)) = n
    BY <1>3, <2>1
  <2> QED BY <1>3, <2>2 DEF n, PopBack
<1> QED BY <1>1, <1>2, <1>3

LEMMA OtherTypes ==
    ASSUME Types, (\E p \in Public : NewPublicConn(p)) \/ (\E c \in Conn : Worker(c))
    PROVE  Types'
<1>1. ASSUME NEW p \in Public, NewPublicConn(p) PROVE Types'
  <2>1. port \in Client /\ Answer(port, "NotifyClient")
    BY <1>1 DEF NewPublicConn, Types
  <2>2. down' \in [Client -> Seq(ToClient)]
    BY <2>1, AnswerEffect DEF ToClient
  <2>3. unhandled' \in [Client -> Seq(Public)] /\ arrived' \in SUBSET Public
    BY <1>1 DEF NewPublicConn, Types
  <2> QED BY <1>1, <2>2, <2>3
             DEF NewPublicConn, Types, process, accepting, maps, claims
<1>2. ASSUME NEW c \in Conn, ClaimFind(c) PROVE Types'
  <2>1. worker' \in [Conn -> {"none", "meta", "found", "done"}]
    BY <1>2 DEF ClaimFind, Types
  <2> QED BY <1>2, <2>1
             DEF ClaimFind, Types, process, link, accepting, maps, publics
<1>3. ASSUME NEW c \in Conn, ClaimProxyConn(c) PROVE Types'
  <2>1. worker' \in [Conn -> {"none", "meta", "found", "done"}]
    BY <1>3 DEF ClaimProxyConn, Types
  <2>2. UNCHANGED <<process, link, accepting, maps, arrived, early>>
    BY <1>3 DEF ClaimProxyConn
  <2>3. /\ unhandled' \in [Client -> Seq(Public)]
        /\ bound' \in [Public -> Conn \cup {None}]
        /\ unclaimed' \in SUBSET Conn /\ crashed' \in BOOLEAN
    <3>1. CASE c[1] \notin controlMap \/ c[1] \notin tunnelMap
      BY <1>3, <3>1 DEF ClaimProxyConn, Types
    <3>2. CASE c[1] \in controlMap /\ c[1] \in tunnelMap
      <4>1. c[1] \in Client /\ PopBack(unhandled[c[1]]) \in Seq(Public)
        BY PopBackType DEF Conn, Types
      <4>2. /\ unhandled' = [unhandled EXCEPT ![c[1]] = PopBack(unhandled[c[1]])]
            /\ unclaimed' = unclaimed \ {c} /\ UNCHANGED crashed
            /\ bound' = [bound EXCEPT
                           ![unhandled[c[1]][Len(unhandled[c[1]])]] = c]
        BY <1>3, <3>2 DEF ClaimProxyConn, BindTo
      <4>3. unhandled' \in [Client -> Seq(Public)]
        BY <4>1, <4>2 DEF Types
      <4>4. bound' \in [Public -> Conn \cup {None}]
        BY <4>2 DEF Types
      <4> QED BY <4>2, <4>3, <4>4 DEF Types
    <3> QED BY <3>1, <3>2
  <2> QED BY <2>1, <2>2, <2>3 DEF Types, process, link, accepting, maps
<1> QED BY <1>1, <1>2, <1>3 DEF Worker

LEMMA NextTypes ==
    ASSUME Types, Paid, [Next]_vars PROVE Types'
<1>1. CASE UNCHANGED vars
  BY <1>1 DEF vars, process, link, accepting, maps, claims, publics, Types
<1>2. CASE Next
  BY <1>2, ClientTypes, MainTypes, OtherTypes DEF Next
<1> QED BY <1>1, <1>2

-----------------------------------------------------------------------------
(* Who knows what *)

LEMMA NextPaid ==
    ASSUME Types, Paid, [Next]_vars PROVE Paid'
<1> USE DEF Paid
<1>1. \A j \in Client : Count(down[j]) \in Nat /\ made[j] \in Nat
  BY CountNat DEF Types
<1>2. Cardinality(arrived) \in Nat
  BY FS_Subset, FS_CardinalityType DEF Types
<1>3. CASE UNCHANGED <<made, down, arrived>>
  BY <1>3
<1>4. ASSUME NEW k \in Client, Die(k) PROVE Paid'
  <2>1. Count(down'[k]) = 0 /\ \A j \in Client \ {k} : down'[j] = down[j]
    BY <1>4, CountEmpty DEF Die, Types
  <2>2. UNCHANGED <<made, arrived>>
    BY <1>4 DEF Die, publics
  <2> QED BY <1>1, <1>2, <2>1, <2>2
<1>5. ASSUME NEW k \in Client, HandleNewCtlRsp(k) \/ HandleNewTunnelRsp(k)
      PROVE  Paid'
  <2>1. /\ Count(down'[k]) = Count(down[k])
        /\ \A j \in Client \ {k} : down'[j] = down[j]
    <3>1. PICK m \in {"NewResponse", "NewTunnelRsp"} : NextDown(k, m)
      BY <1>5 DEF HandleNewCtlRsp, HandleNewTunnelRsp
    <3>2. Count(down'[k]) \in Nat
      BY <3>1, NextDownEffect, CountNat DEF ToClient
    <3> QED BY <1>1, <3>1, <3>2, NextDownEffect DEF ToClient
  <2>2. UNCHANGED <<made, arrived>>
    BY <1>5 DEF HandleNewCtlRsp, HandleNewTunnelRsp, process, publics
  <2> QED BY <2>1, <2>2
<1>6. ASSUME NEW k \in Client, HandleProxyNotify(k) PROVE Paid'
  <2>1. /\ Count(down[k]) = Count(down'[k]) + 1 /\ Count(down'[k]) \in Nat
        /\ \A j \in Client \ {k} : down'[j] = down[j]
    <3>1. NextDown(k, "NotifyClient")
      BY <1>6 DEF HandleProxyNotify
    <3> QED BY <3>1, NextDownEffect, CountNat DEF ToClient
  <2>2. /\ made'[k] \in {made[k], made[k] + 1}
        /\ \A j \in Client \ {k} : made'[j] = made[j]
        /\ UNCHANGED arrived
    BY <1>6 DEF HandleProxyNotify, Types, publics
  <2> QED BY <1>1, <1>2, <2>1, <2>2
<1>7. ASSUME NEW k \in Client, NEW m \in {"NewResponse", "NewTunnelRsp"},
             Answer(k, m), UNCHANGED <<made, arrived>>
      PROVE  Paid'
  <2>1. /\ Count(down'[k]) = Count(down[k])
        /\ \A j \in Client \ {k} : down'[j] = down[j]
    BY <1>1, <1>7, AnswerEffect DEF ToClient
  <2> QED BY <1>7, <2>1
<1>8. ASSUME NEW k \in Client, HandleNewCtlReq(k) PROVE Paid'
  BY <1>7, <1>8 DEF HandleNewCtlReq, process, publics
<1>9. CASE SendTunnelRsp
  <2>1. main.of \in Client
    BY <1>9 DEF SendTunnelRsp, Types
  <2> QED BY <1>7, <1>9, <2>1 DEF SendTunnelRsp, process, publics
<1>10. ASSUME NEW p \in Public, NewPublicConn(p) PROVE Paid'
  <2>1. /\ port \in Client /\ Answer(port, "NotifyClient")
        /\ p \notin arrived /\ arrived' = arrived \cup {p} /\ UNCHANGED made
    BY <1>10 DEF NewPublicConn, Types, process
  <2>2. Cardinality(arrived') = Cardinality(arrived) + 1
    BY <2>1, FS_Subset, FS_AddElement DEF Types
  <2>3. \A j \in Client : Count(down'[j]) \in {Count(down[j]), Count(down[j]) + 1}
    BY <1>1, <2>1, AnswerEffect DEF ToClient
  <2> QED BY <1>1, <1>2, <2>1, <2>2, <2>3
<1>11. ASSUME NEW k \in Client, Run(k) \/ HandleNewTunnelReq(k) \/ HandleCtlConnClose(k)
       PROVE  Paid'
  BY <1>3, <1>11 DEF Run, HandleNewTunnelReq, HandleCtlConnClose, process, link,
                     publics
<1>12. ASSUME NEW a \in Acceptor, WakeAcceptor(a) \/ EveryHandler(a) PROVE Paid'
  BY <1>3, <1>12 DEF WakeAcceptor, EveryHandler, process, link, publics
<1>13. CASE NewCtlConn \/ NewProxyConn \/ AddToTunnel
  BY <1>3, <1>13 DEF NewCtlConn, NewProxyConn, AddToTunnel, process, link, publics
<1>14. ASSUME NEW c \in Conn, Worker(c) PROVE Paid'
  BY <1>3, <1>14 DEF Worker, ClaimFind, ClaimProxyConn, process, link, publics
<1>15. CASE UNCHANGED vars
  BY <1>3, <1>15 DEF vars, process, link, publics
<1> QED
  BY <1>4, <1>5, <1>6, <1>8, <1>9, <1>10, <1>11, <1>12, <1>13, <1>14, <1>15
     DEF Next, ClientStep, MainLoop

LEMMA ToldTail ==
    ASSUME NEW q \in Seq(ToClient), q # <<>>
    PROVE  Told(Tail(q)) => Told(q)
<1>1. \A i \in 1 .. Len(Tail(q)) : i + 1 \in 1 .. Len(q) /\ Tail(q)[i] = q[i + 1]
  OBVIOUS
<1> QED BY <1>1 DEF Told

LEMMA ToldAppend ==
    ASSUME NEW q \in Seq(ToClient), NEW m \in ToClient
    PROVE  Told(Append(q, m)) => Told(q) \/ m = "NewTunnelRsp"
BY DEF Told

LEMMA ToldHead ==
    ASSUME NEW q \in Seq(ToClient), q # <<>>, Head(q) = "NewTunnelRsp"
    PROVE  Told(q)
BY DEF Told

LEMMA NextRegistered ==
    ASSUME Types, Registered, [Next]_vars PROVE Registered'
<1> USE DEF Registered
<1>1. CASE /\ UNCHANGED <<controlMap, tunnelMap, clientMap, made>>
           /\ \A k \in Client : proc[k] = "dead" => proc'[k] = "dead"
           /\ main' = main \/ main'.pc \notin {"add", "rsp"}
           /\ \A k \in Client : Told(down'[k]) => Told(down[k])
  BY <1>1 DEF Types
<1>2. ASSUME NEW k \in Client, Run(k) PROVE Registered'
  BY <1>1, <1>2 DEF Run, maps, Types
<1>3. ASSUME NEW k \in Client, Die(k) PROVE Registered'
  <2>1. \A j \in Client : Told(down'[j]) => Told(down[j])
    BY <1>3 DEF Die, Types, Told
  <2>2. \A j \in Client : proc[j] = "dead" => proc'[j] = "dead"
    BY <1>3 DEF Die, Types
  <2> QED BY <1>1, <1>3, <2>1, <2>2 DEF Die, accepting, maps
<1>4. ASSUME NEW k \in Client, NEW m \in ToClient, NextDown(k, m)
      PROVE  /\ \A j \in Client : Told(down'[j]) => Told(down[j])
             /\ m = "NewTunnelRsp" => Told(down[k])
  <2>1. down[k] \in Seq(ToClient)
    BY DEF Types
  <2> QED BY <1>4, <2>1, NextDownEffect, ToldTail, ToldHead
<1>5. ASSUME NEW k \in Client, HandleNewCtlRsp(k) PROVE Registered'
  <2>1. \A j \in Client : Told(down'[j]) => Told(down[j])
    BY <1>4, <1>5 DEF HandleNewCtlRsp, ToClient
  <2> QED BY <1>1, <1>5, <2>1 DEF HandleNewCtlRsp, process, accepting, maps
<1>6. ASSUME NEW k \in Client, HandleNewTunnelRsp(k) PROVE Registered'
  <2>1. /\ \A j \in Client : Told(down'[j]) => Told(down[j])
        /\ Told(down[k])
    BY <1>4, <1>6 DEF HandleNewTunnelRsp, ToClient
  <2> QED BY <1>6, <2>1 DEF HandleNewTunnelRsp, accepting, maps
<1>7. ASSUME NEW k \in Client, HandleProxyNotify(k) PROVE Registered'
  <2>1. \A j \in Client : Told(down'[j]) => Told(down[j])
    BY <1>4, <1>7 DEF HandleProxyNotify, ToClient
  <2>2. UNCHANGED <<controlMap, tunnelMap, clientMap, proc, main>>
    BY <1>7 DEF HandleProxyNotify, maps
  <2>3. \A j \in Client : made'[j] = made[j] \/ (j = k /\ k \in clientMap)
    BY <1>7 DEF HandleProxyNotify, Types
  <2> QED BY <2>1, <2>2, <2>3
<1>8. ASSUME NEW a \in Acceptor, WakeAcceptor(a) \/ EveryHandler(a)
      PROVE  Registered'
  <2>1. main'.pc \notin {"add", "rsp"}
    BY <1>8 DEF WakeAcceptor, EveryHandler, MainIdle, MainDo, Acceptor
  <2> QED BY <1>1, <1>8, <2>1 DEF WakeAcceptor, EveryHandler, process, link, maps
<1>9. CASE NewCtlConn
  BY <1>9 DEF NewCtlConn, Accept, process, link
<1>10. CASE NewProxyConn
  BY <1>1, <1>10 DEF NewProxyConn, Accept, process, link, maps
<1>11. ASSUME NEW k \in Client, NEW m \in ToClient, Answer(k, m),
              m = "NewTunnelRsp" => k \in tunnelMap
       PROVE  \A j \in Client : Told(down'[j]) => j \in tunnelMap
  <2>1. down[k] \in Seq(ToClient)
    BY DEF Types
  <2>2. Told(down'[k]) => k \in tunnelMap
    <3>1. down'[k] = down[k] \/ down'[k] = Append(down[k], m)
      BY <1>11, AnswerEffect
    <3>2. Told(down'[k]) => Told(down[k]) \/ m = "NewTunnelRsp"
      BY <2>1, <3>1, ToldAppend
    <3> QED BY <1>11, <3>2
  <2> QED BY <1>11, <2>2, AnswerEffect
<1>12. ASSUME NEW k \in Client, HandleNewCtlReq(k) PROVE Registered'
  <2>1. \A j \in Client : Told(down'[j]) => j \in tunnelMap
    BY <1>11, <1>12 DEF HandleNewCtlReq, ToClient
  <2> QED BY <1>12, <2>1 DEF HandleNewCtlReq, process, accepting, maps
<1>13. ASSUME NEW k \in Client, HandleNewTunnelReq(k) PROVE Registered'
  <2>1. main' = [pc |-> "add", of |-> k] /\ k \in controlMap
    BY <1>13 DEF HandleNewTunnelReq, NextUp, MainDo, AfterListen
  <2> QED BY <1>13, <2>1 DEF HandleNewTunnelReq, process
<1>14. CASE AddToTunnel
  <2>1. main' = [pc |-> "rsp", of |-> main.of] /\ main.of \in controlMap
    BY <1>14 DEF AddToTunnel, MainDo
  <2> QED BY <1>14, <2>1 DEF AddToTunnel, process, link
<1>15. CASE SendTunnelRsp
  <2>1. main.of \in Client /\ main.of \in tunnelMap
    BY <1>15 DEF SendTunnelRsp, Types
  <2>2. \A j \in Client : Told(down'[j]) => j \in tunnelMap
    BY <1>11, <1>15, <2>1 DEF SendTunnelRsp, ToClient
  <2>3. main'.pc = "idle"
    BY <1>15 DEF SendTunnelRsp, MainIdle
  <2> QED BY <1>15, <2>2, <2>3 DEF SendTunnelRsp, process, maps
<1>16. ASSUME NEW k \in Client, HandleCtlConnClose(k) PROVE Registered'
  <2>1. main.pc = "idle"
    BY <1>16 DEF HandleCtlConnClose, MainIdle
  <2> QED BY <1>16, <2>1 DEF HandleCtlConnClose, process, link, accepting
<1>17. ASSUME NEW p \in Public, NewPublicConn(p) PROVE Registered'
  <2>1. port \in Client /\ Answer(port, "NotifyClient")
    BY <1>17 DEF NewPublicConn, Types
  <2>2. \A j \in Client : Told(down'[j]) => j \in tunnelMap
    BY <1>11, <2>1 DEF ToClient
  <2> QED BY <1>17, <2>2 DEF NewPublicConn, process, accepting, maps
<1>18. ASSUME NEW c \in Conn, Worker(c) PROVE Registered'
  BY <1>1, <1>18 DEF Worker, ClaimFind, ClaimProxyConn, process, link, accepting, maps
<1>19. CASE UNCHANGED vars
  BY <1>1, <1>19 DEF vars, process, link, accepting, maps
<1> QED
  BY <1>2, <1>3, <1>5, <1>6, <1>7, <1>8, <1>9, <1>10, <1>12, <1>13, <1>14,
     <1>15, <1>16, <1>17, <1>18, <1>19
     DEF Next, ClientStep, MainLoop

-----------------------------------------------------------------------------
(* Clients that have not been started *)

LEMMA NextOff ==
    ASSUME Types, Off, [Next]_vars PROVE Off'
<1> USE DEF Off
<1>1. CASE /\ UNCHANGED <<up, unhandled, made, early, port>>
           /\ \A k \in Client : proc'[k] = "off" => proc[k] = "off" /\ down'[k] = down[k]
  BY <1>1
<1>2. ASSUME NEW k \in Client, Run(k) PROVE Off'
  <2>1. /\ proc'[k] = "up"
        /\ \A j \in Client \ {k} : proc'[j] = proc[j] /\ up'[j] = up[j]
        /\ UNCHANGED <<down, unhandled, made, early, port>>
    BY <1>2 DEF Run, SendUp, Types, maps, publics
  <2> QED BY <2>1
<1>3. ASSUME NEW k \in Client, Die(k) PROVE Off'
  <2>1. \A j \in Client : proc'[j] = "off" => proc[j] = "off" /\ down'[j] = down[j]
    BY <1>3 DEF Die, Types
  <2> QED BY <1>1, <1>3, <2>1 DEF Die, maps, publics
<1>4. ASSUME NEW k \in Client, ClientStep(k) PROVE Off'
  <2>1. PICK m \in ToClient : NextDown(k, m)
    BY <1>4 DEF ClientStep, HandleNewCtlRsp, HandleNewTunnelRsp,
                HandleProxyNotify, ToClient
  <2>2. proc[k] = "up" /\ \A j \in Client \ {k} : down'[j] = down[j]
    BY <2>1, NextDownEffect
  <2>3. /\ UNCHANGED <<proc, unhandled, port>>
        /\ \A j \in Client \ {k} :
             up'[j] = up[j] /\ made'[j] = made[j] /\ early'[j] = early[j]
    BY <1>4 DEF ClientStep, HandleNewCtlRsp, HandleNewTunnelRsp, SendUp,
                HandleProxyNotify, Types, process, publics, maps
  <2> QED BY <2>2, <2>3
<1>5. ASSUME NEW k \in Client, NEW m \in ToClient, Answer(k, m), UNCHANGED proc
      PROVE  \A j \in Client : proc'[j] = "off" => proc[j] = "off" /\ down'[j] = down[j]
  BY <1>5, AnswerEffect
<1>6. ASSUME NEW k \in Client, HandleNewCtlReq(k) PROVE Off'
  <2>1. up[k] # <<>> /\ \A j \in Client \ {k} : up'[j] = up[j]
    BY <1>6 DEF HandleNewCtlReq, NextUp, Types
  <2>2. /\ UNCHANGED <<proc, unhandled, made, early, port>>
        /\ Answer(k, "NewResponse") /\ "NewResponse" \in ToClient
    BY <1>6 DEF HandleNewCtlReq, process, maps, publics, ToClient
  <2>3. \A j \in Client : proc'[j] = "off" => proc[j] = "off" /\ down'[j] = down[j]
    BY <1>5, <2>2
  <2> QED BY <2>1, <2>2, <2>3
<1>7. ASSUME NEW k \in Client, HandleNewTunnelReq(k) PROVE Off'
  <2>1. up[k] # <<>> /\ \A j \in Client \ {k} : up'[j] = up[j]
    BY <1>7 DEF HandleNewTunnelReq, NextUp, Types
  <2>2. UNCHANGED <<proc, unhandled, made, early, down>> /\ port' \in {port, k}
    BY <1>7 DEF HandleNewTunnelReq, process, publics
  <2> QED BY <2>1, <2>2
<1>8. CASE SendTunnelRsp
  <2>1. /\ main.of \in Client /\ Answer(main.of, "NewTunnelRsp")
        /\ "NewTunnelRsp" \in ToClient
        /\ UNCHANGED <<proc, up, unhandled, made, early, port>>
    BY <1>8 DEF SendTunnelRsp, Types, process, maps, publics, ToClient
  <2> QED BY <1>1, <1>5, <2>1
<1>9. ASSUME NEW p \in Public, NewPublicConn(p) PROVE Off'
  <2>1. /\ port \in Client /\ Answer(port, "NotifyClient")
        /\ "NotifyClient" \in ToClient
        /\ UNCHANGED <<proc, up, made, early, port>>
        /\ \A j \in Client \ {port} : unhandled'[j] = unhandled[j]
    BY <1>9 DEF NewPublicConn, Types, process, maps, ToClient
  <2>2. \A j \in Client : proc'[j] = "off" => proc[j] = "off" /\ down'[j] = down[j]
    BY <1>5, <2>1
  <2> QED BY <2>1, <2>2
<1>10. ASSUME NEW c \in Conn, ClaimProxyConn(c) PROVE Off'
  <2>1. UNCHANGED <<proc, up, down, made, early, port>>
    BY <1>10 DEF ClaimProxyConn, process, link, maps
  <2>2. \A j \in Client : unhandled[j] = <<>> => unhandled'[j] = <<>>
    <3>1. \/ UNCHANGED unhandled
          \/ unhandled' = [unhandled EXCEPT ![c[1]] = PopBack(@)]
      BY <1>10 DEF ClaimProxyConn
    <3>2. \A j \in Client : unhandled[j] = <<>> => PopBack(unhandled[j]) = <<>>
      BY PopBackType DEF Types
    <3> QED BY <3>1, <3>2, SMTT(20) DEF Types
  <2> QED BY <2>1, <2>2
<1>11. ASSUME NEW a \in Acceptor, WakeAcceptor(a) \/ EveryHandler(a) PROVE Off'
  BY <1>1, <1>11 DEF WakeAcceptor, EveryHandler, process, link, maps, publics
<1>12. CASE NewCtlConn \/ NewProxyConn \/ AddToTunnel
  BY <1>1, <1>12 DEF NewCtlConn, NewProxyConn, AddToTunnel, process, link, maps, publics
<1>13. ASSUME NEW k \in Client, HandleCtlConnClose(k) PROVE Off'
  BY <1>1, <1>13 DEF HandleCtlConnClose, process, link, publics
<1>14. ASSUME NEW c \in Conn, ClaimFind(c) PROVE Off'
  BY <1>1, <1>14 DEF ClaimFind, process, link, maps, publics
<1>15. CASE UNCHANGED vars
  BY <1>1, <1>15 DEF vars, process, link, maps, publics
<1> QED
  BY <1>2, <1>3, <1>4, <1>6, <1>7, <1>8, <1>9, <1>10, <1>11, <1>12, <1>13,
     <1>14, <1>15
     DEF Next, MainLoop, Worker

-----------------------------------------------------------------------------
(* The queue of the proxy acceptor *)

LEMMA LineTail ==
    ASSUME Types, NEW q \in Seq(Conn), q # <<>>, Line(q, worker, made),
           NEW w, w = [worker EXCEPT ![Head(q)] = "meta"]
    PROVE  /\ Head(q) \in Conn /\ worker[Head(q)] = "none"
           /\ Head(q)[2] <= made[Head(q)[1]]
           /\ Line(Tail(q), w, made)
<1>1. /\ Len(q) \in Nat /\ 1 \in 1 .. Len(q) /\ Head(q) = q[1]
      /\ \A i \in 1 .. Len(q) : q[i] \in Conn
  OBVIOUS
<1>2. \A i \in 1 .. Len(Tail(q)) :
        i + 1 \in 1 .. Len(q) /\ i + 1 # 1 /\ Tail(q)[i] = q[i + 1]
  OBVIOUS
<1>3. Head(q) \in Conn /\ worker[Head(q)] = "none" /\ Head(q)[2] <= made[Head(q)[1]]
  BY <1>1 DEF Line
<1>4. \A i \in 1 .. Len(Tail(q)) : Tail(q)[i] # Head(q)
  BY <1>1, <1>2 DEF Line
<1>5. \A i \in 1 .. Len(Tail(q)) : w[Tail(q)[i]] = "none"
  BY <1>1, <1>2, <1>4 DEF Line, Types
<1>6. \A i, j \in 1 .. Len(Tail(q)) : Tail(q)[i] = Tail(q)[j] => i = j
  <2> TAKE i, j \in 1 .. Len(Tail(q))
  <2>1. q[i + 1] = q[j + 1] => i + 1 = j + 1
    BY <1>2 DEF Line
  <2> QED BY <1>2, <2>1
<1>7. Line(Tail(q), w, made)
  <2> DEFINE r == Tail(q)
  <2>1. \A i \in 1 .. Len(r) : r[i][2] <= made[r[i][1]]
    BY <1>2 DEF Line
  <2> HIDE DEF r
  <2> QED BY <1>5, <1>6, <2>1 DEF Line, r
<1> QED BY <1>3, <1>7

LEMMA LineAppend ==
    ASSUME Types, NEW q \in Seq(Conn), Line(q, worker, made),
           NEW k \in Client, NEW c \in Conn, c = <<k, made[k] + 1>>,
           worker[c] = "none",
           NEW m, m = [made EXCEPT ![k] = @ + 1]
    PROVE  Line(Append(q, c), worker, m)
<1>0. made \in [Client -> Nat]
  BY DEF Types
<1>1. \A j \in Client : made[j] \in Nat /\ m[j] \in Nat /\ made[j] <= m[j]
  BY <1>0
<1>2. m[k] = made[k] + 1 /\ c[1] = k /\ c[2] = made[k] + 1
  BY <1>0
<1>3. \A i \in 1 .. Len(q) :
        /\ q[i] \in Conn /\ q[i][1] \in Client /\ q[i][2] \in Nat
        /\ q[i][2] <= made[q[i][1]]
  BY DEF Line, Conn
<1>4. \A i \in 1 .. Len(q) : q[i] # c
  BY <1>1, <1>2, <1>3
<1>5. \A i \in 1 .. Len(q) : q[i][2] <= m[q[i][1]]
  BY <1>1, <1>3
<1>6. /\ Len(Append(q, c)) = Len(q) + 1
      /\ \A i \in 1 .. Len(q) : Append(q, c)[i] = q[i]
      /\ Append(q, c)[Len(q) + 1] = c
  OBVIOUS
<1> DEFINE d == Append(q, c)
<1>7. \A i \in 1 .. Len(q) + 1 :
        /\ worker[d[i]] = "none"
        /\ d[i][2] <= m[d[i][1]]
  BY <1>1, <1>2, <1>5, <1>6 DEF Line
<1>8. \A i, j \in 1 .. Len(q) + 1 : d[i] = d[j] => i = j
  <2> HIDE DEF d
  <2> QED BY <1>4, <1>6 DEF d, Line
<1> QED BY <1>6, <1>7, <1>8 DEF Line

LEMMA NextNumbered ==
    ASSUME Types, Paid, Numbered, [Next]_vars PROVE Numbered'
<1> USE DEF Numbered
<1>1. CASE UNCHANGED <<made, worker>> /\ backlog'["proxy"] = backlog["proxy"]
  BY <1>1
<1>2. ASSUME NEW k \in Client, HandleProxyNotify(k), k \in clientMap
      PROVE  Numbered'
  <2> DEFINE c == <<k, made[k] + 1>>
  <2>1. c \in Conn
    BY <1>2, Affordable DEF HandleProxyNotify
  <2>2. /\ made' = [made EXCEPT ![k] = @ + 1] /\ UNCHANGED worker
        /\ backlog' = [backlog EXCEPT !["proxy"] = Append(@, c)]
    BY <1>2 DEF HandleProxyNotify, Connect, claims
  <2>3. backlog'["proxy"] = Append(backlog["proxy"], c)
    BY <2>2 DEF Types, Acceptor
  <2>4. c[1] = k /\ c[2] = made[k] + 1 /\ made[k] \in Nat
    BY DEF Types
  <2>5. worker[c] = "none"
    BY <2>1, <2>4
  <2>6. Line(backlog'["proxy"], worker, made')
    <3>1. backlog["proxy"] \in Seq(Conn) /\ c = <<k, made[k] + 1>>
      BY DEF Types
    <3> HIDE DEF c
    <3>2. Line(Append(backlog["proxy"], c), worker, made')
      BY <2>1, <2>2, <2>5, <3>1, LineAppend
    <3> QED BY <2>3, <3>2
  <2>7. \A d \in Conn : made[d[1]] <= made'[d[1]] /\ d[2] \in Nat /\ made[d[1]] \in Nat
                          /\ made'[d[1]] \in Nat
    <3>1. made \in [Client -> Nat] /\ made' = [made EXCEPT ![k] = @ + 1]
      BY <2>2 DEF Types
    <3>3. \A j \in Client : made[j] \in Nat /\ made'[j] \in Nat /\ made[j] <= made'[j]
      BY <3>1
    <3>2. \A d \in Conn : d[1] \in Client /\ d[2] \in Nat
      BY DEF Conn
    <3> QED BY <3>2, <3>3
  <2>8. \A d \in Conn : worker'[d] # "none" => d[2] <= made'[d[1]]
    BY <2>2, <2>7
  <2> QED BY <2>2, <2>6, <2>8
<1>3. ASSUME NEW k \in Client, HandleProxyNotify(k), k \notin clientMap
      PROVE  Numbered'
  BY <1>1, <1>3 DEF HandleProxyNotify, claims
<1>4. CASE NewProxyConn
  <2> DEFINE q == backlog["proxy"]
  <2>1. /\ backlog' = [backlog EXCEPT !["proxy"] = Tail(@)] /\ q # <<>>
        /\ worker' = [worker EXCEPT ![Head(q)] = "meta"] /\ UNCHANGED made
    BY <1>4 DEF NewProxyConn, Accept, process
  <2>2. backlog'["proxy"] = Tail(q) /\ q \in Seq(Conn)
    BY <2>1 DEF Types, Acceptor
  <2>3. /\ Line(Tail(q), worker', made) /\ Head(q) \in Conn
        /\ Head(q)[2] <= made[Head(q)[1]]
    BY <2>1, <2>2, LineTail
  <2>4. \A d \in Conn : worker'[d] # "none" => d[2] <= made[d[1]]
    BY <2>1, <2>3 DEF Types
  <2> QED BY <2>1, <2>2, <2>3, <2>4
<1>5. ASSUME NEW c \in Conn, Worker(c) PROVE Numbered'
  <2>1. /\ UNCHANGED <<made, backlog>> /\ worker[c] # "none"
        /\ \A d \in Conn \ {c} : worker'[d] = worker[d]
    BY <1>5 DEF Worker, ClaimFind, ClaimProxyConn, Types, process, accepting
  <2>2. \A i \in 1 .. Len(backlog["proxy"]) :
          backlog["proxy"][i] \in Conn /\ backlog["proxy"][i] # c
    BY <2>1 DEF Line, Types
  <2>3. Line(backlog["proxy"], worker', made)
    BY <2>1, <2>2 DEF Line
  <2>4. \A d \in Conn : worker'[d] # "none" => d[2] <= made[d[1]]
    BY <2>1
  <2> QED BY <2>1, <2>3, <2>4
<1>6. ASSUME NEW k \in Client, Run(k) PROVE Numbered'
  BY <1>1, <1>6 DEF Run, Connect, Types, Acceptor, claims
<1>7. CASE NewCtlConn
  BY <1>1, <1>7 DEF NewCtlConn, Accept, Types, Acceptor, claims, process
<1>9. ASSUME NEW k \in Client,
             Die(k) \/ HandleNewCtlRsp(k) \/ HandleNewTunnelRsp(k)
               \/ HandleNewCtlReq(k) \/ HandleNewTunnelReq(k) \/ HandleCtlConnClose(k)
      PROVE  Numbered'
  BY <1>1, <1>9 DEF Die, HandleNewCtlRsp, HandleNewTunnelRsp, HandleNewCtlReq,
         HandleNewTunnelReq, HandleCtlConnClose, process, accepting, claims
<1>10. ASSUME NEW a \in Acceptor, WakeAcceptor(a) \/ EveryHandler(a) PROVE Numbered'
  BY <1>1, <1>10 DEF WakeAcceptor, EveryHandler, process, claims
<1>11. CASE AddToTunnel \/ SendTunnelRsp
  BY <1>1, <1>11 DEF AddToTunnel, SendTunnelRsp, process, claims
<1>12. ASSUME NEW p \in Public, NewPublicConn(p) PROVE Numbered'
  BY <1>1, <1>12 DEF NewPublicConn, process, accepting, claims
<1>13. CASE UNCHANGED vars
  BY <1>1, <1>13 DEF vars, process, accepting, claims
<1> QED
  BY <1>2, <1>3, <1>4, <1>5, <1>6, <1>7, <1>9, <1>10, <1>11, <1>12, <1>13
     DEF Next, ClientStep, MainLoop

-----------------------------------------------------------------------------
(* The account *)

LEMMA WayFinite ==
    ASSUME Types, NEW k \in Client
    PROVE  IsFiniteSet(OnTheWay(k)) /\ Cardinality(OnTheWay(k)) \in Nat
<1>1. IsFiniteSet(1 .. made[k])
  BY FS_Interval DEF Types
<1>2. OnTheWay(k) \in SUBSET (1 .. made[k])
  BY DEF OnTheWay
<1> QED BY <1>1, <1>2, FS_Subset, FS_CardinalityType

LEMMA WaySame ==
    ASSUME NEW k \in Client, made'[k] = made[k],
           \A i \in 1 .. made[k] :
             worker'[<<k, i>>] = "done" <=> worker[<<k, i>>] = "done"
    PROVE  OnTheWay(k)' = OnTheWay(k)
BY DEF OnTheWay

LEMMA Named ==
    ASSUME Types, Paid, NEW k \in Client, NEW i \in 1 .. made[k]
    PROVE  <<k, i>> \in Conn
<1>1. /\ Cardinality(arrived) <= Cardinality(Public)
      /\ Cardinality(arrived) \in Nat /\ Cardinality(Public) \in Nat
  BY FS_Subset, FS_CardinalityType DEF Types
<1>2. /\ made[k] \in Nat /\ Count(down[k]) \in Nat
      /\ made[k] + Count(down[k]) <= Cardinality(arrived)
  BY CountNat DEF Types, Paid
<1>3. i \in 1 .. Cardinality(Public)
  BY <1>1, <1>2
<1> QED BY <1>3 DEF Conn

\* A connection that was accepted comes from a client that knows its tunnel.
LEMMA Accepted ==
    ASSUME Types, Registered, Numbered, NEW c \in Conn, worker[c] # "none"
    PROVE  /\ c[1] \in Client /\ c[2] \in 1 .. made[c[1]] /\ c = <<c[1], c[2]>>
           /\ c[1] \in tunnelMap
           /\ c[1] \in controlMap \/ proc[c[1]] = "dead"
<1>1. /\ c[1] \in Client /\ c[2] \in Nat /\ c[2] >= 1 /\ c = <<c[1], c[2]>>
      /\ made[c[1]] \in Nat
  BY DEF Conn, Types
<1>2. c[2] <= made[c[1]]
  BY DEF Numbered
<1>3. made[c[1]] > 0
  BY <1>1, <1>2
<1>4. c[1] \in tunnelMap
  BY <1>1, <1>3 DEF Registered
<1> QED BY <1>1, <1>2, <1>4 DEF Registered

\* A step that moves no token.
LEMMA SameAccount ==
    ASSUME Covered,
           \A k \in Client : proc'[k] # "dead" =>
             /\ proc[k] # "dead"
             /\ unhandled'[k] = unhandled[k] /\ early'[k] = early[k]
             /\ Count(down'[k]) = Count(down[k])
             /\ OnTheWay(k)' = OnTheWay(k)
    PROVE  Covered'
BY DEF Covered

\* handleProxyNotify turns a NotifyClient into a connection, or drops it.
LEMMA NotifyAccount ==
    ASSUME Types, Numbered, Covered, Paid, NEW k \in Client, HandleProxyNotify(k)
    PROVE  Covered'
<1>1. NextDown(k, "NotifyClient") /\ UNCHANGED <<proc, unhandled, worker>>
  BY DEF HandleProxyNotify, claims, publics
<1>2. /\ Count(down[k]) = Count(down'[k]) + 1 /\ Count(down'[k]) \in Nat
      /\ \A j \in Client \ {k} : down'[j] = down[j]
      /\ proc[k] = "up"
  BY <1>1, NextDownEffect, CountNat DEF ToClient
<1>3. \A j \in Client \ {k} : made'[j] = made[j] /\ early'[j] = early[j]
  BY DEF HandleProxyNotify, Types
<1>4. \A j \in Client \ {k} : OnTheWay(j)' = OnTheWay(j)
  BY <1>1, <1>3, WaySame
<1>5. Cardinality(OnTheWay(k)) \in Nat /\ early[k] \in Nat /\ IsFiniteSet(OnTheWay(k))
  BY WayFinite DEF Types
<1>6. Len(unhandled[k]) = Count(down[k]) + Cardinality(OnTheWay(k)) + early[k]
  BY <1>2 DEF Covered
<1>7. Len(unhandled'[k]) = Count(down'[k]) + Cardinality(OnTheWay(k)') + early'[k]
  <2>1. CASE k \in clientMap
    <3>1. made'[k] = made[k] + 1 /\ early'[k] = early[k] /\ made[k] \in Nat
      BY <2>1 DEF HandleProxyNotify, Types
    <3>2. worker[<<k, made[k] + 1>>] # "done"
      <4>1. <<k, made[k] + 1>> \in Conn
        BY <1>1, Affordable
      <4>2. <<k, made[k] + 1>>[1] = k /\ <<k, made[k] + 1>>[2] = made[k] + 1
        OBVIOUS
      <4> QED BY <3>1, <4>1, <4>2 DEF Numbered
    <3>3. OnTheWay(k)' = OnTheWay(k) \cup {made[k] + 1}
      BY <1>1, <3>1, <3>2 DEF OnTheWay
    <3>4. made[k] + 1 \notin OnTheWay(k)
      BY <3>1 DEF OnTheWay
    <3>5. Cardinality(OnTheWay(k)') = Cardinality(OnTheWay(k)) + 1
      BY <1>5, <3>3, <3>4, FS_AddElement
    <3> QED BY <1>1, <1>2, <1>5, <1>6, <3>1, <3>5
  <2>2. CASE k \notin clientMap
    <3>1. made'[k] = made[k] /\ early'[k] = early[k] + 1
      BY <2>2 DEF HandleProxyNotify, Types
    <3>2. OnTheWay(k)' = OnTheWay(k)
      BY <1>1, <3>1, WaySame
    <3> QED BY <1>1, <1>2, <1>5, <1>6, <3>1, <3>2
  <2> QED BY <2>1, <2>2
<1> QED BY <1>1, <1>2, <1>3, <1>4, <1>7 DEF Covered

\* newPublicConnHandler puts a fd in the list and a NotifyClient on the way.
LEMMA PublicAccount ==
    ASSUME Types, Off, Covered, NEW p \in Public, NewPublicConn(p)
    PROVE  Covered'
<1>1. /\ port \in Client /\ Answer(port, "NotifyClient")
      /\ unhandled' = [unhandled EXCEPT ![port] = Append(@, p)]
      /\ UNCHANGED <<proc, made, worker, early>>
  BY DEF NewPublicConn, Types, process, claims
<1>2. \A k \in Client : OnTheWay(k)' = OnTheWay(k)
  BY <1>1, WaySame
<1>3. \A k \in Client \ {port} : unhandled'[k] = unhandled[k] /\ down'[k] = down[k]
  BY <1>1, AnswerEffect DEF Types, ToClient
<1>4. proc[port] # "dead" => proc[port] = "up"
  BY <1>1 DEF Off, Types
<1>5. Len(unhandled'[port]) = Len(unhandled[port]) + 1
  <2>1. unhandled[port] \in Seq(Public)
    BY <1>1 DEF Types
  <2> QED BY <1>1, <2>1 DEF Types
<1>6. proc[port] = "up" => Count(down'[port]) = Count(down[port]) + 1
  BY <1>1, AnswerEffect DEF ToClient
<1>7. /\ Count(down[port]) \in Nat /\ Cardinality(OnTheWay(port)) \in Nat
      /\ early[port] \in Nat
  BY <1>1, CountNat, WayFinite DEF Types
<1>8. proc[port] # "dead" =>
        Len(unhandled'[port]) = Count(down'[port]) + Cardinality(OnTheWay(port)) + early[port]
  <2> SUFFICES ASSUME proc[port] # "dead"
               PROVE  Len(unhandled'[port])
                        = Count(down'[port]) + Cardinality(OnTheWay(port)) + early[port]
    OBVIOUS
  <2>1. Len(unhandled[port]) = Count(down[port]) + Cardinality(OnTheWay(port)) + early[port]
    BY <1>1 DEF Covered
  <2> QED BY <1>4, <1>5, <1>6, <1>7, <2>1
<1> QED BY <1>1, <1>2, <1>3, <1>8 DEF Covered

\* claimProxyConn gives up a connection only of a client that has gone, and
\* takes one fd for one connection.
LEMMA ClaimAccount ==
    ASSUME Types, Paid, Registered, Numbered, Covered, NEW c \in Conn, Worker(c)
    PROVE  Covered'
<1>1. /\ UNCHANGED <<proc, made, down, early>> /\ worker[c] \in {"meta", "found"}
      /\ \A d \in Conn \ {c} : worker'[d] = worker[d]
  BY DEF Worker, ClaimFind, ClaimProxyConn, Types, process, link
<1>2. /\ c[1] \in Client /\ c[2] \in 1 .. made[c[1]] /\ c = <<c[1], c[2]>>
      /\ c[1] \in tunnelMap
      /\ c[1] \in controlMap \/ proc[c[1]] = "dead"
  BY <1>1, Accepted
<1>3. \A k \in Client \ {c[1]} :
        OnTheWay(k)' = OnTheWay(k) /\ unhandled'[k] = unhandled[k]
  <2>1. \A k \in Client \ {c[1]} : unhandled'[k] = unhandled[k]
    BY DEF Worker, ClaimFind, ClaimProxyConn, Types, publics
  <2>2. ASSUME NEW k \in Client \ {c[1]} PROVE OnTheWay(k)' = OnTheWay(k)
    <3>1. \A i \in 1 .. made[k] : worker'[<<k, i>>] = worker[<<k, i>>]
      <4>1. \A i \in 1 .. made[k] : <<k, i>> # c /\ <<k, i>> \in Conn
        BY <1>2, Named
      <4> QED BY <1>1, <4>1
    <3> QED BY <1>1, <3>1, WaySame
  <2> QED BY <2>1, <2>2
<1>4. CASE proc[c[1]] = "dead"
  BY <1>1, <1>3, <1>4 DEF Covered
<1>5. CASE proc[c[1]] # "dead" /\ ClaimFind(c)
  <2>1. worker'[c] = "found" /\ worker[c] = "meta" /\ UNCHANGED unhandled
    BY <1>2, <1>5 DEF ClaimFind, Types, publics
  <2>2. \A i \in 1 .. made[c[1]] :
          worker'[<<c[1], i>>] = "done" <=> worker[<<c[1], i>>] = "done"
    <3> TAKE i \in 1 .. made[c[1]]
    <3>1. CASE <<c[1], i>> = c
      BY <2>1, <3>1
    <3>2. CASE <<c[1], i>> # c
      <4>1. <<c[1], i>> \in Conn
        BY <1>2, Named
      <4> QED BY <1>1, <3>2, <4>1
    <3> QED BY <3>1, <3>2
  <2>3. OnTheWay(c[1])' = OnTheWay(c[1])
    BY <1>1, <1>2, <2>2, WaySame
  <2> QED BY <1>1, <1>3, <2>1, <2>3 DEF Covered
<1>6. CASE proc[c[1]] # "dead" /\ ClaimProxyConn(c)
  <2>1. /\ worker' = [worker EXCEPT ![c] = "done"] /\ worker[c] = "found"
        /\ unhandled' = [unhandled EXCEPT ![c[1]] = PopBack(@)]
    BY <1>2, <1>6 DEF ClaimProxyConn
  <2>2. OnTheWay(c[1])' = OnTheWay(c[1]) \ {c[2]}
    <3>1. \A i \in 1 .. made[c[1]] :
            worker'[<<c[1], i>>] # "done" <=> (worker[<<c[1], i>>] # "done" /\ i # c[2])
      <4> TAKE i \in 1 .. made[c[1]]
      <4>1. CASE i = c[2]
        <5>1. <<c[1], i>> = c
          BY <1>2, <4>1
        <5>2. worker'[c] = "done"
          BY <2>1 DEF Types
        <5> QED BY <4>1, <5>1, <5>2
      <4>2. CASE i # c[2]
        <5>1. <<c[1], i>> # c /\ <<c[1], i>> \in Conn
          BY <1>2, <4>2, Named
        <5> QED BY <1>1, <4>2, <5>1
      <4> QED BY <4>1, <4>2
    <3> QED BY <1>1, <3>1 DEF OnTheWay
  <2>3. c[2] \in OnTheWay(c[1])
    BY <1>2, <2>1 DEF OnTheWay
  <2>4. /\ Cardinality(OnTheWay(c[1])) \in Nat /\ Cardinality(OnTheWay(c[1])') \in Nat
        /\ Cardinality(OnTheWay(c[1])) = Cardinality(OnTheWay(c[1])') + 1
    <3>1. IsFiniteSet(OnTheWay(c[1])) /\ Cardinality(OnTheWay(c[1])) \in Nat
      BY <1>2, WayFinite
    <3>2. Cardinality(OnTheWay(c[1])') = Cardinality(OnTheWay(c[1])) - 1
      <4>1. \A S : IsFiniteSet(S) => \A x \in S : Cardinality(S \ {x}) = Cardinality(S) - 1
        BY FS_RemoveElement
      <4> QED BY <2>2, <2>3, <3>1, <4>1
    <3>3. Cardinality(OnTheWay(c[1])') \in Nat
      BY <2>2, <3>1, FS_Subset, FS_CardinalityType
    <3> QED BY <3>1, <3>2, <3>3
  <2>5. /\ Count(down[c[1]]) \in Nat /\ early[c[1]] \in Nat
        /\ unhandled[c[1]] \in Seq(Public)
    BY <1>2, CountNat DEF Types
  <2>6. Len(unhandled[c[1]])
          = Count(down[c[1]]) + Cardinality(OnTheWay(c[1])) + early[c[1]]
    BY <1>2, <1>6 DEF Covered
  <2>7. Len(unhandled[c[1]]) # 0
    BY <2>4, <2>5, <2>6
  <2>8. Len(unhandled'[c[1]]) = Len(unhandled[c[1]]) - 1
    <3>1. unhandled'[c[1]] = PopBack(unhandled[c[1]])
      BY <1>2, <2>1 DEF Types
    <3>2. unhandled[c[1]] # <<>>
      BY <2>7
    <3> QED BY <2>5, <3>1, <3>2, PopBackType
  <2>9. Len(unhandled'[c[1]])
          = Count(down[c[1]]) + Cardinality(OnTheWay(c[1])') + early[c[1]]
    BY <2>4, <2>5, <2>6, <2>8
  <2> QED BY <1>1, <1>3, <2>9 DEF Covered
<1> QED BY <1>4, <1>5, <1>6 DEF Worker

LEMMA NextCovered ==
    ASSUME IInv, [Next]_vars PROVE Covered'
<1> USE DEF IInv
<1>1. CASE /\ UNCHANGED <<made, worker, unhandled, early>>
           /\ \A k \in Client : proc'[k] # "dead" =>
                /\ proc[k] # "dead"
                /\ Count(down'[k]) = Count(down[k])
  <2>1. \A k \in Client : OnTheWay(k)' = OnTheWay(k)
    BY <1>1, WaySame
  <2> QED BY <1>1, <2>1, SameAccount
<1>2. ASSUME NEW k \in Client, Run(k) PROVE Covered'
  <2>1. \A j \in Client : proc'[j] # "dead" => proc[j] # "dead"
    BY <1>2 DEF Run, Types
  <2> QED BY <1>1, <1>2, <2>1 DEF Run, claims, publics
<1>3. ASSUME NEW k \in Client, Die(k) PROVE Covered'
  <2>1. \A j \in Client : proc'[j] # "dead" => proc[j] # "dead" /\ down'[j] = down[j]
    BY <1>3 DEF Die, Types
  <2> QED BY <1>1, <1>3, <2>1 DEF Die, claims, publics
<1>4. ASSUME NEW k \in Client, HandleNewCtlRsp(k) \/ HandleNewTunnelRsp(k)
      PROVE  Covered'
  <2>1. PICK m \in {"NewResponse", "NewTunnelRsp"} : NextDown(k, m)
    BY <1>4 DEF HandleNewCtlRsp, HandleNewTunnelRsp
  <2>2. Count(down[k]) \in Nat /\ Count(down'[k]) \in Nat
    <3>1. down[k] \in Seq(ToClient) /\ down'[k] \in Seq(ToClient)
      <4>1. down \in [Client -> Seq(ToClient)]
        BY DEF Types
      <4>2. m \in ToClient
        BY DEF ToClient
      <4>3. down' \in [Client -> Seq(ToClient)]
        BY <2>1, <4>2, NextDownEffect
      <4> QED BY <4>1, <4>3
    <3> QED BY <3>1, CountNat
  <2>3. \A j \in Client : Count(down'[j]) = Count(down[j])
    BY <2>1, <2>2, NextDownEffect DEF ToClient
  <2> QED BY <1>1, <1>4, <2>3
             DEF HandleNewCtlRsp, HandleNewTunnelRsp, process, claims, publics
<1>5. ASSUME NEW k \in Client, HandleProxyNotify(k) PROVE Covered'
  BY <1>5, NotifyAccount
<1>6. ASSUME NEW k \in Client, NEW m \in {"NewResponse", "NewTunnelRsp"},
             Answer(k, m), UNCHANGED <<proc, made, worker, unhandled, early>>
      PROVE  Covered'
  <2>1. Count(down[k]) \in Nat
    BY CountNat DEF Types
  <2>2. \A j \in Client : Count(down'[j]) = Count(down[j])
    BY <1>6, <2>1, AnswerEffect DEF ToClient
  <2> QED BY <1>1, <1>6, <2>2
<1>7. ASSUME NEW k \in Client, HandleNewCtlReq(k) PROVE Covered'
  BY <1>6, <1>7 DEF HandleNewCtlReq, process, claims, publics
<1>8. CASE SendTunnelRsp
  <2>1. main.of \in Client
    BY <1>8 DEF SendTunnelRsp, Types
  <2> QED BY <1>6, <1>8, <2>1 DEF SendTunnelRsp, process, claims, publics
<1>9. CASE NewProxyConn
  <2> DEFINE c == Head(backlog["proxy"])
  <2>1. /\ worker' = [worker EXCEPT ![c] = "meta"] /\ backlog["proxy"] # <<>>
        /\ UNCHANGED <<proc, made, down, unhandled, early>>
    BY <1>9 DEF NewProxyConn, Accept, process, link, publics
  <2>2. worker[c] = "none"
    <3>1. c = backlog["proxy"][1] /\ 1 \in 1 .. Len(backlog["proxy"])
      BY <2>1 DEF Types
    <3> QED BY <3>1 DEF Numbered, Line
  <2>3. \A d \in Conn : worker'[d] = "done" <=> worker[d] = "done"
    BY <2>1, <2>2 DEF Types
  <2>4. ASSUME NEW k \in Client PROVE OnTheWay(k)' = OnTheWay(k)
    <3>1. \A i \in 1 .. made[k] : <<k, i>> \in Conn
      BY Named
    <3> QED BY <2>1, <2>3, <3>1, WaySame
  <2> QED BY <2>1, <2>4, SameAccount
<1>10. ASSUME NEW p \in Public, NewPublicConn(p) PROVE Covered'
  BY <1>10, PublicAccount
<1>11. ASSUME NEW c \in Conn, Worker(c) PROVE Covered'
  BY <1>11, ClaimAccount
<1>12. ASSUME NEW k \in Client, HandleNewTunnelReq(k) \/ HandleCtlConnClose(k)
       PROVE  Covered'
  BY <1>1, <1>12 DEF HandleNewTunnelReq, HandleCtlConnClose, process, link, claims,
                     publics
<1>13. ASSUME NEW a \in Acceptor, WakeAcceptor(a) \/ EveryHandler(a) PROVE Covered'
  BY <1>1, <1>13 DEF WakeAcceptor, EveryHandler, process, link, claims, publics
<1>14. CASE NewCtlConn \/ AddToTunnel
  BY <1>1, <1>14 DEF NewCtlConn, AddToTunnel, process, link, claims, publics
<1>15. CASE UNCHANGED vars
  BY <1>1, <1>15 DEF vars, process, link, claims, publics
<1> QED
  BY <1>2, <1>3, <1>4, <1>5, <1>7, <1>8, <1>9, <1>10, <1>11, <1>12, <1>13,
     <1>14, <1>15
     DEF Next, ClientStep, MainLoop

-----------------------------------------------------------------------------
(* The theorems *)

LEMMA IInvInductive == Spec => []IInv
<1>1. IInv /\ [Next]_vars => IInv'
  BY NextTypes, NextPaid, NextRegistered, NextNumbered, NextOff, NextCovered
     DEF IInv
<1> QED
  BY <1>1, InitIInv, PTL DEF Spec

\* Every variable keeps its type: in particular handleProxyNotify never makes
\* more proxy connections than public connections have been accepted.
THEOREM TypeCorrect == Spec => []TypeOK
<1>1. IInv => TypeOK
  <2> SUFFICES ASSUME IInv PROVE TypeOK
    OBVIOUS
  <2>1. \A k \in Client : made[k] \in 0 .. Cardinality(Public)
    <3>1. /\ Cardinality(arrived) <= Cardinality(Public)
          /\ Cardinality(arrived) \in Nat /\ Cardinality(Public) \in Nat
      BY FS_Subset, FS_CardinalityType DEF IInv, Types
    <3>2. \A k \in Client :
            /\ made[k] \in Nat /\ Count(down[k]) \in Nat
            /\ made[k] + Count(down[k]) <= Cardinality(arrived)
      BY CountNat DEF IInv, Types, Paid
    <3> QED BY <3>1, <3>2
  <2>2. made \in [Client -> 0 .. Cardinality(Public)]
    BY <2>1 DEF IInv, Types
  <2> QED BY <2>2 DEF IInv, Types, TypeOK
<1> QED
  BY <1>1, IInvInductive, PTL

\* For any number of clients: claimProxyConn finds the Control and the Tunnel
\* that the ProxyMetaSet of a living client names, although the main loop fills
\* and empties the maps without a lock.
THEOREM ClaimsFindTheirTunnel == Spec => []ClaimFindsTunnel
<1>1. IInv => ClaimFindsTunnel
  <2> SUFFICES ASSUME IInv, NEW c \in Conn, worker[c] \in {"meta", "found"},
                      proc[c[1]] = "up"
               PROVE  c[1] \in controlMap \cap tunnelMap
    BY DEF ClaimFindsTunnel
  <2> QED BY Accepted DEF IInv
<1> QED
  BY <1>1, IInvInductive, PTL

\* For any number of clients and public connections: getAndPopUndealPublicFd,
\* which tests nothing, never finds unhandle_fds_ of a living client empty, and
\* every fd in it has a NotifyClient, a connection or a dropped NotifyClient.
THEOREM WaitingCovered == Spec => []WaitingAreCovered
<1>1. IInv => WaitingAreCovered
  BY DEF IInv, Covered, WaitingAreCovered, Count, Notes, Notifies
<1> QED
  BY <1>1, IInvInductive, PTL
=============================================================================
