----------------------------- MODULE ClientPool -----------------------------
(***************************************************************************)
(* What the local server does for a client: the ThreadClient it takes from  *)
(* the ObjectPool, the two ThreadBuffers in it, the messages read into one  *)
(* and the answers sent from the other, and the disconnection of clients    *)
(* that do nothing (checkTime).                                             *)
(*                                                                          *)
(* The acceptor allocates; one ThreadServer serves.  A round of its loop    *)
(* reads the readable clients, writes to the writable ones and checks the   *)
(* time; since select() may report any of them, a run of rounds is any      *)
(* sequence of the steps Read, Write and CheckTime.  A message is two       *)
(* units, a header and the rest, so that TCP may split it; whether it is    *)
(* answered (CMD_LOGIN, CMD_EXPIRE) or not (CMD_LOGOUT) is chosen when it   *)
(* is handled, which is when it matters first.                              *)
(***************************************************************************)
EXTENDS Integers, Sequences, FiniteSets, FiniteSetsExt

CONSTANTS
    MaxFd,       \* the client fds are 1 .. MaxFd
    NumObj,      \* bound: ThreadClients that are ever made
    InitNum,     \* ThreadClients the pool starts with (max_obj_nmber)
    None,        \* no ThreadClient
    RecvSize,    \* size of RecvBuf, in units
    SendSize,    \* size of SendBuf, in answers
    ExpireTime,  \* in ticks
    MaxWire,     \* bound: units on the way from a client
    MaxDropped,  \* bound: answers to the watched client that are dropped
    Talkers,     \* bound: fds whose clients send or close
    Watched      \* the fd whose clients' history is kept

ASSUME ClientPoolAssumption ==
    /\ MaxFd \in Nat \ {0}
    /\ NumObj \in Nat /\ MaxFd <= NumObj
    /\ InitNum \in 0 .. NumObj
    /\ None \notin 1 .. NumObj
    /\ RecvSize \in Nat /\ RecvSize >= 2
    /\ SendSize \in Nat \ {0}
    /\ ExpireTime \in Nat \ {0}
    /\ MaxWire \in Nat
    /\ MaxDropped \in Nat
    /\ Talkers \subseteq 1 .. MaxFd
    /\ Watched \in 1 .. MaxFd

Fd == 1 .. MaxFd
Obj == 1 .. NumObj

Unit == {"header", "rest"}

VARIABLES
    free,     \* _free_list
    made,     \* ThreadClients that exist
    used,     \* _UseNum
    obj,      \* obj[o]: RecvBuf, the number of answers in SendBuf, _deadtime
    client,   \* client[f]: the ThreadClient of fd f
    place,    \* place[f]: which list of the ThreadServer fd f is in
    peer,     \* peer[f]: the other end of the connection
    wire,     \* wire[f]: units sent by the client and not read
    elapsed,  \* the time since lasttime
    hung,     \* the thread loops on a message of length 0
    \* The history of the client of fd Watched:
    idle,     \* time since it was served first or last did something, while it
              \* was never passed over
    owed,     \* its messages less those that need no answer and the answers sent
    dropped,  \* answers to it that push() has dropped
    crowded,  \* more than SendSize of its messages have been owed an answer
    clean,    \* its ThreadClient had empty buffers
    skipped   \* a checkTime has passed it over

pool == <<free, made, used>>
history == <<idle, owed, dropped, crowded, clean, skipped>>
vars == <<free, made, used, obj, client, place, peer, wire, elapsed, hung,
          idle, owed, dropped, crowded, clean, skipped>>

-----------------------------------------------------------------------------
(* Mistakes: wrong versions of operators below.  Each breaks a property that *)
(* the right version satisfies; the specification uses none of them.         *)

\* push() writes past the end.
HasRoomAlways(n) == TRUE

\* alloc() without pop_front().
PopFrontNothing(q) == q

\* empty() with <= for <.
WholeOffByOne(n) == (n - 1) \div 2

\* push() leaves the last place free.
HasRoomOffByOne(n) == n + 1 < SendSize

\* checkTime sets lasttime before it takes the difference.
PassbyNothing == 0

\* checkexpire() assigns where it should add.
AgedAssigned(d, t) == t

\* Answers are collected until SendDeadTime, which never comes.
ToSendLater(n) == FALSE

-----------------------------------------------------------------------------
Place == {"none", "queued", "served"}
Peer == {"none", "open", "closed"}

TypeOK ==
    /\ free \in Seq(Obj)
    /\ made \in SUBSET Obj
    /\ used \in 0 .. NumObj
    /\ obj \in [Obj -> [recv : Seq(Unit), send : 0 .. SendSize,
                        dead : 0 .. ExpireTime]]
    /\ \A o \in Obj : Len(obj[o].recv) <= RecvSize
    /\ client \in [Fd -> Obj \cup {None}]
    /\ place \in [Fd -> Place]
    /\ peer \in [Fd -> Peer]
    /\ wire \in [Fd -> Seq(Unit)]
    /\ elapsed \in 0 .. ExpireTime
    /\ hung \in BOOLEAN
    /\ idle \in 0 .. ExpireTime
    /\ owed \in Int
    /\ dropped \in 0 .. MaxDropped
    /\ crowded \in BOOLEAN
    /\ clean \in BOOLEAN
    /\ skipped \in BOOLEAN

NewObj == [recv |-> <<>>, send |-> 0, dead |-> 0]

Init ==
    /\ free = [i \in 1 .. InitNum |-> InitNum + 1 - i]
    /\ made = 1 .. InitNum
    /\ used = 0
    /\ obj = [o \in Obj |-> NewObj]
    /\ client = [f \in Fd |-> None]
    /\ place = [f \in Fd |-> "none"]
    /\ peer = [f \in Fd |-> "none"]
    /\ wire = [f \in Fd |-> <<>>]
    /\ elapsed = 0
    /\ hung = FALSE
    /\ idle = 0
    /\ owed = 0
    /\ dropped = 0
    /\ crowded = FALSE
    /\ clean = FALSE
    /\ skipped = FALSE

\* The answers to the client of f are counted.
Tracked(f) == f = Watched /\ clean

\* Times are compared with ExpireTime and otherwise only added to.
Sat(t) == Min({t, ExpireTime})

-----------------------------------------------------------------------------
(* ObjectPool *)

\* _free_list after addnewobj(), when alloc() has to call it.
Stocked == IF free # <<>> THEN free ELSE <<Cardinality(made) + 1>>

PopFront(q) == Tail(q)

\* alloc(): the object is given out as it was left.
Alloc(o) ==
    /\ Stocked[1] \in Obj
    /\ o = Stocked[1]
    /\ free' = PopFront(Stocked)
    /\ made' = made \cup {o}
    /\ used' = used + 1

\* _ObjDeleter, for the ThreadClients of F in some order: each goes back to
\* the pool when the last shared_ptr to it is gone.
Recycle(F) ==
    /\ \E q \in [1 .. Cardinality(F) -> {client[f] : f \in F}] :
          /\ {q[i] : i \in DOMAIN q} = {client[f] : f \in F}
          /\ free' = free \o q
    /\ used' = used - Cardinality(F)
    /\ UNCHANGED made

\* The entries of F are erased from Clients.  (WiriteData does not close the
\* fd; LocalServer follows the fds, here a later client may have the same.)  The
\* entries of Over are passed over.
Leave(F, Over) ==
    /\ Recycle(F)
    /\ client' = [f \in Fd |-> IF f \in F THEN None ELSE client[f]]
    /\ place' = [f \in Fd |-> IF f \in F THEN "none" ELSE place[f]]
    /\ peer' = [f \in Fd |-> IF f \in F THEN "none" ELSE peer[f]]
    /\ wire' = [f \in Fd |-> IF f \in F THEN <<>> ELSE wire[f]]
    /\ IF Watched \in F
       THEN owed' = 0 /\ dropped' = 0 /\ crowded' = FALSE /\ clean' = FALSE
       ELSE UNCHANGED <<owed, dropped, crowded, clean>>
    /\ skipped' = (Watched \notin F /\ (skipped \/ Watched \in Over))
    /\ idle' = IF Watched \in F \cup Over THEN 0 ELSE idle

-----------------------------------------------------------------------------
(* The acceptor: EasyServer::Accept for a client that connects *)

Accept(f) ==
    /\ ~hung
    /\ place[f] = "none"
    /\ \E o \in Obj :
          /\ Alloc(o)
          /\ client' = [client EXCEPT ![f] = o]
          /\ clean' = IF f = Watched THEN obj[o].recv = <<>> /\ obj[o].send = 0 ELSE clean
    /\ place' = [place EXCEPT ![f] = "queued"]
    /\ peer' = [peer EXCEPT ![f] = "open"]
    /\ UNCHANGED <<obj, wire, elapsed, hung, idle, owed, dropped, crowded, skipped>>

-----------------------------------------------------------------------------
(* The ThreadServer *)

Served == {f \in Fd : place[f] = "served"}
Queued == {f \in Fd : place[f] = "queued"}

\* Run: ClientsBuf is moved to Clients.
Take ==
    /\ ~hung
    /\ Queued # {}
    /\ place' = [f \in Fd |-> IF f \in Queued THEN "served" ELSE place[f]]
    /\ UNCHANGED <<pool, obj, client, peer, wire, elapsed, hung, history>>

\* ThreadBuffer::empty(): whole messages in n units that begin with a header.
Whole(n) == n \div 2

Odd(r) == {i \in 1 .. Len(r) : i % 2 = 1}

\* Units begin with the rest of a message where a header should be: the buffer
\* held a part of a message when its object was recycled.
Misread(r) == \E i \in Odd(r) : r[i] = "rest"

Requests(r) == Cardinality({i \in 1 .. Len(r) : r[i] = "header"})

\* What RecvData's loop leaves in RecvBuf when RecvBuf holds r, and how many
\* messages it handles.  Bytes that are no header give any length, and what
\* they leave is again no header, or nothing, or by accident the last unit.
\* (When they fill the buffer the client leaves, as in ReadError.)
Handled(r) ==
    IF Misread(r)
    THEN [left : {<<>>, <<"rest">>, <<r[Len(r)]>>}, messages : 0 .. Requests(r)]
    ELSE {[left |-> SubSeq(r, 2 * Whole(Len(r)) + 1, Len(r)), messages |-> Whole(Len(r))]}

\* push() of k answers to a SendBuf that holds n: one that does not fit is
\* dropped, and the server does not look at what push() returns.
HasRoom(n) == n < SendSize
Fitting(n, k) == Cardinality({i \in 1 .. k : HasRoom(n + i - 1)})

Room(o) == RecvSize - Len(obj[o].recv)

\* recv() returns 0, or there is no room and read4socket returns 0.
ReadFails(f) ==
    \/ peer[f] = "closed" /\ wire[f] = <<>>
    \/ peer[f] = "open" /\ wire[f] # <<>> /\ Room(client[f]) = 0

ReadLeave(f) ==
    /\ ~hung
    /\ place[f] = "served"
    /\ ReadFails(f)
    /\ Leave({f}, {})
    /\ UNCHANGED <<obj, elapsed, hung>>

\* The same when the connection was reset: recv() returns -1.
ReadError(f) ==
    /\ ~hung
    /\ place[f] = "served"
    /\ Leave({f}, {})
    /\ UNCHANGED <<obj, elapsed, hung>>

\* ReadData for a client from which n units are received.  A message that is
\* answered also restarts the client's time.
Read(f) ==
    /\ ~hung
    /\ place[f] = "served"
    /\ ~ReadFails(f)
    /\ \E n \in 1 .. Min({Len(wire[f]), Room(client[f])}) :
          LET o == client[f]
              r == obj[o].recv \o SubSeq(wire[f], 1, n)
          IN  /\ wire' = [wire EXCEPT ![f] = SubSeq(@, n + 1, Len(@))]
              /\ \E h \in Handled(r) : \E answers \in 0 .. h.messages :
                    LET fit == Fitting(obj[o].send, answers)
                    IN  /\ obj' = [obj EXCEPT ![o] =
                                     [recv |-> h.left, send |-> @.send + fit,
                                      dead |-> IF answers > 0 THEN 0 ELSE @.dead]]
                        /\ IF Tracked(f)
                           THEN /\ owed' = owed - (h.messages - answers)
                                /\ dropped' = dropped + (answers - fit)
                                /\ dropped' <= MaxDropped
                           ELSE UNCHANGED <<owed, dropped>>
                        /\ idle' = IF f = Watched /\ answers > 0 THEN 0 ELSE idle
    /\ UNCHANGED <<pool, client, place, peer, elapsed, hung, crowded, clean, skipped>>

\* The same, when bytes that are no header give the length 0: the loop pops
\* nothing for ever.
ReadHangs(f) ==
    /\ ~hung
    /\ place[f] = "served"
    /\ ~ReadFails(f)
    /\ \E n \in 1 .. Min({Len(wire[f]), Room(client[f])}) :
          Misread(obj[client[f]].recv \o SubSeq(wire[f], 1, n))
    /\ hung' = TRUE
    /\ UNCHANGED <<pool, obj, client, place, peer, wire, elapsed, history>>

\* write2socket() sends when SendBuf is not empty, and then empties it.
ToSend(n) == n > 0
AfterSend(n) == 0

\* WiriteData for a writable client.
Write(f) ==
    /\ ~hung
    /\ place[f] = "served"
    /\ ToSend(obj[client[f]].send)
    /\ obj' = [obj EXCEPT ![client[f]].send = AfterSend(@)]
    /\ owed' = IF Tracked(f) THEN owed - obj[client[f]].send ELSE owed
    /\ UNCHANGED <<pool, client, place, peer, wire, elapsed, hung, idle, dropped, crowded,
                   clean, skipped>>

\* The same when the connection was reset and send() fails.
WriteError(f) ==
    /\ ~hung
    /\ place[f] = "served"
    /\ ToSend(obj[client[f]].send)
    /\ obj' = [obj EXCEPT ![client[f]].send = AfterSend(@)]
    /\ Leave({f}, {})
    /\ UNCHANGED <<elapsed, hung>>

Passby == elapsed
Aged(d, t) == Sat(d + t)
Expired(d) == d >= ExpireTime

\* checkTime.  Clients is in the order of the fds, and it-- after the erasure
\* of the first entry is undefined: entries may then be passed over.
CheckTime ==
    /\ ~hung
    /\ Served # {}
    /\ \E V \in SUBSET Served :
          LET aged == [f \in V |-> Aged(obj[client[f]].dead, Passby)]
              F == {f \in V : Expired(aged[f])}
          IN  /\ V = Served \/ Min(Served) \in F
              /\ obj' = [o \in Obj |->
                           IF \E f \in V : client[f] = o
                           THEN [obj[o] EXCEPT !.dead = Aged(@, Passby)]
                           ELSE obj[o]]
              /\ Leave(F, Served \ V)
    /\ elapsed' = 0
    /\ UNCHANGED hung

-----------------------------------------------------------------------------
(* Outside: the clients and the clock *)

PeerSends(f) ==
    /\ ~hung
    /\ f \in Talkers
    /\ peer[f] = "open"
    /\ Len(wire[f]) + 2 <= MaxWire
    /\ wire' = [wire EXCEPT ![f] = @ \o <<"header", "rest">>]
    /\ IF Tracked(f)
       THEN owed' = owed + 1 /\ crowded' = (crowded \/ owed' > SendSize)
       ELSE UNCHANGED <<owed, crowded>>
    /\ UNCHANGED <<pool, obj, client, place, peer, elapsed, hung, idle, dropped, clean,
                   skipped>>

\* The client closes, possibly in the middle of a message.
PeerCloses(f) ==
    /\ ~hung
    /\ f \in Talkers
    /\ peer[f] = "open"
    /\ \E n \in {0, 1} :
          /\ n <= Len(wire[f])
          /\ wire' = [wire EXCEPT ![f] = SubSeq(@, 1, Len(@) - n)]
    /\ peer' = [peer EXCEPT ![f] = "closed"]
    /\ UNCHANGED <<pool, obj, client, place, elapsed, hung, history>>

\* The rounds of the thread are shorter than a tick: it takes new clients at
\* once, and checks the time after each tick, but only while it has clients.
Tick ==
    /\ ~hung
    /\ Queued = {}
    /\ elapsed = 0 \/ Served = {}
    /\ elapsed' = Sat(elapsed + 1)
    /\ idle' = IF Watched \in Served /\ ~skipped THEN Sat(idle + 1) ELSE idle
    /\ UNCHANGED <<pool, obj, client, place, peer, wire, hung, owed, dropped, crowded, clean,
                   skipped>>

-----------------------------------------------------------------------------
Next ==
    \/ \E f \in Fd : \/ Accept(f)
                     \/ ReadLeave(f)
                     \/ ReadError(f)
                     \/ Read(f)
                     \/ ReadHangs(f)
                     \/ Write(f)
                     \/ WriteError(f)
                     \/ PeerSends(f)
                     \/ PeerCloses(f)
    \/ Take
    \/ CheckTime
    \/ Tick

Spec == Init /\ [][Next]_vars

\* The thread's loop runs all the time, select() reports every client that is
\* ready, and time passes.
FairSpec ==
    /\ Spec
    /\ WF_vars(Take)
    /\ WF_vars(CheckTime)
    /\ SF_vars(Tick)
    /\ \A f \in Fd : /\ WF_vars(Read(f) \/ ReadLeave(f))
                     /\ WF_vars(Write(f))

-----------------------------------------------------------------------------
(* Properties *)

Holders(o) == {f \in Fd : client[f] = o}
InFree(o) == {i \in DOMAIN free : free[i] = o}

\* Every ThreadClient that was made is in the pool once or belongs to one
\* client, and _UseNum is the number of those that belong to one.
PoolExact ==
    /\ \A o \in made : Cardinality(Holders(o)) + Cardinality(InFree(o)) = 1
    /\ \A o \in Obj \ made : Holders(o) = {} /\ InFree(o) = {}
    /\ used = Cardinality({f \in Fd : client[f] # None})

\* RecvData leaves less than a message in RecvBuf.  A whole message left there
\* would wait for the next one to arrive, and a buffer full of them would be
\* taken for a client that has closed (read4socket returns 0).
NoMessageWaits == clean => Len(obj[client[Watched]].recv) < 2

\* The messages of a client whose ThreadClient had empty buffers and that are
\* owed an answer are on the way, in RecvBuf, stand for an answer in SendBuf, or
\* had their answer dropped by push(): no other answer is lost, none is sent
\* twice, none goes to another client.  Answers are dropped only for a client
\* that did not wait for them: it has been owed more of them than SendBuf holds.
AnswersExact ==
    clean /\ peer[Watched] = "open"
      => LET c == obj[client[Watched]]
         IN  /\ owed = Requests(c.recv \o wire[Watched]) + c.send + dropped
             /\ dropped > 0 => crowded

\* All the time that a client has done nothing is in its _deadtime or will be
\* added to it by the next checkTime, unless one has passed it over.
IdleIsCounted ==
    Watched \in Served /\ ~skipped
      => Sat(obj[client[Watched]].dead + elapsed) >= idle

\* checkTime disconnects a client only when it has done nothing for ExpireTime.
ExpiresOnlyIdle ==
    [][elapsed > 0 /\ elapsed' = 0 /\ Watched \in Served /\ client'[Watched] = None
         /\ ~skipped => idle = ExpireTime]_vars

\* A client that does nothing is disconnected in the end.
SilentLeaves ==
    []<>(Watched \notin Served \/ idle = 0 \/ hung \/ skipped)

\* A client's messages are not left unanswered for ever, but for those whose
\* answer was dropped.
RequestsAnswered ==
    \/ []<>(owed <= dropped \/ hung \/ Watched \notin Served)
    \/ []<><<owed' < owed>>_vars
=============================================================================
