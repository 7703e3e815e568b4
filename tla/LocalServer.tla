----------------------------- MODULE LocalServer -----------------------------
(***************************************************************************)
(* The local server: one thread accepts clients and hands each to the least *)
(* loaded of several ThreadServers, whose threads serve them with select(). *)
(* Every thread is run by a ThreadControl; the main thread starts them and, *)
(* on the command "exit", ends them one after the other with                *)
(* ThreadControl::Close, which waits on a ThreadSemaphore, and deletes the  *)
(* ThreadServers.                                                           *)
(*                                                                          *)
(* A client is its fd.  What clients say to each other is left out: reading *)
(* a message and queueing the answer changes nothing that is modelled here, *)
(* but for a message whose header says 0 bytes: RecvData never gets past it. *)
(***************************************************************************)
EXTENDS Integers, FiniteSets

CONSTANTS
    NumServers,   \* _ThreadServer_COUNT
    MaxFd,        \* fds a process may have; the client fds are 1 .. MaxFd
    MaxClient,    \* clients at which a ThreadServer is full
    MaxConnects,  \* bound: clients that connect
    CountMod      \* ClietnCount is unsigned: it wraps (2^32 in the code)

\* A process has 1024 fds and the server 4 ThreadServers of 1025 clients.
ASSUME LocalServerAssumption ==
    /\ NumServers \in Nat \ {0}
    /\ MaxFd \in Nat
    /\ MaxClient \in Nat /\ 2 * MaxFd < NumServers * MaxClient
    /\ MaxConnects \in Nat
    /\ CountMod \in Nat \ {0}

Servers == 1 .. NumServers
Fd == 1 .. MaxFd

\* The threads, each with its ThreadControl: the acceptor (EasyServer::Run),
\* and in every ThreadServer its own (ThreadServer::Run) and the one of its
\* ThreadTaskServer.
Acceptor == <<"accept", 0>>
Worker(i) == <<"server", i>>
Task(i) == <<"task", i>>
Thread == {Acceptor} \cup {Worker(i) : i \in Servers} \cup {Task(i) : i \in Servers}

VARIABLES
    main,      \* where the main thread is, and the ThreadServer it is at
    life,      \* life[i]: is ThreadServer i there
    at,        \* at[t]: where thread t is
    isRun,     \* isRun[t]: ThreadControl's flag
    sem,       \* sem[t]: ThreadControl's ThreadSemaphore
    failed,    \* threads whose select() has failed (history)
    sock,      \* sock[f]: the socket behind fd f
    backlog,   \* clients in the listening socket's backlog
    connects,  \* clients that have connected (history)
    acc,       \* the variables of Accept and addclient2pThreadServer
    buf,       \* buf[i]: ClientsBuf of ThreadServer i
    clients,   \* clients[i]: Clients
    change,    \* change[i]: clientchange
    fdset,     \* fdset[i]: fdRead_back
    count      \* ClietnCount

control == <<main, life, isRun, sem>>
held == <<buf, clients, change, fdset>>
outside == <<backlog, connects>>
vars == <<main, life, at, isRun, sem, failed, sock, backlog, connects, acc,
          buf, clients, change, fdset, count>>

-----------------------------------------------------------------------------
(* Mistakes: wrong versions of operators below.  Each breaks a property that *)
(* the right version satisfies; the specification uses none of them.         *)

\* The semaphore lets everybody pass.
BlocksNever(s) == FALSE

\* wakeup() counts only waits that have begun.
WakenedOnlyWaiting(s) ==
    IF s.wait < 0 THEN [wait |-> s.wait + 1, wakeup |-> s.wakeup] ELSE s

\* Clients are removed without clientchange.
ChangedNever(i, D) == UNCHANGED change

\* Clients are closed and stay in the map.
EraseNever(i, D) == UNCHANGED clients

\* A client that leaves is not reported.
OnNetLeaveForgotten(D) == UNCHANGED count

\* ClietnCount does not wrap.
OnNetLeaveSigned(D) == count' = count - Cardinality(D)

\* MaxClient starts as a maximum would.
StartMaxZero == 0

-----------------------------------------------------------------------------
Place == {"new", "loop", "clear", "select", "read", "write", "time",
          "pick", "measure", "join", "hung", "exit", "destroy", "wakeup",
          "ended"}

TypeOK ==
    /\ main \in [pc : {"start", "serving", "close", "wait", "blocked",
                       "returned", "closed"}, i : 0 .. NumServers]
    /\ life \in [Servers -> {"none", "made", "deleted"}]
    /\ at \in [Thread -> Place]
    /\ isRun \in [Thread -> BOOLEAN]
    /\ sem \in [Thread -> [wait : -1 .. 1, wakeup : 0 .. 1]]
    /\ failed \in SUBSET Thread
    /\ sock \in [Fd -> {"free", "open", "closed"}]
    /\ backlog \in 0 .. MaxConnects
    /\ connects \in 0 .. MaxConnects
    /\ acc \in [fd : 0 .. MaxFd, next : 0 .. NumServers + 1,
                temp : 0 .. NumServers, max : Nat]
    /\ buf \in [Servers -> SUBSET Fd]
    /\ clients \in [Servers -> SUBSET Fd]
    /\ change \in [Servers -> BOOLEAN]
    /\ fdset \in [Servers -> SUBSET Fd]
    /\ count \in 0 .. CountMod - 1

NoAccept == [fd |-> 0, next |-> 0, temp |-> 0, max |-> 0]

Init ==
    /\ main = [pc |-> "start", i |-> 1]
    /\ life = [i \in Servers |-> "none"]
    /\ at = [t \in Thread |-> "new"]
    /\ isRun = [t \in Thread |-> FALSE]
    /\ sem = [t \in Thread |-> [wait |-> 0, wakeup |-> 0]]
    /\ failed = {}
    /\ sock = [f \in Fd |-> "free"]
    /\ backlog = 0
    /\ connects = 0
    /\ acc = NoAccept
    /\ buf = [i \in Servers |-> {}]
    /\ clients = [i \in Servers |-> {}]
    /\ change = [i \in Servers |-> TRUE]
    /\ fdset = [i \in Servers |-> {}]
    /\ count = 0

Goto(t, p) == at' = [at EXCEPT ![t] = p]

-----------------------------------------------------------------------------
(* ThreadSemaphore: both operations run under its mutex *)

\* wait() up to the wait for _cv; Blocks says whether it comes to that.
Waiting(s) == [s EXCEPT !.wait = @ - 1]
Blocks(s) == s.wait < 0

\* wakeup()
Wakened(s) ==
    [wait |-> s.wait + 1, wakeup |-> s.wakeup + (IF s.wait + 1 <= 0 THEN 1 ELSE 0)]

-----------------------------------------------------------------------------
(* Clients *)

Connect ==
    /\ connects < MaxConnects
    /\ connects' = connects + 1
    /\ backlog' = backlog + 1
    /\ UNCHANGED <<control, at, failed, sock, acc, held, count>>

PeerClose(f) ==
    /\ sock[f] = "open"
    /\ sock' = [sock EXCEPT ![f] = "closed"]
    /\ UNCHANGED <<control, at, failed, outside, acc, held, count>>

-----------------------------------------------------------------------------
(* The main thread: EasyServer::Start, then Close on the command "exit" *)

\* new ThreadServer, ThreadServer::Start
StartServer ==
    /\ main.pc = "start" /\ main.i <= NumServers
    /\ life[main.i] = "none"
    /\ LET new == {Worker(main.i), Task(main.i)} IN
         /\ isRun' = [t \in Thread |-> t \in new \/ isRun[t]]
         /\ at' = [t \in Thread |-> IF t \in new THEN "loop" ELSE at[t]]
    /\ life' = [life EXCEPT ![main.i] = "made"]
    /\ main' = IF main.i < NumServers THEN [main EXCEPT !.i = @ + 1] ELSE main
    /\ UNCHANGED <<sem, failed, sock, outside, acc, held, count>>

StartAcceptor ==
    /\ main.pc = "start" /\ life[NumServers] = "made"
    /\ isRun' = [isRun EXCEPT ![Acceptor] = TRUE]
    /\ Goto(Acceptor, "loop")
    /\ main' = [pc |-> "serving", i |-> 0]
    /\ UNCHANGED <<life, sem, failed, sock, outside, acc, held, count>>

\* main() reads "exit": EasyServer::Close begins with the acceptor.
ExitCommand ==
    /\ main.pc = "serving"
    /\ main' = [main EXCEPT !.pc = "close"]
    /\ UNCHANGED <<life, at, isRun, sem, failed, sock, outside, acc, held, count>>

\* The thread that EasyServer::Close or ~ThreadServer is closing.
Target == IF main.i = 0 THEN Acceptor ELSE Worker(main.i)

\* ThreadControl::Close holds _mutex while it waits for the thread.
Locked(t) == main.pc \in {"wait", "blocked"} /\ Target = t

\* ThreadControl::Close up to _sem.wait(): nothing to do if Exit came first.
CloseThread ==
    /\ main.pc = "close"
    /\ isRun' = [isRun EXCEPT ![Target] = FALSE]
    /\ main' = [main EXCEPT !.pc = IF isRun[Target] THEN "wait" ELSE "returned"]
    /\ UNCHANGED <<life, at, sem, failed, sock, outside, acc, held, count>>

\* _sem.wait(): returns at once, or waits for _cv ...
SemWait ==
    /\ main.pc = "wait"
    /\ sem' = [sem EXCEPT ![Target] = Waiting(@)]
    /\ main' = [main EXCEPT !.pc = IF Blocks(Waiting(sem[Target]))
                                   THEN "blocked" ELSE "returned"]
    /\ UNCHANGED <<life, at, isRun, failed, sock, outside, acc, held, count>>

\* ... until _wakeup is positive.
SemPass ==
    /\ main.pc = "blocked"
    /\ sem[Target].wakeup > 0
    /\ sem' = [sem EXCEPT ![Target].wakeup = @ - 1]
    /\ main' = [main EXCEPT !.pc = "returned"]
    /\ UNCHANGED <<life, at, isRun, failed, sock, outside, acc, held, count>>

\* Close of the target has returned: a ThreadServer is deleted, and the next
\* one is closed.
CloseNext ==
    /\ main.pc = "returned"
    /\ life' = [i \in Servers |-> IF i = main.i THEN "deleted" ELSE life[i]]
    /\ main' = IF main.i < NumServers THEN [pc |-> "close", i |-> main.i + 1]
               ELSE [main EXCEPT !.pc = "closed"]
    /\ UNCHANGED <<at, isRun, sem, failed, sock, outside, acc, held, count>>

-----------------------------------------------------------------------------
(* What ThreadControl does around the function it runs *)

\* The function's loop ends because isRun is false.
LeaveLoop(t) ==
    /\ at[t] = "loop" /\ ~isRun[t]
    /\ Goto(t, "destroy")
    /\ UNCHANGED <<control, failed, sock, outside, acc, held, count>>

\* select() returns -1: the thread is going to call Exit and return.
SelectFails(t) ==
    /\ \/ t = Acceptor /\ at[t] = "loop" /\ isRun[t]
       \/ at[t] = "select"
    /\ failed' = failed \cup {t}
    /\ Goto(t, "exit")
    /\ UNCHANGED <<control, sock, outside, acc, held, count>>

\* ThreadControl::Exit
Exit(t) ==
    /\ at[t] = "exit" /\ ~Locked(t)
    /\ isRun' = [isRun EXCEPT ![t] = FALSE]
    /\ Goto(t, "destroy")
    /\ UNCHANGED <<main, life, sem, failed, sock, outside, acc, held, count>>

\* _Destory: ClearAllCLient for a ThreadServer, nothing for the others.
Destroy(t) ==
    /\ at[t] = "destroy"
    /\ buf' = [i \in Servers |-> IF t = Worker(i) THEN {} ELSE buf[i]]
    /\ clients' = [i \in Servers |-> IF t = Worker(i) THEN {} ELSE clients[i]]
    /\ Goto(t, "wakeup")
    /\ UNCHANGED <<control, failed, sock, outside, acc, change, fdset, count>>

\* _sem.wakeup()
SemWakeup(t) ==
    /\ at[t] = "wakeup"
    /\ sem' = [sem EXCEPT ![t] = Wakened(@)]
    /\ Goto(t, "ended")
    /\ UNCHANGED <<main, life, isRun, failed, sock, outside, acc, held, count>>

-----------------------------------------------------------------------------
(* The acceptor: EasyServer::Run *)

\* What addclient2pThreadServer's MaxClient starts with.
StartMax == MaxClient

\* accept() returns the lowest fd that is free.  Without one it fails and the
\* loop goes on.
Accept ==
    /\ at[Acceptor] = "loop" /\ isRun[Acceptor] /\ backlog > 0
    /\ \E f \in Fd :
         /\ sock[f] = "free" /\ \A g \in Fd : g < f => sock[g] # "free"
         /\ sock' = [sock EXCEPT ![f] = "open"]
         /\ acc' = [fd |-> f, next |-> 1, temp |-> 0, max |-> StartMax]
    /\ backlog' = backlog - 1
    /\ Goto(Acceptor, "pick")
    /\ UNCHANGED <<control, failed, connects, held, count>>

\* getTotalClient reads the two sizes without the mutex: while ThreadServer i
\* moves clients from one to the other, they may count twice or not at all.
TotalClient(i) ==
    {Cardinality(clients[i]) + Cardinality(buf[i])}
      \cup (IF at[Worker(i)] = "clear"
            THEN {Cardinality(clients[i]), Cardinality(clients[i] \ buf[i])}
            ELSE {})

\* One turn of addclient2pThreadServer's loop: the test ...
PickServer ==
    /\ at[Acceptor] = "pick" /\ acc.next <= NumServers
    /\ \E n \in TotalClient(acc.next) :
         IF n < acc.max
         THEN /\ acc' = [acc EXCEPT !.temp = acc.next]
              /\ Goto(Acceptor, "measure")
         ELSE /\ acc' = [acc EXCEPT !.next = @ + 1]
              /\ UNCHANGED at
    /\ UNCHANGED <<control, failed, sock, outside, held, count>>

\* ... and the second call of getTotalClient.
MeasureServer ==
    /\ at[Acceptor] = "measure"
    /\ \E n \in TotalClient(acc.temp) :
         acc' = [acc EXCEPT !.max = n, !.next = @ + 1]
    /\ Goto(Acceptor, "pick")
    /\ UNCHANGED <<control, failed, sock, outside, held, count>>

\* ThreadServer::addClient, under the ThreadServer's mutex.  A null temp would
\* be undefined: ServerFound says that there is none.
AddClient ==
    /\ at[Acceptor] = "pick" /\ acc.next > NumServers /\ acc.temp # 0
    /\ at[Worker(acc.temp)] # "clear"
    /\ buf' = [buf EXCEPT ![acc.temp] = @ \cup {acc.fd}]
    /\ Goto(Acceptor, "join")
    /\ UNCHANGED <<control, failed, sock, outside, acc, clients, change, fdset,
                   count>>

\* The client is counted after the ThreadServer has it.
OnNetJoin ==
    /\ at[Acceptor] = "join"
    /\ count' = (count + 1) % CountMod
    /\ acc' = NoAccept
    /\ Goto(Acceptor, "loop")
    /\ UNCHANGED <<control, failed, sock, outside, held>>

-----------------------------------------------------------------------------
(* ThreadServer::Run *)

HasNewClients(i) == buf[i] # {}

\* The new clients are put in Clients and then removed from ClientsBuf, both
\* under the mutex.
TakeClients(i) ==
    /\ at[Worker(i)] = "loop" /\ isRun[Worker(i)] /\ HasNewClients(i)
    /\ clients' = [clients EXCEPT ![i] = @ \cup buf[i]]
    /\ Goto(Worker(i), "clear")
    /\ UNCHANGED <<control, failed, sock, outside, acc, buf, change, fdset, count>>

ClearClientsBuf(i) ==
    /\ at[Worker(i)] = "clear"
    /\ buf' = [buf EXCEPT ![i] = {}]
    /\ change' = [change EXCEPT ![i] = TRUE]
    /\ Goto(Worker(i), "select")
    /\ UNCHANGED <<control, failed, sock, outside, acc, clients, fdset, count>>

\* No new client; without any client the thread sleeps and tries again.
NoNewClients(i) ==
    /\ at[Worker(i)] = "loop" /\ isRun[Worker(i)] /\ ~HasNewClients(i)
    /\ clients[i] # {}
    /\ Goto(Worker(i), "select")
    /\ UNCHANGED <<control, failed, sock, outside, acc, held, count>>

\* The set of fds is rebuilt if clientchange says so.
Select(i) ==
    /\ at[Worker(i)] = "select"
    /\ fdset' = [fdset EXCEPT ![i] = IF change[i] THEN clients[i] ELSE @]
    /\ change' = [change EXCEPT ![i] = FALSE]
    /\ Goto(Worker(i), "read")
    /\ UNCHANGED <<control, failed, sock, outside, acc, buf, clients, count>>

\* What the three passes over Clients do to a client they drop.
Erase(i, D) == clients' = [clients EXCEPT ![i] = @ \ D]
Changed(i, D) == change' = [change EXCEPT ![i] = @ \/ D # {}]
OnNetLeave(D) == count' = (count - Cardinality(D)) % CountMod
CloseFds(D) == sock' = [f \in Fd |-> IF f \in D THEN "free" ELSE sock[f]]

\* A pass that should drop the clients D.  When it drops the first client,
\* "it--" steps before begin(), which is undefined: the map's iterator goes on
\* near the last client, and those between may be left for a later pass.
Passes(i, D) ==
    {E \in SUBSET D :
       \/ E = D
       \/ \E f \in E : /\ \A g \in clients[i] : f <= g
                       /\ \A g \in D \ E : \E h \in clients[i] : g < h}

Closed(i) == {f \in clients[i] \cap fdset[i] : sock[f] = "closed"}

ReadData(i) ==
    /\ at[Worker(i)] = "read"
    /\ \E D \in Passes(i, Closed(i)) :
         Erase(i, D) /\ Changed(i, D) /\ OnNetLeave(D) /\ CloseFds(D)
    /\ Goto(Worker(i), "write")
    /\ UNCHANGED <<control, failed, outside, acc, buf, fdset>>

\* RecvData's loop over the messages of client f does not end when a header
\* says 0 bytes: empty() stays false and pop_front() takes nothing.  The pass
\* has dealt with the clients before f.
RecvDataHangs(i) ==
    /\ at[Worker(i)] = "read"
    /\ \E f \in {g \in clients[i] \cap fdset[i] : sock[g] = "open"} :
       \E D \in Passes(i, {g \in Closed(i) : g < f}) :
         Erase(i, D) /\ Changed(i, D) /\ OnNetLeave(D) /\ CloseFds(D)
    /\ Goto(Worker(i), "hung")
    /\ UNCHANGED <<control, failed, outside, acc, buf, fdset>>

\* send() can fail for a client that has closed since; the fd stays open.
WiriteData(i) ==
    /\ at[Worker(i)] = "write"
    /\ \E D \in SUBSET Closed(i) : Erase(i, D) /\ Changed(i, D) /\ OnNetLeave(D)
    /\ Goto(Worker(i), "time")
    /\ UNCHANGED <<control, failed, sock, outside, acc, buf, fdset>>

\* Any client may have been silent for ExpireTime.
CheckTime(i) ==
    /\ at[Worker(i)] = "time"
    /\ \E D \in SUBSET clients[i] :
         Erase(i, D) /\ Changed(i, D) /\ OnNetLeave(D) /\ CloseFds(D)
    /\ Goto(Worker(i), "loop")
    /\ UNCHANGED <<control, failed, outside, acc, buf, fdset>>

-----------------------------------------------------------------------------
Starting == StartServer \/ StartAcceptor
Closing == CloseThread \/ SemWait \/ SemPass \/ CloseNext
Ending(t) == LeaveLoop(t) \/ Exit(t) \/ Destroy(t) \/ SemWakeup(t)
Accepting == Accept \/ PickServer \/ MeasureServer \/ AddClient \/ OnNetJoin
Serving(i) ==
    \/ TakeClients(i) \/ ClearClientsBuf(i) \/ NoNewClients(i) \/ Select(i)
    \/ ReadData(i) \/ RecvDataHangs(i) \/ WiriteData(i) \/ CheckTime(i)

Next ==
    \/ Connect \/ \E f \in Fd : PeerClose(f)
    \/ Starting \/ ExitCommand \/ Closing
    \/ \E t \in Thread : SelectFails(t) \/ Ending(t)
    \/ Accepting
    \/ \E i \in Servers : Serving(i)

Spec == Init /\ [][Next]_vars

\* Every thread goes on when it can.  Nothing is assumed of the clients, of the
\* user who types "exit", and of select()'s failures.
FairSpec ==
    /\ Spec
    /\ WF_vars(Starting) /\ WF_vars(Closing) /\ WF_vars(Accepting)
    /\ \A t \in Thread : WF_vars(Ending(t))
    /\ \A i \in Servers : WF_vars(Serving(i))

-----------------------------------------------------------------------------
(* Properties *)

\* An fd that a ThreadServer or the acceptor works with is open and is in one
\* hand: addclient2pThreadServer gives it to one ThreadServer, and a pass that
\* closes it has erased it before accept() returns the number again.
FdHeldOnce ==
    \A f \in Fd :
      LET servers == {i \in Servers : f \in buf[i] \cup clients[i]}
          accepting == at[Acceptor] \in {"pick", "measure"} /\ acc.fd = f
      IN  /\ accepting => servers = {}
          /\ servers # {} \/ accepting => sock[f] # "free"
          /\ Cardinality(servers) <= 1
          /\ \A i \in servers :
               f \in buf[i] \cap clients[i] => at[Worker(i)] = "clear"

\* addclient2pThreadServer finds a ThreadServer, even if it counts the clients
\* that one of them is moving twice: temp is not null when it is used.
ServerFound ==
    at[Acceptor] = "pick" /\ acc.next > NumServers => acc.temp # 0

\* When select() is called, the cached set fdRead_back is that of Clients or
\* clientchange says that it must be rebuilt: no closed fd is passed to
\* select() and no client is forgotten.
FdSetCurrent ==
    \A i \in Servers :
        at[Worker(i)] = "select" => change[i] \/ fdset[i] = clients[i]

\* ClietnCount is the number of clients the ThreadServers hold, less the one
\* that has been handed over and not counted yet: it may pass below zero and
\* comes back.  It is so until a ThreadServer clears its clients.
ClientCountExact ==
    (\A i \in Servers : at[Worker(i)] \notin {"wakeup", "ended"}) =>
      LET all == UNION {buf[i] \cup clients[i] : i \in Servers}
          joining == IF at[Acceptor] = "join" THEN 1 ELSE 0
      IN  count = (Cardinality(all) - joining) % CountMod

\* EasyServer::Close deletes a ThreadServer only when its thread has ended,
\* unless select() failed in it, and when the acceptor no longer uses it.
ThreadEndsBeforeDelete ==
    \A i \in Servers : life[i] = "deleted" =>
        /\ at[Worker(i)] = "ended" \/ Worker(i) \in failed
        /\ at[Acceptor] \notin {"pick", "measure", "join"}

\* EasyServer::Close returns, unless select() fails: then Exit may wait for
\* the mutex that Close holds while it waits for the thread.  Nor does it
\* return when a client has sent a header of 0 bytes: the thread it waits for
\* is in RecvData's loop and never tests isRun again.
RecvDataHung == \E i \in Servers : at[Worker(i)] = "hung"

CloseReturns ==
    main.pc = "close" ~> (main.pc = "closed" \/ failed # {} \/ RecvDataHung)
=============================================================================
