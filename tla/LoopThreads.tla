---------------------------- MODULE LoopThreads -----------------------------
(***************************************************************************)
(* The threads of a program (ThreadEventLoop) and their pool               *)
(* (ThreadEventLoopPoll), from the main thread's start-up to the choice of *)
(* a thread for each connection.  Thread 0 is publicListenThread_ of the   *)
(* ProxyServer, made before the pool runs and waited for after it; the     *)
(* ProxyClient is the same without it.                                     *)
(*                                                                         *)
(* The constructor of ThreadEventLoop starts the thread, WaitRun, before   *)
(* it constructs mutex_ and cv2_, and never writes start_: what the thread *)
(* and StartRun find there is what the memory held (RawStart, RawWord).    *)
(* Constructing mutex_ stores zeros over whatever it has become.           *)
(***************************************************************************)
EXTENDS Naturals, Sequences

CONSTANTS
    Num,       \* thread_num_
    RawStart,  \* what start_ may be before it is written
    RawWord,   \* what mutex_ may look like before it is constructed
    MaxConn    \* bound: connections handed to one thread

ASSUME LoopThreadsAssumption ==
    /\ Num \in Nat \ {0}
    /\ RawStart \subseteq BOOLEAN
    /\ RawWord \subseteq {"free", "taken"}
    /\ MaxConn \in Nat

Worker == 1 .. Num
Listener == 0
Thread == {Listener} \cup Worker

\* A mutex: free, taken, or taken and waited for.
Word == {"free", "taken", "waited"}

StartUp == {"new", "construct", "lock", "asleep", "test", "wait", "waiting"}
MainPc == StartUp \cup {"serve", "add", "crashed"}
ThreadPc == {"none", "make", "lock", "asleep", "set", "unlock", "loop"}

VARIABLES
    at,      \* where the main thread is
    cur,     \* the thread it is making, waiting for or handing a connection to
    pc,      \* pc[i]: where thread i is in WaitRun
    start,   \* start[i]: start_
    loop,    \* loop[i]: loop_ is set
    word,    \* word[i]: mutex_ (external)
    threads, \* threads_
    nextId,  \* next_thread_id_
    copied,  \* the Connect being made has a loop_
    given,   \* given[i]: connections AddConnect has given to thread i
    orphan,  \* a connection was made without a loop_
    listens, \* the listening socket of a Tunnel is with the listener
    early,   \* early[i]: start_ was true before it was written (history)
    raced    \* raced[i]: mutex_ was used before it was constructed (history)

pool == <<threads, nextId>>
serving == <<copied, given, orphan, listens>>
vars == <<at, cur, pc, start, loop, word, pool, serving, early, raced>>

TypeOK ==
    /\ at \in MainPc
    /\ cur \in Thread
    /\ pc \in [Thread -> ThreadPc]
    /\ start \in [Thread -> BOOLEAN]
    /\ loop \in [Thread -> BOOLEAN]
    /\ word \in [Thread -> Word]
    /\ threads \in Seq(Worker)
    /\ nextId \in 0 .. Num - 1
    /\ copied \in BOOLEAN
    /\ given \in [Worker -> Nat]
    /\ orphan \in BOOLEAN
    /\ listens \in BOOLEAN
    /\ early \in [Thread -> BOOLEAN]
    /\ raced \in [Thread -> BOOLEAN]

\* main() is about to construct the Server, which begins with the listener.
Init ==
    /\ at = "new"
    /\ cur = Listener
    /\ pc = [i \in Thread |-> "none"]
    /\ start = [i \in Thread |-> FALSE]
    /\ loop = [i \in Thread |-> FALSE]
    /\ word = [i \in Thread |-> "free"]
    /\ threads = <<>>
    /\ nextId = 0
    /\ copied = FALSE
    /\ given = [i \in Worker |-> 0]
    /\ orphan = FALSE
    /\ listens = FALSE
    /\ early = [i \in Thread |-> FALSE]
    /\ raced = [i \in Thread |-> FALSE]

-----------------------------------------------------------------------------
(* Mistakes: wrong versions of operators below.  Each breaks a property that *)
(* the right version satisfies; the specification uses none of them.         *)

\* StartRun does not wait; nobody is notified; wait() keeps the mutex.
MustWaitNever == FALSE
WaitsForNobody(i) == FALSE
KeepsWord(i) == word[i]

-----------------------------------------------------------------------------
(* mutex_, as pthreads make it: one word, and a sleeper is woken by an unlock *)
(* that finds it waited for.                                                  *)

Lock(i) == word[i] = "free" /\ word' = [word EXCEPT ![i] = "taken"]

Sleep(i) == word[i] # "free" /\ word' = [word EXCEPT ![i] = "waited"]

Released(i) == "free"

\* The two threads that can sleep, after an unlock.
ThreadWoken(i) == IF pc[i] = "asleep" /\ word[i] = "waited" THEN "lock" ELSE pc[i]
MainWoken(i) ==
    IF at = "asleep" /\ cur = i /\ word[i] = "waited" THEN "lock" ELSE at

\* Thread i uses mutex_ while the main thread has yet to construct it.
Unconstructed(i) == at = "construct" /\ cur = i

-----------------------------------------------------------------------------
(* WaitRun, on thread i *)

\* loop_ is still empty: it is constructed before the thread is started.
MakeLoop(i) ==
    /\ pc[i] = "make"
    /\ pc' = [pc EXCEPT ![i] = "lock"]
    /\ loop' = [loop EXCEPT ![i] = TRUE]
    /\ UNCHANGED <<at, cur, start, word, pool, serving, early, raced>>

WaitRunLock(i) ==
    /\ pc[i] = "lock"
    /\ pc' = [pc EXCEPT ![i] = "set"]
    /\ Lock(i)
    /\ raced' = [raced EXCEPT ![i] = @ \/ Unconstructed(i)]
    /\ UNCHANGED <<at, cur, start, loop, pool, serving, early>>

WaitRunSleep(i) ==
    /\ pc[i] = "lock"
    /\ pc' = [pc EXCEPT ![i] = "asleep"]
    /\ Sleep(i)
    /\ raced' = [raced EXCEPT ![i] = @ \/ Unconstructed(i)]
    /\ UNCHANGED <<at, cur, start, loop, pool, serving, early>>

\* StartRun of thread i is inside cv2_.wait.
Waiting(i) == at = "waiting" /\ cur = i

\* start_ = true, notify_all
SetStart(i) ==
    /\ pc[i] = "set"
    /\ pc' = [pc EXCEPT ![i] = "unlock"]
    /\ start' = [start EXCEPT ![i] = TRUE]
    /\ at' = IF Waiting(i) THEN "lock" ELSE at
    /\ UNCHANGED <<cur, loop, word, pool, serving, early, raced>>

\* The lock is released; Loop never returns.
WaitRunLoop(i) ==
    /\ pc[i] = "unlock"
    /\ pc' = [pc EXCEPT ![i] = "loop"]
    /\ at' = MainWoken(i)
    /\ word' = [word EXCEPT ![i] = "free"]
    /\ UNCHANGED <<cur, start, loop, pool, serving, early, raced>>

-----------------------------------------------------------------------------
(* The main thread: ThreadEventLoop's constructor, StartRun and Run *)

\* Memory for the object; its thread is started.
NewThread ==
    /\ at = "new"
    /\ at' = "construct"
    /\ pc' = [pc EXCEPT ![cur] = "make"]
    /\ \E raw \in RawStart :
          /\ start' = [start EXCEPT ![cur] = raw]
          /\ early' = [early EXCEPT ![cur] = raw]
    /\ \E raw \in RawWord : word' = [word EXCEPT ![cur] = raw]
    /\ UNCHANGED <<cur, loop, pool, serving, raced>>

\* mutex_() and cv2_(); the listener is waited for only when the pool runs.
ConstructMutex ==
    /\ at = "construct"
    /\ word' = [word EXCEPT ![cur] = "free"]
    /\ IF cur = Listener
       THEN at' = "new" /\ cur' = 1
       ELSE at' = "lock" /\ UNCHANGED cur
    /\ UNCHANGED <<pc, start, loop, pool, serving, early, raced>>

StartRunLock ==
    /\ at = "lock"
    /\ \/ Lock(cur) /\ at' = "test"
       \/ Sleep(cur) /\ at' = "asleep"
    /\ UNCHANGED <<cur, pc, start, loop, pool, serving, early, raced>>

MustWait == ~start[cur]

\* What follows StartRun of thread cur: the next turn of Run's loop, then the
\* listener, then the main loop.
AfterStartRun ==
    \/ /\ cur \in Worker \ {Num}
       /\ at' = "new"
       /\ cur' = cur + 1
    \/ /\ cur = Num
       /\ at' = "lock"
       /\ cur' = Listener
    \/ /\ cur = Listener
       /\ at' = "serve"
       /\ UNCHANGED cur

\* start_ is found true: StartRun returns, and Run keeps the thread.
StartRunReturns ==
    /\ at = "test" /\ ~MustWait
    /\ AfterStartRun
    /\ threads' = IF cur = Listener THEN threads ELSE Append(threads, cur)
    /\ word' = [word EXCEPT ![cur] = "free"]
    /\ pc' = [pc EXCEPT ![cur] = ThreadWoken(cur)]
    /\ UNCHANGED <<start, loop, nextId, serving, early, raced>>

\* start_ is found false ...
StartRunTest ==
    /\ at = "test" /\ MustWait
    /\ at' = "wait"
    /\ UNCHANGED <<cur, pc, start, loop, word, pool, serving, early, raced>>

\* ... and cv2_.wait releases the lock and waits.
StartRunWait ==
    /\ at = "wait"
    /\ at' = "waiting"
    /\ word' = [word EXCEPT ![cur] = Released(cur)]
    /\ pc' = [pc EXCEPT ![cur] = ThreadWoken(cur)]
    /\ UNCHANGED <<cur, start, loop, pool, serving, early, raced>>

\* wait() may return without having been notified.
SpuriousWakeup ==
    /\ at = "waiting"
    /\ at' = "lock"
    /\ UNCHANGED <<cur, pc, start, loop, word, pool, serving, early, raced>>

-----------------------------------------------------------------------------
(* The main loop uses the threads *)

NextThread(k) == (k + 1) % Num

\* newProxyConnHandler and createProxyConn: a thread is chosen, and the
\* constructor of TransConnect copies its loop_.
PickRandThread ==
    /\ at = "serve"
    /\ given[threads[nextId + 1]] < MaxConn
    /\ cur' = threads[nextId + 1]
    /\ nextId' = NextThread(nextId)
    /\ copied' = loop[threads[nextId + 1]]
    /\ at' = "add"
    /\ UNCHANGED <<pc, start, loop, word, threads, given, orphan, listens,
                   early, raced>>

\* loop_->AddToPoller: with an empty loop_ the program crashes.
AddConnect ==
    /\ at = "add"
    /\ IF loop[cur]
       THEN /\ at' = "serve"
            /\ given' = [given EXCEPT ![cur] = @ + 1]
            /\ orphan' = (orphan \/ ~copied)
       ELSE at' = "crashed" /\ UNCHANGED <<given, orphan>>
    /\ copied' = FALSE
    /\ UNCHANGED <<cur, pc, start, loop, word, pool, listens, early, raced>>

\* The constructor of the ProxyServer's Tunnel: AddChannel on the listener.
AddChannel ==
    /\ at = "serve" /\ ~listens
    /\ IF loop[Listener]
       THEN listens' = TRUE /\ UNCHANGED at
       ELSE at' = "crashed" /\ UNCHANGED listens
    /\ UNCHANGED <<cur, pc, start, loop, word, pool, copied, given, orphan,
                   early, raced>>

-----------------------------------------------------------------------------
WaitRun(i) ==
    \/ MakeLoop(i) \/ WaitRunLock(i) \/ WaitRunSleep(i)
    \/ SetStart(i) \/ WaitRunLoop(i)

Run ==
    \/ NewThread \/ ConstructMutex
    \/ StartRunLock \/ StartRunReturns \/ StartRunTest \/ StartRunWait

Serve ==
    \/ PickRandThread \/ AddConnect
    \/ AddChannel

Next == Run \/ SpuriousWakeup \/ Serve \/ \E i \in Thread : WaitRun(i)

Spec == Init /\ [][Next]_vars

\* Every thread runs on and gets a mutex that is released again and again;
\* nobody has to connect, and wait() need not return without being notified.
Fairness ==
    /\ WF_vars(Run)
    /\ \A i \in Thread : WF_vars(WaitRun(i)) /\ SF_vars(WaitRunLock(i))

FairSpec == Spec /\ Fairness

-----------------------------------------------------------------------------
(* Properties *)

\* The threads StartRun has returned for.
Started ==
    {threads[k] : k \in 1 .. Len(threads)}
      \cup IF at \in {"serve", "add", "crashed"} THEN {Listener} ELSE {}

\* A thread StartRun has returned for has its loop_, so that no connection is
\* made without one and nothing is added to an empty one, unless start_ was
\* true in the memory of some thread.
LoopThere ==
    (\A i \in Thread : ~early[i])
      => at # "crashed" /\ ~orphan /\ \A i \in Started : loop[i]

\* PickRandThread goes round: no thread gets two connections more than another.
LoadIsEven ==
    \A i, j \in Worker : given[i] <= given[j] + 1

\* The program gets to its main loop, "waits for external events", unless a
\* thread used its mutex before it was constructed: no notify_all is missed.
StartUpEndsUnlessRaced ==
    <>(at \in {"serve", "add", "crashed"} \/ \E i \in Thread : raced[i])

\* With that exception a thread, once made, runs its event loop, whatever the
\* main thread does to mutex_ meanwhile.
ThreadsLoop ==
    \A i \in Thread : (pc[i] # "none") ~> (pc[i] = "loop" \/ raced[i])
=============================================================================
