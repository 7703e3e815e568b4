-------------------------- MODULE LocalServer_proofs --------------------------
(***************************************************************************)
(* For any number of ThreadServers, fds and clients:                        *)
(*   - EasyServer::Close deletes a ThreadServer only after its thread has   *)
(*     ended and the acceptor has stopped using it, unless select() failed  *)
(*     in the thread (IInv);                                                *)
(*   - each ThreadSemaphore is raised once and waited for once (SemExact);  *)
(*   - every client is in one hand, is counted exactly, is in the set that  *)
(*     select() gets, and finds a ThreadServer (HInv).                      *)
(***************************************************************************)
EXTENDS LocalServer, FiniteSetTheorems, TLAPS

USE LocalServerAssumption

\* The types of the variables that the argument is about.
TypeCore ==
    /\ main \in [pc : {"start", "serving", "close", "wait", "blocked",
                       "returned", "closed"}, i : 0 .. NumServers]
    /\ life \in [Servers -> {"none", "made", "deleted"}]
    /\ at \in [Thread -> Place]
    /\ isRun \in [Thread -> BOOLEAN]
    /\ sem \in [Thread -> [wait : Int, wakeup : Int]]
    /\ failed \in SUBSET Thread

Leaving == {"exit", "destroy", "wakeup", "ended"}

\* A thread leaves by Exit just when its select() has failed, and does not
\* come back.
FailedLeaves ==
    \A t \in Thread : /\ t \in failed => at[t] \in Leaving
                      /\ at[t] = "exit" => t \in failed

\* Nobody passes the semaphore of a thread that has not called wakeup().
SemNotEarly ==
    \A t \in Thread : at[t] # "ended" => sem[t].wait <= 0 /\ sem[t].wakeup <= 0

\* Threads that have not been started.
Fresh ==
    /\ \A j \in Servers : life[j] = "none" =>
         at[Worker(j)] = "new" /\ at[Task(j)] = "new"
    /\ main.pc = "start" => at[Acceptor] = "new"

\* ThreadServers are made in order and deleted in order.
InOrder ==
    /\ main.pc = "start" =>
         /\ main.i >= 1
         /\ \A j \in Servers : /\ life[j] # "deleted"
                               /\ j < main.i => life[j] = "made"
                               /\ life[j] = "made" => j < main.i \/ main.i = NumServers
    /\ main.pc = "serving" => main.i = 0
    /\ main.pc # "start" => \A j \in Servers : life[j] # "none"
    /\ main.pc = "closed" => main.i = NumServers
    /\ \A j \in Servers : life[j] = "deleted" =>
         j < main.i \/ (j = main.i /\ main.pc = "closed")

\* A thread that Close has yet to reach runs, unless it has called Exit.
Pending(j) ==
    main.pc \in {"start", "serving"} \/ main.i < j \/ (main.i = j /\ main.pc = "close")

StillRuns ==
    /\ main.pc = "serving" \/ (main.pc = "close" /\ main.i = 0) =>
         isRun[Acceptor] \/ Acceptor \in failed
    /\ \A j \in Servers : life[j] = "made" /\ Pending(j) =>
         isRun[Worker(j)] \/ Worker(j) \in failed

\* A thread that Close has dealt with is gone.
Gone(t) == at[t] = "ended" \/ t \in failed

ClosedGone ==
    /\ main.pc = "returned" => Gone(Target)
    /\ main.pc # "start" /\ main.i > 0 => Gone(Acceptor)
    /\ \A j \in Servers : life[j] = "deleted" => Gone(Worker(j))

IInv ==
    /\ TypeCore /\ FailedLeaves /\ SemNotEarly /\ Fresh
    /\ InOrder /\ StillRuns /\ ClosedGone

-----------------------------------------------------------------------------
\* The threads are different.
LEMMA Threads ==
    /\ Acceptor \in Thread
    /\ \A j \in Servers :
         /\ Worker(j) \in Thread /\ Task(j) \in Thread
         /\ Worker(j) # Acceptor /\ Task(j) # Acceptor
         /\ \A k \in Servers : Worker(j) # Task(k) /\ (Worker(j) = Worker(k) => j = k)
BY DEF Thread, Acceptor, Worker, Task

\* The thread that Close is at is one of them.
LEMMA TargetThread ==
    ASSUME TypeCore
    PROVE  /\ Target \in Thread
           /\ main.i = 0 => Target = Acceptor
           /\ main.i # 0 => main.i \in Servers /\ Target = Worker(main.i)
BY Threads DEF TypeCore, Target, Servers

\* The initial state satisfies the invariant.
LEMMA InitIInv == Init => IInv
<1> SUFFICES ASSUME Init PROVE IInv
  OBVIOUS
<1>1. TypeCore
  BY DEF Init, TypeCore, Place
<1>2. FailedLeaves /\ SemNotEarly
  BY DEF Init, FailedLeaves, SemNotEarly
<1>3. Fresh
  BY Threads DEF Init, Fresh
<1>4. InOrder /\ StillRuns /\ ClosedGone
  BY DEF Init, InOrder, StillRuns, ClosedGone, Servers
<1> QED
  BY <1>1, <1>2, <1>3, <1>4 DEF IInv

\* A step that changes nothing of what the invariant is about keeps it.
LEMMA StutterIInv ==
    ASSUME IInv, UNCHANGED <<control, at, failed>>
    PROVE  IInv'
<1> USE DEF IInv, control
<1>1. TypeCore' BY DEF TypeCore
<1>2. (FailedLeaves /\ SemNotEarly /\ Fresh)' BY DEF FailedLeaves, SemNotEarly, Fresh
<1>3. (InOrder /\ StillRuns)' BY DEF InOrder, StillRuns, Pending
<1>4. ClosedGone' BY DEF ClosedGone, Gone, Target
<1> QED BY <1>1, <1>2, <1>3, <1>4

\* Inside its function a thread goes from place to place; ThreadControl and
\* the main thread do not notice.
LEMMA MoveIInv ==
    ASSUME IInv, NEW t \in Thread, NEW p \in Place \ {"new", "exit", "ended"},
           at[t] \notin {"new", "ended"}, t \in failed => p \in Leaving,
           Goto(t, p), UNCHANGED <<control, failed>>
    PROVE  IInv'
<1> USE DEF IInv, control
<1>1. at' = [at EXCEPT ![t] = p] /\ at \in [Thread -> Place]
  BY DEF Goto, TypeCore
<1>2. TypeCore'
  BY <1>1 DEF TypeCore
<1>3. FailedLeaves' /\ SemNotEarly'
  BY <1>1 DEF FailedLeaves, SemNotEarly, Leaving
<1>4. Fresh'
  BY <1>1, Threads DEF Fresh
<1>5. InOrder' /\ StillRuns'
  BY DEF InOrder, StillRuns, Pending
<1>6. ASSUME NEW u \in Thread, Gone(u) PROVE Gone(u)'
  BY <1>1, <1>6 DEF Gone
<1>7. ClosedGone'
  BY <1>6, Threads, TargetThread DEF ClosedGone, Target
<1> QED
  BY <1>2, <1>3, <1>4, <1>5, <1>7

-----------------------------------------------------------------------------
(* The main thread *)

\* EasyServer::Start
LEMMA StartingIInv ==
    ASSUME IInv, Starting
    PROVE  IInv'
<1> USE DEF IInv
<1>1. CASE StartServer
  <2> DEFINE m == main.i
             new == {Worker(m), Task(m)}
  <2>1. /\ m \in Servers /\ main.pc = "start" /\ life[m] = "none"
        /\ at[Worker(m)] = "new" /\ at[Task(m)] = "new"
    BY <1>1 DEF StartServer, TypeCore, InOrder, Fresh, Servers
  <2>2. /\ isRun' = [t \in Thread |-> t \in new \/ isRun[t]]
        /\ at' = [t \in Thread |-> IF t \in new THEN "loop" ELSE at[t]]
        /\ life' = [life EXCEPT ![m] = "made"]
        /\ main' = IF m < NumServers THEN [main EXCEPT !.i = m + 1] ELSE main
        /\ UNCHANGED <<sem, failed>>
    BY <1>1 DEF StartServer
  <2>3. TypeCore'
    <3>1. main' \in [pc : {"start", "serving", "close", "wait", "blocked",
                           "returned", "closed"}, i : 0 .. NumServers]
      <4>1. m < NumServers => m + 1 \in 0 .. NumServers
        BY <2>1 DEF Servers
      <4>2. CASE m < NumServers
        BY <2>2, <4>1, <4>2 DEF TypeCore
      <4>3. CASE ~(m < NumServers)
        BY <2>2, <4>3 DEF TypeCore
      <4> QED
        BY <4>2, <4>3
    <3>2. isRun' \in [Thread -> BOOLEAN]
      BY <2>2, Zenon
    <3>3. at' \in [Thread -> Place]
      BY <2>2 DEF TypeCore, Place
    <3>4. life' \in [Servers -> {"none", "made", "deleted"}]
      BY <2>1, <2>2 DEF TypeCore
    <3> QED
      BY <2>2, <3>1, <3>2, <3>3, <3>4 DEF TypeCore
  <2>4. FailedLeaves' /\ SemNotEarly'
    BY <2>1, <2>2 DEF FailedLeaves, SemNotEarly, Leaving
  <2>5. main'.pc = "start" /\ main'.i \in {m, m + 1} /\ (m < NumServers => main'.i = m + 1)
    BY <2>1, <2>2 DEF TypeCore
  <2>6. Fresh'
    <3>1. \A j \in Servers : j # m =>
            /\ Worker(j) \notin new /\ Task(j) \notin new
            /\ life'[j] = life[j]
      BY <2>1, <2>2, Threads DEF TypeCore, Task
    <3>2. Acceptor \notin new
      BY <2>1, Threads
    <3> QED
      BY <2>1, <2>2, <2>5, <3>1, <3>2, Threads DEF Fresh, TypeCore
  <2>7. InOrder'
    <3>1. /\ \A j \in Servers : j # m => life'[j] = life[j]
          /\ life'[m] = "made"
      BY <2>1, <2>2 DEF TypeCore
    <3>2. m >= 1 /\ main'.i >= 1
      BY <2>1, <2>5 DEF InOrder, Servers
    <3>3. \A j \in Servers : life'[j] # "deleted" /\ (j < main'.i => life'[j] = "made")
      BY <2>1, <2>5, <3>1 DEF InOrder, Servers
    <3>4. \A j \in Servers : life'[j] = "made" => j < main'.i \/ main'.i = NumServers
      <4>1. CASE m < NumServers
        BY <2>1, <2>5, <3>1, <4>1 DEF InOrder, Servers
      <4>2. CASE m = NumServers
        BY <2>1, <2>2, <4>2 DEF Servers
      <4> QED
        BY <2>1, <4>1, <4>2 DEF Servers
    <3> QED
      BY <2>5, <3>2, <3>3, <3>4 DEF InOrder
  <2>8. StillRuns'
    <3>1. \A j \in Servers : isRun[Worker(j)] => isRun'[Worker(j)]
      BY <2>2, Threads
    <3>2. isRun'[Worker(m)]
      BY <2>1, <2>2, Threads
    <3> QED
      BY <2>1, <2>2, <2>5, <3>1, <3>2 DEF StillRuns, Pending, TypeCore
  <2>9. ClosedGone'
    BY <2>1, <2>2, <2>5 DEF ClosedGone, InOrder, TypeCore
  <2> QED
    BY <2>3, <2>4, <2>6, <2>7, <2>8, <2>9
<1>2. CASE StartAcceptor
  <2>1. /\ main.pc = "start" /\ life[NumServers] = "made" /\ NumServers \in Servers
        /\ isRun' = [isRun EXCEPT ![Acceptor] = TRUE]
        /\ at' = [at EXCEPT ![Acceptor] = "loop"]
        /\ main' = [pc |-> "serving", i |-> 0]
        /\ UNCHANGED <<life, sem, failed>>
    BY <1>2 DEF StartAcceptor, Goto, Servers
  <2>2. at[Acceptor] = "new" /\ \A j \in Servers : life[j] = "made"
    <3>1. main.i = NumServers
      BY <2>1 DEF InOrder, TypeCore
    <3>2. \A j \in Servers : j < NumServers \/ j = NumServers
      BY DEF Servers
    <3> QED
      BY <2>1, <3>1, <3>2 DEF Fresh, InOrder
  <2>3. TypeCore'
    BY <2>1, Threads DEF TypeCore, Place
  <2>4. FailedLeaves' /\ SemNotEarly'
    BY <2>1, <2>2, Threads DEF FailedLeaves, SemNotEarly, Leaving, TypeCore
  <2>5. Fresh' /\ InOrder'
    BY <2>1, <2>2 DEF Fresh, InOrder
  <2>6. StillRuns'
    BY <2>1, <2>2, Threads DEF StillRuns, Pending, TypeCore
  <2>7. ClosedGone'
    BY <2>1, <2>2 DEF ClosedGone
  <2> QED
    BY <2>3, <2>4, <2>5, <2>6, <2>7
<1> QED
  BY <1>1, <1>2 DEF Starting

\* The command "exit" begins with the acceptor.
LEMMA ExitCommandIInv ==
    ASSUME IInv, ExitCommand
    PROVE  IInv'
<1> USE DEF IInv
<1>1. /\ main.pc = "serving" /\ main.i = 0
      /\ main' = [main EXCEPT !.pc = "close"]
      /\ UNCHANGED <<life, at, isRun, sem, failed>>
  BY DEF ExitCommand, InOrder
<1>2. main'.pc = "close" /\ main'.i = 0 /\ TypeCore'
  BY <1>1 DEF TypeCore
<1>3. FailedLeaves' /\ SemNotEarly' /\ Fresh'
  BY <1>1, <1>2 DEF FailedLeaves, SemNotEarly, Fresh
<1>4. InOrder' /\ StillRuns'
  BY <1>1, <1>2 DEF InOrder, StillRuns, Pending
<1>5. ClosedGone'
  BY <1>1, <1>2 DEF ClosedGone, Gone
<1> QED
  BY <1>2, <1>3, <1>4, <1>5

\* A step inside ThreadControl::Close, while main.i stays: it may end only when
\* the thread is gone.
LEMMA InCloseIInv ==
    ASSUME IInv, main.pc \in {"close", "wait", "blocked"},
           NEW q \in {"wait", "blocked", "returned"},
           main' = [main EXCEPT !.pc = q], q = "returned" => Gone(Target),
           TypeCore', SemNotEarly', UNCHANGED <<life, at, failed>>,
           \A t \in Thread : t # Target => isRun'[t] = isRun[t]
    PROVE  IInv'
<1> USE DEF IInv
<1>1. main'.pc = q /\ main'.i = main.i
  BY DEF TypeCore
<1>2. FailedLeaves' /\ Fresh'
  BY <1>1 DEF FailedLeaves, Fresh
<1>3. InOrder'
  BY <1>1 DEF InOrder
<1>4. StillRuns'
  <2>1. ASSUME NEW j \in Servers, Pending(j)' PROVE main.i < j /\ Pending(j)
    BY <1>1, <2>1 DEF Pending, TypeCore
  <2>2. \A j \in Servers : main.i < j => isRun'[Worker(j)] = isRun[Worker(j)]
    <3>1. \A j \in Servers : main.i < j => Worker(j) # Target
      <4>1. main.i # 0 => main.i \in Servers /\ Target = Worker(main.i)
        BY TargetThread
      <4>2. main.i = 0 => Target = Acceptor
        BY TargetThread
      <4> QED
        BY <4>1, <4>2, Threads DEF Servers
    <3> QED
      BY <3>1, Threads
  <2> QED
    BY <1>1, <2>1, <2>2 DEF StillRuns
<1>5. ClosedGone'
  BY <1>1 DEF ClosedGone, Gone, Target
<1> QED
  BY <1>2, <1>3, <1>4, <1>5

\* EasyServer::Close and ThreadControl::Close
LEMMA ClosingIInv ==
    ASSUME IInv, Closing
    PROVE  IInv'
<1> USE DEF IInv
<1>1. CASE CloseThread
  <2> DEFINE q == IF isRun[Target] THEN "wait" ELSE "returned"
  <2>1. /\ main.pc = "close" /\ main' = [main EXCEPT !.pc = q]
        /\ isRun' = [isRun EXCEPT ![Target] = FALSE]
        /\ UNCHANGED <<life, at, sem, failed>>
    BY <1>1 DEF CloseThread
  <2>2. main.i \in Servers => life[main.i] = "made"
    BY <2>1 DEF InOrder, TypeCore
  <2>3. ~isRun[Target] => Gone(Target)
    BY <2>1, <2>2, TargetThread DEF StillRuns, Pending, Gone
  <2>4. TypeCore' /\ SemNotEarly'
    BY <2>1, TargetThread DEF TypeCore, SemNotEarly
  <2>5. \A t \in Thread : t # Target => isRun'[t] = isRun[t]
    BY <2>1 DEF TypeCore
  <2> QED
    BY <2>1, <2>3, <2>4, <2>5, InCloseIInv
<1>2. CASE SemWait
  <2> DEFINE q == IF Blocks(Waiting(sem[Target])) THEN "blocked" ELSE "returned"
  <2>1. /\ main.pc = "wait" /\ main' = [main EXCEPT !.pc = q]
        /\ sem' = [sem EXCEPT ![Target] = Waiting(@)]
        /\ UNCHANGED <<life, at, isRun, failed>>
    BY <1>2 DEF SemWait
  <2>2. /\ sem[Target] \in [wait : Int, wakeup : Int]
        /\ Waiting(sem[Target]) = [sem[Target] EXCEPT !.wait = sem[Target].wait - 1]
    BY TargetThread DEF TypeCore, Waiting
  <2>3. q = "returned" => Gone(Target)
    BY <2>2, TargetThread DEF Blocks, SemNotEarly, Gone
  <2>4. TypeCore' /\ SemNotEarly'
    BY <2>1, <2>2, TargetThread DEF TypeCore, SemNotEarly
  <2> QED
    BY <2>1, <2>3, <2>4, InCloseIInv
<1>3. CASE SemPass
  <2>1. /\ main.pc = "blocked" /\ main' = [main EXCEPT !.pc = "returned"]
        /\ sem[Target].wakeup > 0
        /\ sem' = [sem EXCEPT ![Target].wakeup = @ - 1]
        /\ UNCHANGED <<life, at, isRun, failed>>
    BY <1>3 DEF SemPass
  <2>2. Gone(Target)
    BY <2>1, TargetThread DEF SemNotEarly, Gone, TypeCore
  <2>3. TypeCore' /\ SemNotEarly'
    BY <2>1, TargetThread DEF TypeCore, SemNotEarly
  <2> QED
    BY <2>1, <2>2, <2>3, InCloseIInv
<1>4. CASE CloseNext
  <2>1. /\ main.pc = "returned"
        /\ life' = [j \in Servers |-> IF j = main.i THEN "deleted" ELSE life[j]]
        /\ main' = IF main.i < NumServers THEN [pc |-> "close", i |-> main.i + 1]
                   ELSE [main EXCEPT !.pc = "closed"]
        /\ UNCHANGED <<at, isRun, sem, failed>>
    BY <1>4 DEF CloseNext
  <2>2. \/ main.i < NumServers /\ main'.pc = "close" /\ main'.i = main.i + 1
        \/ main.i = NumServers /\ main'.pc = "closed" /\ main'.i = main.i
    <3>1. main.i \in 0 .. NumServers /\ NumServers \in Nat
      BY DEF TypeCore
    <3>2. CASE main.i < NumServers
      BY <2>1, <3>2
    <3>3. CASE ~(main.i < NumServers)
      <4>1. main.i = NumServers
        BY <3>1, <3>3
      <4> QED
        BY <2>1, <3>3, <4>1 DEF TypeCore
    <3> QED
      BY <3>2, <3>3
  <2>3. TypeCore'
    <3>1. main' \in [pc : {"start", "serving", "close", "wait", "blocked",
                           "returned", "closed"}, i : 0 .. NumServers]
      BY <2>1 DEF TypeCore
    <3>2. life' \in [Servers -> {"none", "made", "deleted"}]
      BY <2>1 DEF TypeCore
    <3> QED
      BY <2>1, <3>1, <3>2 DEF TypeCore
  <2>4. FailedLeaves' /\ SemNotEarly' /\ Fresh'
    BY <2>1, <2>2 DEF FailedLeaves, SemNotEarly, Fresh, InOrder
  <2>5. InOrder'
    BY <2>1, <2>2 DEF InOrder, TypeCore, Servers
  <2>6. StillRuns'
    BY <2>1, <2>2 DEF StillRuns, Pending, TypeCore, Servers
  <2>7. ClosedGone'
    <3>1. \A t \in Thread : Gone(t)' <=> Gone(t)
      BY <2>1 DEF Gone
    <3>2. Gone(Acceptor)
      BY <2>1, TargetThread DEF ClosedGone, TypeCore
    <3>3. \A j \in Servers : life'[j] = "deleted" => Gone(Worker(j))
      <4>1. main.i \in Servers => Gone(Worker(main.i))
        <5>1. main.i \in Servers => Target = Worker(main.i)
          BY TargetThread DEF Servers
        <5> QED
          BY <2>1, <5>1 DEF ClosedGone
      <4> QED
        BY <2>1, <4>1 DEF ClosedGone
    <3> QED
      BY <2>2, <3>1, <3>2, <3>3, Threads DEF ClosedGone
  <2> QED
    BY <2>3, <2>4, <2>5, <2>6, <2>7
<1> QED
  BY <1>1, <1>2, <1>3, <1>4 DEF Closing

-----------------------------------------------------------------------------
(* The other threads *)

\* A thread on its way out.
LEMMA EndingIInv ==
    ASSUME IInv, NEW t \in Thread, SelectFails(t) \/ Ending(t)
    PROVE  IInv'
<1> USE DEF IInv
<1>0. at \in [Thread -> Place] /\ isRun \in [Thread -> BOOLEAN]
  BY DEF TypeCore
<1>1. CASE LeaveLoop(t) \/ Destroy(t)
  <2>1. /\ \E p \in {"destroy", "wakeup"} : Goto(t, p)
        /\ at[t] \in {"loop", "destroy"}
        /\ UNCHANGED <<control, failed>>
    BY <1>1 DEF LeaveLoop, Destroy
  <2> QED
    BY <2>1, MoveIInv DEF Place, Leaving
<1>2. CASE SelectFails(t)
  <2>1. /\ at' = [at EXCEPT ![t] = "exit"] /\ failed' = failed \cup {t}
        /\ at[t] \notin {"new", "ended"}
        /\ UNCHANGED control
    BY <1>2 DEF SelectFails, Goto
  <2>2. TypeCore'
    BY <2>1 DEF TypeCore, Place, control
  <2>3. FailedLeaves' /\ SemNotEarly'
    BY <1>0, <2>1 DEF FailedLeaves, SemNotEarly, Leaving, control
  <2>4. Fresh'
    BY <1>0, <2>1, Threads DEF Fresh, control
  <2>5. InOrder' /\ StillRuns'
    BY <2>1 DEF InOrder, StillRuns, Pending, control
  <2>6. ASSUME NEW u \in Thread, Gone(u) PROVE Gone(u)'
    BY <1>0, <2>1, <2>6 DEF Gone
  <2>7. ClosedGone'
    BY <2>1, <2>6, Threads, TargetThread DEF ClosedGone, Target, control
  <2> QED
    BY <2>2, <2>3, <2>4, <2>5, <2>7
<1>3. CASE Exit(t)
  <2>1. /\ at[t] = "exit" /\ t \in failed
        /\ at' = [at EXCEPT ![t] = "destroy"]
        /\ isRun' = [isRun EXCEPT ![t] = FALSE]
        /\ UNCHANGED <<main, life, sem, failed>>
    BY <1>3 DEF Exit, Goto, FailedLeaves
  <2>2. TypeCore'
    BY <2>1 DEF TypeCore, Place
  <2>3. FailedLeaves' /\ SemNotEarly'
    BY <1>0, <2>1 DEF FailedLeaves, SemNotEarly, Leaving
  <2>4. Fresh'
    BY <1>0, <2>1, Threads DEF Fresh
  <2>5. InOrder'
    BY <2>1 DEF InOrder
  <2>6. StillRuns'
    <3>1. \A u \in Thread : isRun[u] \/ u \in failed => isRun'[u] \/ u \in failed'
      BY <1>0, <2>1
    <3> QED
      BY <2>1, <3>1, Threads DEF StillRuns, Pending
  <2>7. ASSUME NEW u \in Thread, Gone(u) PROVE Gone(u)'
    BY <1>0, <2>1, <2>7 DEF Gone
  <2>8. ClosedGone'
    BY <2>1, <2>7, Threads, TargetThread DEF ClosedGone, Target
  <2> QED
    BY <2>2, <2>3, <2>4, <2>5, <2>6, <2>8
<1>4. CASE SemWakeup(t)
  <2>1. /\ at[t] = "wakeup" /\ at' = [at EXCEPT ![t] = "ended"]
        /\ sem' = [sem EXCEPT ![t] = Wakened(@)]
        /\ UNCHANGED <<main, life, isRun, failed>>
    BY <1>4 DEF SemWakeup, Goto
  <2>2. Wakened(sem[t]) \in [wait : Int, wakeup : Int]
    BY DEF TypeCore, Wakened
  <2>3. TypeCore'
    BY <2>1, <2>2 DEF TypeCore, Place
  <2>4. FailedLeaves' /\ SemNotEarly'
    BY <1>0, <2>1 DEF FailedLeaves, SemNotEarly, Leaving, TypeCore
  <2>5. Fresh'
    BY <1>0, <2>1, Threads DEF Fresh
  <2>6. InOrder' /\ StillRuns'
    BY <2>1 DEF InOrder, StillRuns, Pending
  <2>7. ASSUME NEW u \in Thread, Gone(u) PROVE Gone(u)'
    BY <1>0, <2>1, <2>7 DEF Gone
  <2>8. ClosedGone'
    BY <2>1, <2>7, Threads, TargetThread DEF ClosedGone, Target
  <2> QED
    BY <2>3, <2>4, <2>5, <2>6, <2>8
<1> QED
  BY <1>1, <1>2, <1>3, <1>4 DEF Ending

\* The acceptor and the ThreadServers at work only move from place to place.
LEMMA WorkIInv ==
    ASSUME IInv, Accepting \/ \E i \in Servers : Serving(i)
    PROVE  IInv'
<1> DEFINE Work == {"loop", "clear", "select", "read", "write", "time",
                    "pick", "measure", "join", "hung"}
<1>1. ASSUME NEW t \in Thread, NEW p \in Work, at[t] \in Work, Goto(t, p),
             UNCHANGED <<control, failed>>
      PROVE  IInv'
  <2>1. t \notin failed
    BY <1>1 DEF IInv, FailedLeaves, Leaving
  <2>2. p \in Place \ {"new", "exit", "ended"} /\ at[t] \notin {"new", "ended"}
    BY <1>1 DEF Place
  <2> QED
    BY <1>1, <2>1, <2>2, MoveIInv
<1>2. CASE Accepting
  <2>1. CASE PickServer /\ UNCHANGED at
    BY <2>1, StutterIInv DEF PickServer
  <2>2. CASE ~(PickServer /\ UNCHANGED at)
    <3>1. /\ at[Acceptor] \in Work /\ UNCHANGED <<control, failed>>
          /\ \E p \in Work : Goto(Acceptor, p)
      BY <1>2, <2>2 DEF Accepting, Accept, PickServer, MeasureServer, AddClient,
                        OnNetJoin
    <3> QED
      BY <1>1, <3>1, Threads
  <2> QED
    BY <2>1, <2>2
<1>3. ASSUME NEW i \in Servers, Serving(i) PROVE IInv'
  <2>1. /\ at[Worker(i)] \in Work /\ UNCHANGED <<control, failed>>
        /\ \E p \in Work : Goto(Worker(i), p)
    BY <1>3 DEF Serving, TakeClients, ClearClientsBuf, NoNewClients, Select,
                ReadData, RecvDataHangs, WiriteData, CheckTime
  <2> QED
    BY <1>1, <2>1, Threads
<1> QED
  BY <1>2, <1>3

-----------------------------------------------------------------------------
\* Every step of every thread keeps the invariant.
LEMMA NextIInv == IInv /\ [Next]_vars => IInv'
<1> SUFFICES ASSUME IInv, [Next]_vars PROVE IInv'
  OBVIOUS
<1>1. CASE Connect \/ \E f \in Fd : PeerClose(f)
  BY <1>1, StutterIInv DEF Connect, PeerClose
<1>2. CASE Starting
  BY <1>2, StartingIInv
<1>3. CASE ExitCommand
  BY <1>3, ExitCommandIInv
<1>4. CASE Closing
  BY <1>4, ClosingIInv
<1>5. CASE \E t \in Thread : SelectFails(t) \/ Ending(t)
  BY <1>5, EndingIInv
<1>6. CASE Accepting \/ \E i \in Servers : Serving(i)
  BY <1>6, WorkIInv
<1>7. CASE UNCHANGED vars
  BY <1>7, StutterIInv DEF vars, control
<1> QED
  BY <1>1, <1>2, <1>3, <1>4, <1>5, <1>6, <1>7 DEF Next

\* The invariant gives the property.
LEMMA IInvEnds == IInv => ThreadEndsBeforeDelete
<1> SUFFICES ASSUME IInv, NEW j \in Servers, life[j] = "deleted"
             PROVE  /\ at[Worker(j)] = "ended" \/ Worker(j) \in failed
                    /\ at[Acceptor] \notin {"pick", "measure", "join"}
  BY DEF ThreadEndsBeforeDelete
<1>1. Gone(Worker(j))
  BY DEF IInv, ClosedGone
<1>2. main.pc # "start" /\ main.i > 0
  BY DEF IInv, InOrder, TypeCore, Servers
<1>3. Gone(Acceptor)
  BY <1>2 DEF IInv, ClosedGone
<1> QED
  BY <1>1, <1>3, Threads DEF Gone, IInv, FailedLeaves, Leaving

\* EasyServer::Close deletes a ThreadServer only when its thread has called
\* wakeup(), or its select() has failed, and never under the acceptor.
THEOREM EndsBeforeDelete == Spec => []ThreadEndsBeforeDelete
BY InitIInv, NextIInv, IInvEnds, PTL DEF Spec

-----------------------------------------------------------------------------
(* The semaphores: wakeup() is called once by each thread, wait() once by     *)
(* Close for each thread it has to wait for.                                  *)

Ended(t) == at[t] = "ended"

\* Close has come past the wait for t.
Waited(t) ==
    /\ main.pc \notin {"start", "serving"}
    /\ \E j \in 0 .. main.i :
         /\ t = (IF j = 0 THEN Acceptor ELSE Worker(j))
         /\ j = main.i => main.pc \notin {"close", "wait"}

SemExact ==
    \A t \in Thread :
        /\ sem[t].wait \in IF Ended(t) THEN {0, 1} ELSE {-1, 0}
        /\ sem[t].wakeup \in IF Ended(t) THEN {0, 1} ELSE {0}
        /\ ~Waited(t) => sem[t].wait = (IF Ended(t) THEN 1 ELSE 0) /\ sem[t].wakeup = 0

\* A step that changes no semaphore.
LEMMA SemKept ==
    ASSUME SemExact, UNCHANGED sem, \A t \in Thread : Ended(t)' = Ended(t),
           \A t \in Thread : Waited(t) => Waited(t)'
    PROVE  SemExact'
BY DEF SemExact

\* Close is before the wait for the thread it is at, and not past it twice.
LEMMA TargetWaited ==
    ASSUME IInv
    PROVE  /\ main.pc \in {"close", "wait"} => ~Waited(Target)
           /\ main.pc = "blocked" => Waited(Target)
<1>1. main.i \in 0 .. NumServers
  BY DEF IInv, TypeCore
<1>2. \A j \in 0 .. main.i :
        Target = (IF j = 0 THEN Acceptor ELSE Worker(j)) => j = main.i
  BY <1>1, Threads DEF Target, Servers
<1>3. main.pc \in {"close", "wait"} => ~Waited(Target)
  BY <1>2 DEF Waited
<1>4. main.pc = "blocked" => Waited(Target)
  BY <1>1 DEF Waited, Target
<1> QED
  BY <1>3, <1>4

LEMMA InitSem == Init => SemExact
BY DEF Init, SemExact, Ended

LEMMA NextSem == IInv /\ SemExact /\ [Next]_vars => SemExact'
<1> SUFFICES ASSUME IInv, SemExact, [Next]_vars PROVE SemExact'
  OBVIOUS
<1>0. /\ main.i \in 0 .. NumServers /\ sem \in [Thread -> [wait : Int, wakeup : Int]]
      /\ main.pc \in {"start", "serving", "close", "wait", "blocked", "returned",
                      "closed"}
      /\ main \in [pc : {"start", "serving", "close", "wait", "blocked", "returned",
                         "closed"}, i : 0 .. NumServers]
      /\ at \in [Thread -> Place]
  BY DEF IInv, TypeCore
\* A step that leaves main and sem alone, and moves threads that do not end.
<1>1. ASSUME UNCHANGED <<main, sem>>, \A t \in Thread : Ended(t)' = Ended(t)
      PROVE  SemExact'
  BY <1>1, SemKept DEF Waited
<1>2. ASSUME NEW t \in Thread, NEW p \in Place \ {"ended"}, Goto(t, p), ~Ended(t),
             UNCHANGED <<main, sem>>
      PROVE  SemExact'
  BY <1>0, <1>1, <1>2 DEF Goto, Ended
<1>3. CASE \/ Connect \/ (\E f \in Fd : PeerClose(f)) \/ UNCHANGED vars
           \/ (PickServer /\ UNCHANGED at)
  BY <1>1, <1>3 DEF Connect, PeerClose, PickServer, vars, control, Ended
<1>4. CASE Accepting /\ ~(PickServer /\ UNCHANGED at)
  <2>1. \E p \in Place \ {"ended"} : Goto(Acceptor, p)
    BY <1>4 DEF Accepting, Accept, PickServer, MeasureServer, AddClient, OnNetJoin,
                Place
  <2>2. ~Ended(Acceptor) /\ UNCHANGED <<main, sem>>
    BY <1>4 DEF Accepting, Accept, PickServer, MeasureServer, AddClient, OnNetJoin,
                Ended, control
  <2> QED
    BY <1>2, <2>1, <2>2, Threads
<1>5. ASSUME NEW i \in Servers, Serving(i) PROVE SemExact'
  <2>1. \E p \in Place \ {"ended"} : Goto(Worker(i), p)
    BY <1>5 DEF Serving, TakeClients, ClearClientsBuf, NoNewClients, Select,
                ReadData, RecvDataHangs, WiriteData, CheckTime, Place
  <2>2. ~Ended(Worker(i)) /\ UNCHANGED <<main, sem>>
    BY <1>5 DEF Serving, TakeClients, ClearClientsBuf, NoNewClients, Select,
                ReadData, RecvDataHangs, WiriteData, CheckTime, Ended, control
  <2> QED
    BY <1>2, <2>1, <2>2, Threads
<1>6. ASSUME NEW t \in Thread, SelectFails(t) \/ LeaveLoop(t) \/ Exit(t) \/ Destroy(t)
      PROVE  SemExact'
  <2>1. \E p \in Place \ {"ended"} : Goto(t, p)
    BY <1>6 DEF SelectFails, LeaveLoop, Exit, Destroy, Place
  <2>2. ~Ended(t) /\ UNCHANGED <<main, sem>>
    BY <1>6 DEF SelectFails, LeaveLoop, Exit, Destroy, Ended, control
  <2> QED
    BY <1>2, <2>1, <2>2
<1>7. ASSUME NEW t \in Thread, SemWakeup(t) PROVE SemExact'
  <2>1. /\ ~Ended(t) /\ Ended(t)' /\ sem' = [sem EXCEPT ![t] = Wakened(@)]
        /\ \A u \in Thread : u # t => Ended(u)' = Ended(u)
        /\ \A u \in Thread : Waited(u)' = Waited(u)
    BY <1>0, <1>7 DEF SemWakeup, Goto, Ended, Waited
  <2>2. /\ Wakened(sem[t]).wait = sem[t].wait + 1
        /\ Wakened(sem[t]).wakeup = sem[t].wakeup + (IF sem[t].wait + 1 <= 0 THEN 1 ELSE 0)
    BY DEF Wakened
  <2>3. /\ Wakened(sem[t]).wait \in {0, 1} /\ Wakened(sem[t]).wakeup \in {0, 1}
        /\ ~Waited(t) => Wakened(sem[t]).wait = 1 /\ Wakened(sem[t]).wakeup = 0
    BY <2>1, <2>2 DEF SemExact
  <2> QED
    BY <1>0, <2>1, <2>3 DEF SemExact
<1>8. CASE StartServer
  <2>1. \A t \in Thread : Ended(t)' = Ended(t)
    BY <1>0, <1>8 DEF StartServer, IInv, Fresh, Ended, Servers, InOrder
  <2>2. \A t \in Thread : Waited(t) => Waited(t)'
    BY <1>8 DEF StartServer, Waited
  <2> QED
    BY <1>8, <2>1, <2>2, SemKept DEF StartServer
<1>9. CASE StartAcceptor \/ ExitCommand
  <2>1. \A t \in Thread : Ended(t)' = Ended(t)
    BY <1>0, <1>9, Threads DEF StartAcceptor, ExitCommand, IInv, Fresh, Ended, Goto
  <2>2. \A t \in Thread : ~Waited(t)
    BY <1>9 DEF StartAcceptor, ExitCommand, Waited
  <2> QED
    BY <1>9, <2>1, <2>2, SemKept DEF StartAcceptor, ExitCommand
<1>10. CASE CloseThread \/ CloseNext
  <2>1. UNCHANGED <<at, sem>>
    BY <1>10 DEF CloseThread, CloseNext
  <2>2. /\ main'.i \in {main.i, main.i + 1} /\ main'.pc \notin {"start", "serving"}
        /\ main'.i = main.i => main'.pc \notin {"close", "wait"} \/ main.pc = "close"
    BY <1>0, <1>10 DEF CloseThread, CloseNext
  <2>3. ASSUME NEW t \in Thread, Waited(t) PROVE Waited(t)'
    <3>1. PICK j \in 0 .. main.i :
            /\ t = (IF j = 0 THEN Acceptor ELSE Worker(j))
            /\ j = main.i => main.pc \notin {"close", "wait"}
      BY <2>3 DEF Waited
    <3>2. j \in 0 .. main'.i /\ (j = main'.i => main'.pc \notin {"close", "wait"})
      BY <1>0, <2>2, <3>1
    <3> QED
      BY <2>2, <3>1, <3>2 DEF Waited
  <2> QED
    BY <2>1, <2>3, SemKept DEF Ended
<1>11. CASE SemWait
  <2>1. PICK u \in Thread : u = Target
    BY TargetThread DEF IInv
  <2>2. /\ main.pc = "wait" /\ sem' = [sem EXCEPT ![u] = Waiting(@)]
        /\ main'.i = main.i /\ main'.pc \notin {"start", "serving", "close", "wait"}
        /\ UNCHANGED at
    BY <1>0, <1>11, <2>1 DEF SemWait
  <2>3. /\ ~Waited(u) /\ Waiting(sem[u]).wait = sem[u].wait - 1
        /\ Waiting(sem[u]).wakeup = sem[u].wakeup
    BY <1>0, <2>1, <2>2, TargetWaited DEF Waiting
  <2>4. \A t \in Thread : t # u => (Waited(t) => Waited(t)') /\ sem'[t] = sem[t]
    BY <1>0, <2>2 DEF Waited
  <2>5. Waited(u)'
    BY <1>0, <2>1, <2>2 DEF Waited, Target
  <2>6. /\ sem[u].wait = (IF Ended(u) THEN 1 ELSE 0) /\ sem[u].wakeup = 0
    BY <2>3 DEF SemExact
  <2>7. sem'[u].wait = (IF Ended(u) THEN 0 ELSE -1) /\ sem'[u].wakeup = 0
    BY <1>0, <2>2, <2>3, <2>6
  <2> QED
    BY <2>2, <2>4, <2>5, <2>7 DEF SemExact, Ended
<1>12. CASE SemPass
  <2>1. PICK u \in Thread : u = Target
    BY TargetThread DEF IInv
  <2>2. /\ main.pc = "blocked" /\ sem[u].wakeup > 0
        /\ sem' = [sem EXCEPT ![u].wakeup = @ - 1]
        /\ main'.i = main.i /\ main'.pc = "returned"
        /\ UNCHANGED at
    BY <1>0, <1>12, <2>1 DEF SemPass
  <2>3. \A t \in Thread : Waited(t) => Waited(t)'
    BY <2>2 DEF Waited
  <2>4. Waited(u)'
    BY <2>1, <2>2, <2>3, TargetWaited
  <2> QED
    BY <1>0, <2>2, <2>3, <2>4 DEF SemExact, Ended
<1> QED
  BY <1>3, <1>4, <1>5, <1>6, <1>7, <1>8, <1>9, <1>10, <1>11, <1>12
  DEF Next, Starting, Closing, Ending
-----------------------------------------------------------------------------
(* The fds: who holds which client *)

\* The clients that ThreadServer i has.
HeldBy(i) == buf[i] \cup clients[i]
AllHeld == UNION {HeldBy(i) : i \in Servers}

TypeHeld ==
    /\ sock \in [Fd -> {"free", "open", "closed"}]
    /\ connects \in 0 .. MaxConnects /\ backlog \in 0 .. connects
    /\ acc \in [fd : 0 .. MaxFd, next : 0 .. NumServers + 1,
                temp : 0 .. NumServers, max : Nat]
    /\ buf \in [Servers -> SUBSET Fd]
    /\ clients \in [Servers -> SUBSET Fd]
    /\ change \in [Servers -> BOOLEAN]
    /\ fdset \in [Servers -> SUBSET Fd]
    /\ count \in 0 .. CountMod - 1

\* No two ThreadServers have the same client, and the fds they have are open.
Apart ==
    /\ \A i, j \in Servers : i # j => HeldBy(i) \cap HeldBy(j) = {}
    /\ \A i \in Servers : \A f \in HeldBy(i) : sock[f] # "free"

\* A client is in ClientsBuf and in Clients only while it is moved.
Moving ==
    \A i \in Servers : IF at[Worker(i)] = "clear" THEN buf[i] \subseteq clients[i]
                       ELSE buf[i] \cap clients[i] = {}

\* The client that the acceptor is about to hand over is nobody's yet.
Offered ==
    /\ at[Acceptor] \in {"pick", "measure"} =>
         /\ acc.fd \in Fd /\ sock[acc.fd] # "free"
         /\ acc.next >= 1
         /\ \A i \in Servers : acc.fd \notin HeldBy(i)
    /\ at[Acceptor] = "measure" => acc.next <= NumServers /\ acc.temp = acc.next

\* Whatever changes Clients after clientchange was last looked at sets it.
Current ==
    \A i \in Servers : at[Worker(i)] \notin {"clear", "wakeup", "ended"} =>
                         change[i] \/ fdset[i] = clients[i]

\* The sets S[i] are apart and hold what the ThreadServers hold.
Claims(S) ==
    /\ S \in [Servers -> SUBSET Fd]
    /\ \A i, j \in Servers : i # j => S[i] \cap S[j] = {}
    /\ \A i \in Servers : HeldBy(i) \subseteq S[i]

\* A ThreadServer that addclient2pThreadServer has passed over held MaxClient
\* clients, counting each of them twice at most, and nobody has been given one
\* of those since: only the acceptor accepts.
Passed ==
    at[Acceptor] = "pick" /\ acc.temp = 0 =>
      /\ acc.max = MaxClient
      /\ \E S : Claims(S) /\ \A i \in Servers : i < acc.next =>
                                  MaxClient <= 2 * Cardinality(S[i])

HInv ==
    /\ TypeHeld /\ Apart /\ Moving /\ Offered /\ Current /\ Passed
    /\ ClientCountExact

\* The unsigned counter: what is added to it before and after it wraps.
LEMMA SameRemainder ==
    ASSUME NEW m \in Nat \ {0}, NEW p \in Int, NEW q \in Int,
           NEW r \in 0 .. m - 1, NEW s \in 0 .. m - 1, m * q + r = m * p + s
    PROVE  r = s
<1>1. m * (q - p) = s - r
  OBVIOUS
<1>2. q - p >= 1 => m * (q - p) >= m
  OBVIOUS
<1>3. q - p <= -1 => m * (q - p) <= -m
  OBVIOUS
<1> QED
  BY <1>1, <1>2, <1>3

LEMMA DivMod ==
    ASSUME NEW a \in Int, NEW m \in Nat \ {0}
    PROVE  a % m \in 0 .. m - 1 /\ a \div m \in Int /\ a = m * (a \div m) + (a % m)
OBVIOUS

LEMMA Wraps ==
    ASSUME NEW a \in Int, NEW b \in Int, NEW m \in Nat \ {0}
    PROVE  ((a % m) + b) % m = (a + b) % m /\ (a + b) % m \in 0 .. m - 1
<1> DEFINE x == (a % m) + b
           y == a + b
<1>1. /\ a % m \in 0 .. m - 1 /\ a \div m \in Int /\ a = m * (a \div m) + (a % m)
      /\ x \in Int /\ y \in Int
  BY DivMod
<1>2. /\ x % m \in 0 .. m - 1 /\ x \div m \in Int /\ x = m * (x \div m) + (x % m)
      /\ y % m \in 0 .. m - 1 /\ y \div m \in Int /\ y = m * (y \div m) + (y % m)
  BY <1>1, DivMod
<1>3. PICK A \in Int, X \in Int, Y \in Int, r \in 0 .. m - 1, s \in 0 .. m - 1 :
        /\ A = a \div m /\ X = x \div m /\ Y = y \div m /\ r = x % m /\ s = y % m
  BY <1>1, <1>2
<1>4. y = m * A + x /\ x = m * X + r /\ y = m * Y + s
  <2>1. a = m * A + (a % m)
    BY <1>1, <1>3
  <2> QED
    BY <1>1, <1>2, <1>3, <2>1
<1> HIDE DEF x, y
<1>5. m * Y + s = m * (A + X) + r
  BY <1>1, <1>4
<1>6. s = r
  BY <1>5, SameRemainder
<1> QED
  BY <1>2, <1>3, <1>6 DEF x, y

\* The clients of a process are finitely many.
LEMMA FdFinite ==
    /\ IsFiniteSet(Fd) /\ Cardinality(Fd) = MaxFd
    /\ \A S \in SUBSET Fd : /\ IsFiniteSet(S) /\ Cardinality(S) \in Nat
                            /\ \A T \in SUBSET S : Cardinality(T) <= Cardinality(S)
<1>1. IsFiniteSet(Fd) /\ Cardinality(Fd) = MaxFd
  BY FS_Interval DEF Fd
<1>2. ASSUME NEW S \in SUBSET Fd PROVE IsFiniteSet(S)
  BY <1>1, FS_Subset
<1>3. ASSUME NEW S \in SUBSET Fd PROVE Cardinality(S) \in Nat
  BY <1>2, FS_CardinalityType
<1>4. ASSUME NEW S \in SUBSET Fd, NEW T \in SUBSET S PROVE Cardinality(T) <= Cardinality(S)
  BY <1>2, FS_Subset
<1> QED
  BY <1>1, <1>2, <1>3, <1>4

\* Whatever getTotalClient reads counts no client more than twice.
LEMMA TotalBounded ==
    ASSUME TypeHeld, NEW i \in Servers, NEW n \in TotalClient(i)
    PROVE  n \in Nat /\ n <= 2 * Cardinality(HeldBy(i))
<1>1. /\ HeldBy(i) \in SUBSET Fd /\ clients[i] \in SUBSET HeldBy(i)
      /\ buf[i] \in SUBSET HeldBy(i) /\ clients[i] \ buf[i] \in SUBSET HeldBy(i)
  BY DEF TypeHeld, HeldBy
<1>2. \A T \in SUBSET HeldBy(i) : Cardinality(T) \in Nat /\ Cardinality(T) <= Cardinality(HeldBy(i))
  BY <1>1, FdFinite
<1>3. \/ n = Cardinality(clients[i]) + Cardinality(buf[i])
      \/ n = Cardinality(clients[i]) \/ n = Cardinality(clients[i] \ buf[i])
  BY DEF TotalClient
<1> QED
  BY <1>1, <1>2, <1>3, FdFinite

LEMMA InitHeld == Init => HInv
<1> SUFFICES ASSUME Init PROVE HInv
  OBVIOUS
<1>1. TypeHeld
  BY DEF Init, TypeHeld, NoAccept
<1>2. Apart /\ Moving /\ Offered /\ Current /\ Passed
  BY Threads DEF Init, Apart, Moving, Offered, Current, Passed, HeldBy, NoAccept
<1>3. ClientCountExact
  <2>1. UNION {buf[i] \cup clients[i] : i \in Servers} = {}
    BY DEF Init
  <2>2. (0 - 0) % CountMod = 0
    OBVIOUS
  <2>3. at[Acceptor] = "new" /\ count = 0 /\ Cardinality({}) = 0
    BY FS_EmptySet, Threads DEF Init
  <2> QED
    BY <2>1, <2>2, <2>3 DEF ClientCountExact
<1> QED
  BY <1>1, <1>2, <1>3 DEF HInv

\* The part of a step that HInv does not see: threads come and go outside their
\* function, and a peer may close.
LEMMA QuietHeld ==
    ASSUME HInv, at \in [Thread -> Place], UNCHANGED <<acc, held, count>>, TypeHeld',
           \A f \in Fd : sock[f] # "free" => sock'[f] # "free",
           \A i \in Servers :
              /\ (at[Worker(i)] = "clear") <=> (at'[Worker(i)] = "clear")
              /\ at[Worker(i)] \in {"wakeup", "ended"} => at'[Worker(i)] \in {"wakeup", "ended"},
           \/ at'[Acceptor] = at[Acceptor]
           \/ {at[Acceptor], at'[Acceptor]} \cap {"pick", "measure", "join"} = {}
    PROVE  HInv'
<1> USE DEF HInv, held
<1>1. Apart'
  BY DEF Apart, HeldBy, TypeHeld
<1>2. Moving'
  BY DEF Moving
<1>3. Offered'
  BY DEF Offered, HeldBy
<1>4. Current'
  BY DEF Current
<1>5. Passed'
  BY DEF Passed, Claims, HeldBy
<1>6. ClientCountExact'
  BY DEF ClientCountExact
<1> QED
  BY <1>1, <1>2, <1>3, <1>4, <1>5, <1>6
-----------------------------------------------------------------------------
(* ThreadServer::Run and the clients *)

\* How many clients ClietnCount stands for, as ClientCountExact counts them.
LEMMA CountOf ==
    ClientCountExact <=>
      ((\A i \in Servers : at[Worker(i)] \notin {"wakeup", "ended"}) =>
         count = (Cardinality(AllHeld) - (IF at[Acceptor] = "join" THEN 1 ELSE 0))
                   % CountMod)
BY DEF ClientCountExact, AllHeld, HeldBy

\* A pass that drops the clients D.
LEMMA DropHeld ==
    ASSUME HInv, at \in [Thread -> Place], NEW i \in Servers, NEW D \in SUBSET clients[i],
           NEW p \in {"write", "hung", "time", "loop"}, Goto(Worker(i), p),
           at[Worker(i)] \in {"read", "write", "time"},
           Erase(i, D), Changed(i, D), OnNetLeave(D),
           sock' = sock \/ CloseFds(D), UNCHANGED <<acc, outside, buf, fdset>>
    PROVE  HInv'
<1> USE DEF HInv, outside
<1>1. /\ D \in SUBSET Fd /\ IsFiniteSet(D) /\ Cardinality(D) \in Nat
      /\ at' = [at EXCEPT ![Worker(i)] = p]
      /\ clients' = [clients EXCEPT ![i] = @ \ D]
      /\ change' = [change EXCEPT ![i] = @ \/ D # {}]
      /\ count' = (count - Cardinality(D)) % CountMod
      /\ \A f \in Fd \ D : sock'[f] = sock[f]
  BY FdFinite DEF TypeHeld, Goto, Erase, Changed, OnNetLeave, CloseFds
<1>2. /\ \A j \in Servers : j # i => /\ HeldBy(j)' = HeldBy(j) /\ HeldBy(j) \cap D = {}
                                     /\ clients'[j] = clients[j] /\ change'[j] = change[j]
                                     /\ at'[Worker(j)] = at[Worker(j)]
      /\ HeldBy(i)' = HeldBy(i) \ D /\ D \subseteq HeldBy(i)
      /\ clients'[i] = clients[i] \ D
      /\ at'[Worker(i)] = p /\ at'[Acceptor] = at[Acceptor]
  <2>1. buf[i] \cap clients[i] = {}
    BY DEF Moving
  <2>2. clients'[i] = clients[i] \ D /\ \A j \in Servers : j # i => clients'[j] = clients[j]
    BY <1>1 DEF TypeHeld
  <2>3. \A j \in Servers : j # i => HeldBy(j) \cap D = {}
    BY DEF Apart, HeldBy
  <2>4. at'[Worker(i)] = p /\ at'[Acceptor] = at[Acceptor]
        /\ \A j \in Servers : j # i => at'[Worker(j)] = at[Worker(j)]
    BY <1>1, Threads
  <2> QED
    BY <1>1, <2>1, <2>2, <2>3, <2>4 DEF HeldBy, TypeHeld
<1>3. TypeHeld'
  <2>1. sock' \in [Fd -> {"free", "open", "closed"}]
    BY <1>1 DEF TypeHeld, CloseFds
  <2>2. clients' \in [Servers -> SUBSET Fd]
    BY <1>1 DEF TypeHeld
  <2>3. change' \in [Servers -> BOOLEAN]
    BY <1>1, Zenon DEF TypeHeld
  <2>4. count' \in 0 .. CountMod - 1
    <3>1. count - Cardinality(D) \in Int
      BY <1>1 DEF TypeHeld
    <3>2. (count - Cardinality(D)) % CountMod \in 0 .. CountMod - 1
      BY <3>1, DivMod
    <3> QED
      BY <1>1, <3>2
  <2> QED
    BY <2>1, <2>2, <2>3, <2>4 DEF TypeHeld
<1>4. Apart'
  <2>1. \A j \in Servers : HeldBy(j) \subseteq Fd
    BY DEF HeldBy, TypeHeld
  <2>2. \A j \in Servers : HeldBy(j)' \subseteq HeldBy(j) \ D
    BY <1>2
  <2> QED
    BY <1>1, <2>1, <2>2 DEF Apart
<1>5. Moving'
  BY <1>2 DEF Moving
<1>6. Offered'
  <2>1. \A j \in Servers : HeldBy(j)' \subseteq HeldBy(j)
    BY <1>2
  <2> QED
    BY <1>1, <1>2, <2>1 DEF Offered
<1>7. Current'
  <2>1. D = {} => clients'[i] = clients[i] /\ change'[i] = change[i]
    BY <1>1, <1>2 DEF TypeHeld
  <2>2. D # {} => change'[i]
    BY <1>1 DEF TypeHeld
  <2> QED
    BY <1>2, <2>1, <2>2 DEF Current
<1>8. Passed'
  <2>1. \A S : Claims(S) => Claims(S)'
    BY <1>2 DEF Claims
  <2> QED
    BY <1>2, <2>1 DEF Passed
<1>9. ClientCountExact'
  <2>1. AllHeld' = AllHeld \ D /\ AllHeld \cap D = D /\ AllHeld \in SUBSET Fd
    <3>1. D \subseteq AllHeld /\ AllHeld \in SUBSET Fd
      BY <1>2 DEF AllHeld, HeldBy, TypeHeld
    <3>2. \A j \in Servers : HeldBy(j)' = HeldBy(j) \ D
      BY <1>2
    <3> QED
      BY <3>1, <3>2 DEF AllHeld
  <2>2. /\ Cardinality(AllHeld') = Cardinality(AllHeld) - Cardinality(D)
        /\ Cardinality(AllHeld) \in Nat
    BY <2>1, FS_Difference, FdFinite
  <2> DEFINE joining == IF at[Acceptor] = "join" THEN 1 ELSE 0
  <2>3. SUFFICES ASSUME \A j \in Servers : at'[Worker(j)] \notin {"wakeup", "ended"}
                 PROVE  count' = (Cardinality(AllHeld') - joining) % CountMod
    BY <1>2, CountOf DEF AllHeld, HeldBy, ClientCountExact
  <2>4. count = (Cardinality(AllHeld) - joining) % CountMod
    BY <1>2, <2>3, CountOf
  <2>5. PICK a \in Int, b \in Int :
          a = Cardinality(AllHeld) - joining /\ b = -Cardinality(D)
    BY <1>1, <2>2
  <2>6. count' = ((a % CountMod) + b) % CountMod
    <3>1. count = a % CountMod /\ count - Cardinality(D) = count + b
      BY <1>1, <2>4, <2>5 DEF TypeHeld
    <3> QED
      BY <1>1, <3>1
  <2>7. count' = (a + b) % CountMod
    BY <2>6, Wraps
  <2>8. a + b = Cardinality(AllHeld') - joining
    BY <1>1, <2>2, <2>5
  <2> QED
    BY <2>7, <2>8
<1> QED
  BY <1>3, <1>4, <1>5, <1>6, <1>7, <1>8, <1>9

\* The steps in which a ThreadServer moves clients or looks at them: it has
\* those it had.
LEMMA KeepHeld ==
    ASSUME HInv, at \in [Thread -> Place], NEW i \in Servers,
           TakeClients(i) \/ ClearClientsBuf(i) \/ NoNewClients(i) \/ Select(i)
    PROVE  HInv'
<1> USE DEF HInv, outside
<1>1. /\ UNCHANGED <<sock, backlog, connects, acc, count>>
      /\ \A j \in Servers : j # i => /\ clients'[j] = clients[j] /\ buf'[j] = buf[j]
                                     /\ change'[j] = change[j] /\ fdset'[j] = fdset[j]
                                     /\ at'[Worker(j)] = at[Worker(j)]
      /\ at'[Acceptor] = at[Acceptor]
      /\ at[Worker(i)] \notin {"wakeup", "ended"}
      /\ at'[Worker(i)] \notin {"wakeup", "ended"}
  BY Threads DEF TypeHeld, TakeClients, ClearClientsBuf, NoNewClients, Select, held, Goto
<1>2. TypeHeld'
  <2>1. clients' \in [Servers -> SUBSET Fd] /\ buf' \in [Servers -> SUBSET Fd]
    BY DEF TypeHeld, TakeClients, ClearClientsBuf, NoNewClients, Select, held
  <2>2. fdset' \in [Servers -> SUBSET Fd]
    BY DEF TypeHeld, TakeClients, ClearClientsBuf, NoNewClients, Select, held
  <2>3. change' \in [Servers -> BOOLEAN]
    BY DEF TypeHeld, TakeClients, ClearClientsBuf, NoNewClients, Select, held
  <2> QED
    BY <1>1, <2>1, <2>2, <2>3 DEF TypeHeld
<1>3. /\ HeldBy(i)' = HeldBy(i)
      /\ IF at'[Worker(i)] = "clear" THEN buf'[i] \subseteq clients'[i]
         ELSE buf'[i] \cap clients'[i] = {}
      /\ at'[Worker(i)] = "clear" \/ change'[i] \/ fdset'[i] = clients'[i]
  <2>0. at' = [at EXCEPT ![Worker(i)] = at'[Worker(i)]] /\ Worker(i) \in Thread
    BY Threads DEF TakeClients, ClearClientsBuf, NoNewClients, Select, Goto
  <2>1. CASE TakeClients(i)
    <3>1. /\ clients'[i] = clients[i] \cup buf[i] /\ buf' = buf
          /\ at'[Worker(i)] = "clear"
      BY <2>1, Threads DEF TypeHeld, TakeClients, Goto
    <3> QED
      BY <3>1 DEF HeldBy
  <2>2. CASE ClearClientsBuf(i)
    <3>1. /\ buf'[i] = {} /\ clients' = clients /\ change'[i]
          /\ at[Worker(i)] = "clear" /\ at'[Worker(i)] = "select"
      BY <2>2, Threads DEF TypeHeld, ClearClientsBuf, Goto
    <3> QED
      BY <3>1 DEF HeldBy, Moving
  <2>3. CASE NoNewClients(i)
    <3>1. /\ UNCHANGED <<buf, clients, change, fdset>>
          /\ at[Worker(i)] = "loop" /\ at'[Worker(i)] = "select"
      BY <2>3, Threads DEF TypeHeld, NoNewClients, held, Goto
    <3> QED
      BY <3>1 DEF HeldBy, Moving, Current
  <2>4. CASE Select(i)
    <3>1. /\ UNCHANGED <<buf, clients>>
          /\ fdset'[i] = IF change[i] THEN clients[i] ELSE fdset[i]
          /\ at[Worker(i)] = "select" /\ at'[Worker(i)] = "read"
      BY <2>4, Threads DEF TypeHeld, Select, Goto
    <3> QED
      BY <3>1 DEF HeldBy, Moving, Current
  <2> QED
    BY <2>1, <2>2, <2>3, <2>4
<1>4. \A j \in Servers : HeldBy(j)' = HeldBy(j)
  BY <1>1, <1>3 DEF HeldBy
<1>5. Apart' /\ Offered'
  BY <1>1, <1>4 DEF Apart, Offered
<1>6. Moving' /\ Current'
  BY <1>1, <1>3 DEF Moving, Current
<1>7. Passed'
  <2>1. \A S : Claims(S) => Claims(S)'
    BY <1>4 DEF Claims
  <2> QED
    BY <1>1, <2>1 DEF Passed
<1>8. ClientCountExact'
  <2>1. UNION {buf'[j] \cup clients'[j] : j \in Servers} = UNION {buf[j] \cup clients[j] : j \in Servers}
    BY <1>4 DEF HeldBy
  <2>2. \A j \in Servers : at'[Worker(j)] \notin {"wakeup", "ended"} =>
                             at[Worker(j)] \notin {"wakeup", "ended"}
    BY <1>1
  <2> QED
    BY <1>1, <2>1, <2>2 DEF ClientCountExact
<1> QED
  BY <1>2, <1>5, <1>6, <1>7, <1>8

\* What a ThreadServer does to its clients.
LEMMA ServingHeld ==
    ASSUME HInv, at \in [Thread -> Place], NEW i \in Servers, Serving(i)
    PROVE  HInv'
<1>1. CASE TakeClients(i) \/ ClearClientsBuf(i) \/ NoNewClients(i) \/ Select(i)
  BY <1>1, KeepHeld
<1>2. CASE ReadData(i)
  <2>1. PICK D \in Passes(i, Closed(i)) :
          Erase(i, D) /\ Changed(i, D) /\ OnNetLeave(D) /\ CloseFds(D)
    BY <1>2 DEF ReadData
  <2>2. D \in SUBSET clients[i]
    BY DEF Passes, Closed
  <2> QED
    BY <1>2, <2>1, <2>2, DropHeld DEF ReadData
<1>5. CASE RecvDataHangs(i)
  <2>3. PICK f : \E D \in Passes(i, {g \in Closed(i) : g < f}) :
                   Erase(i, D) /\ Changed(i, D) /\ OnNetLeave(D) /\ CloseFds(D)
    BY <1>5 DEF RecvDataHangs
  <2>1. PICK D \in Passes(i, {g \in Closed(i) : g < f}) :
          Erase(i, D) /\ Changed(i, D) /\ OnNetLeave(D) /\ CloseFds(D)
    BY <2>3
  <2>2. D \in SUBSET clients[i]
    BY DEF Passes, Closed
  <2> QED
    BY <1>5, <2>1, <2>2, DropHeld DEF RecvDataHangs
<1>3. CASE WiriteData(i)
  <2>1. PICK D \in SUBSET Closed(i) : Erase(i, D) /\ Changed(i, D) /\ OnNetLeave(D)
    BY <1>3 DEF WiriteData
  <2>2. D \in SUBSET clients[i]
    BY DEF Closed
  <2> QED
    BY <1>3, <2>1, <2>2, DropHeld DEF WiriteData
<1>4. CASE CheckTime(i)
  <2>1. PICK D \in SUBSET clients[i] :
          Erase(i, D) /\ Changed(i, D) /\ OnNetLeave(D) /\ CloseFds(D)
    BY <1>4 DEF CheckTime
  <2> QED
    BY <1>4, <2>1, DropHeld DEF CheckTime
<1> QED
  BY <1>1, <1>2, <1>3, <1>4, <1>5 DEF Serving

\* ClearAllCLient: the ThreadServer has no client any more, and ClietnCount is
\* left as it is.
LEMMA DestroyHeld ==
    ASSUME HInv, at \in [Thread -> Place], NEW t \in Thread, Destroy(t)
    PROVE  HInv'
<1> USE DEF HInv, outside, control
<1>1. /\ at[t] = "destroy" /\ at' = [at EXCEPT ![t] = "wakeup"]
      /\ UNCHANGED <<sock, backlog, connects, acc, change, fdset, count>>
      /\ \A i \in Servers : IF t = Worker(i)
                            THEN buf'[i] = {} /\ clients'[i] = {} /\ at'[Worker(i)] = "wakeup"
                            ELSE /\ buf'[i] = buf[i] /\ clients'[i] = clients[i]
                                 /\ at'[Worker(i)] = at[Worker(i)]
      /\ TypeHeld'
  BY Threads DEF Destroy, Goto, TypeHeld
<1>2. \A i \in Servers : HeldBy(i)' \subseteq HeldBy(i)
  BY <1>1 DEF HeldBy
<1>3. at'[Acceptor] = at[Acceptor] \/ {at[Acceptor], at'[Acceptor]} = {"destroy", "wakeup"}
  BY <1>1, Threads
<1>4. Apart'
  BY <1>1, <1>2 DEF Apart
<1>5. Moving' /\ Current'
  BY <1>1 DEF Moving, Current
<1>6. Offered'
  BY <1>1, <1>2, <1>3 DEF Offered
<1>7. Passed'
  <2>1. \A S : Claims(S) => Claims(S)'
    BY <1>2 DEF Claims
  <2> QED
    BY <1>1, <1>3, <2>1 DEF Passed
<1>8. ClientCountExact'
  <2>1. CASE \E i \in Servers : t = Worker(i)
    BY <1>1, <2>1 DEF ClientCountExact
  <2>2. CASE \A i \in Servers : t # Worker(i)
    <3>1. UNION {buf'[i] \cup clients'[i] : i \in Servers}
            = UNION {buf[i] \cup clients[i] : i \in Servers}
      BY <1>1, <2>2
    <3>2. \A i \in Servers : at'[Worker(i)] = at[Worker(i)]
      BY <1>1, <2>2
    <3> QED
      BY <1>1, <1>3, <3>1, <3>2 DEF ClientCountExact
  <2> QED
    BY <2>1, <2>2
<1> QED
  BY <1>1, <1>4, <1>5, <1>6, <1>7, <1>8

-----------------------------------------------------------------------------
(* The acceptor *)

\* A step of the acceptor that gives nobody a client.
LEMMA LookHeld ==
    ASSUME HInv, at \in [Thread -> Place], UNCHANGED held, TypeHeld',
           \A j \in Servers : at'[Worker(j)] = at[Worker(j)],
           \A f \in Fd : sock[f] # "free" => sock'[f] # "free",
           Offered', Passed', ClientCountExact'
    PROVE  HInv'
<1> USE DEF HInv, held
<1>1. Apart'
  BY DEF Apart, HeldBy, TypeHeld
<1>2. Moving' /\ Current'
  BY DEF Moving, Current
<1> QED
  BY <1>1, <1>2

\* accept()
LEMMA AcceptHeld ==
    ASSUME HInv, at \in [Thread -> Place], Accept
    PROVE  HInv'
<1> USE DEF HInv
<1>1. PICK f \in Fd :
        /\ sock[f] = "free" /\ sock' = [sock EXCEPT ![f] = "open"]
        /\ acc' = [fd |-> f, next |-> 1, temp |-> 0, max |-> MaxClient]
  BY DEF Accept, StartMax
<1>2. /\ backlog > 0 /\ backlog' = backlog - 1 /\ UNCHANGED <<connects, held, count>>
      /\ at[Acceptor] = "loop" /\ at'[Acceptor] = "pick"
      /\ \A j \in Servers : at'[Worker(j)] = at[Worker(j)]
  BY Threads DEF Accept, Goto
<1>3. TypeHeld'
  BY <1>1, <1>2 DEF TypeHeld, held, Fd
<1>4. \A g \in Fd : sock[g] # "free" => sock'[g] # "free"
  BY <1>1 DEF TypeHeld
<1>5. \A i \in Servers : HeldBy(i)' = HeldBy(i) /\ f \notin HeldBy(i)
  BY <1>1, <1>2 DEF Apart, HeldBy, held
<1>6. Offered'
  BY <1>1, <1>2, <1>5 DEF Offered, TypeHeld
<1>7. Passed'
  <2> DEFINE S == [i \in Servers |-> HeldBy(i)]
  <2>1. Claims(S)'
    <3>1. S' = S /\ S \in [Servers -> SUBSET Fd]
      BY <1>5 DEF TypeHeld, HeldBy
    <3>2. \A i, j \in Servers : i # j => S[i] \cap S[j] = {}
      BY DEF Apart
    <3> QED
      BY <1>5, <3>1, <3>2 DEF Claims
  <2>2. acc'.max = MaxClient /\ \A i \in Servers : ~(i < acc'.next)
    BY <1>1 DEF Servers
  <2> QED
    BY <2>1, <2>2 DEF Passed
<1>8. ClientCountExact'
  BY <1>2 DEF ClientCountExact, held
<1> QED
  BY <1>2, <1>3, <1>4, <1>6, <1>7, <1>8, LookHeld

\* addclient2pThreadServer looks for the ThreadServer.
LEMMA SearchHeld ==
    ASSUME HInv, at \in [Thread -> Place], PickServer \/ MeasureServer
    PROVE  HInv'
<1> USE DEF HInv
<1>1. /\ UNCHANGED <<sock, backlog, connects, held, count>>
      /\ \A j \in Servers : at'[Worker(j)] = at[Worker(j)] /\ HeldBy(j)' = HeldBy(j)
  BY Threads DEF PickServer, MeasureServer, Goto, outside, held, HeldBy
<1>2. at[Acceptor] \in {"pick", "measure"} /\ at'[Acceptor] \in {"pick", "measure"}
  BY Threads DEF PickServer, MeasureServer, Goto
<1>3. acc \in [fd : 0 .. MaxFd, next : 0 .. NumServers + 1, temp : 0 .. NumServers, max : Nat]
  BY DEF TypeHeld
<1>4. /\ acc' \in [fd : 0 .. MaxFd, next : 0 .. NumServers + 1,
                   temp : 0 .. NumServers, max : Nat]
      /\ acc'.fd = acc.fd /\ acc'.next >= 1
      /\ at'[Acceptor] = "measure" => acc'.next <= NumServers /\ acc'.temp = acc'.next
      /\ at'[Acceptor] = "pick" /\ acc'.temp = 0 =>
           /\ at[Acceptor] = "pick" /\ acc.temp = 0 /\ acc'.max = acc.max
           /\ acc'.next = acc.next + 1 /\ acc.next \in Servers
           /\ \E n \in TotalClient(acc.next) : ~(n < acc.max)
  <2>1. CASE PickServer
    <3>1. acc.next \in Servers /\ acc.next >= 1
      BY <1>2, <1>3, <2>1 DEF PickServer, Offered, Servers
    <3>2. PICK n \in TotalClient(acc.next) :
            IF n < acc.max
            THEN acc' = [acc EXCEPT !.temp = acc.next] /\ at'[Acceptor] = "measure"
            ELSE acc' = [acc EXCEPT !.next = @ + 1] /\ at'[Acceptor] = at[Acceptor]
      BY <2>1, Threads DEF PickServer, Goto
    <3>3. CASE n < acc.max
      BY <1>3, <3>1, <3>2, <3>3 DEF Servers
    <3>4. CASE ~(n < acc.max)
      BY <1>3, <2>1, <3>1, <3>2, <3>4 DEF Servers, PickServer
    <3> QED
      BY <3>3, <3>4
  <2>2. CASE MeasureServer
    <3>1. acc.next \in Servers /\ acc.temp = acc.next
      <4>1. at[Acceptor] = "measure"
        BY <2>2 DEF MeasureServer
      <4>2. acc.next >= 1 /\ acc.next <= NumServers /\ acc.temp = acc.next
        BY <4>1 DEF Offered
      <4> QED
        BY <1>3, <4>2 DEF Servers
    <3>2. PICK n \in TotalClient(acc.temp) : acc' = [acc EXCEPT !.max = n, !.next = @ + 1]
      BY <2>2 DEF MeasureServer
    <3>3. n \in Nat
      BY <3>1, <3>2, TotalBounded
    <3>4. at'[Acceptor] = "pick"
      BY <2>2, Threads DEF MeasureServer, Goto
    <3>5. /\ acc' = [fd |-> acc.fd, next |-> acc.next + 1, temp |-> acc.temp, max |-> n]
      BY <1>3, <3>2
    <3>6. acc.next + 1 \in 0 .. NumServers + 1 /\ acc.next + 1 >= 1 /\ acc.temp # 0
      BY <3>1 DEF Servers
    <3> QED
      BY <1>3, <3>3, <3>4, <3>5, <3>6
  <2> QED
    BY <2>1, <2>2
<1>5. TypeHeld'
  BY <1>1, <1>4 DEF TypeHeld, held
<1>6. Offered'
  BY <1>1, <1>2, <1>4 DEF Offered
<1>7. Passed'
  <2>1. SUFFICES ASSUME at'[Acceptor] = "pick", acc'.temp = 0
                 PROVE  /\ acc'.max = MaxClient
                        /\ \E S : Claims(S)' /\ \A i \in Servers : i < acc'.next =>
                                                   MaxClient <= 2 * Cardinality(S[i])
    BY DEF Passed
  <2>2. PICK n \in TotalClient(acc.next) : ~(n < acc.max)
    BY <1>4, <2>1
  <2>3. acc.max = MaxClient
    BY <1>4, <2>1 DEF Passed
  <2>4. PICK S : Claims(S) /\ \A i \in Servers : i < acc.next =>
                                  MaxClient <= 2 * Cardinality(S[i])
    BY <1>4, <2>1 DEF Passed
  <2>5. MaxClient <= 2 * Cardinality(S[acc.next])
    <3>1. acc.next \in Servers /\ n \in Nat /\ n <= 2 * Cardinality(HeldBy(acc.next))
      BY <1>4, <2>1, TotalBounded
    <3>2. /\ Cardinality(HeldBy(acc.next)) <= Cardinality(S[acc.next])
          /\ Cardinality(HeldBy(acc.next)) \in Nat /\ Cardinality(S[acc.next]) \in Nat
      BY <2>4, <3>1, FdFinite DEF Claims
    <3> QED
      BY <2>2, <2>3, <3>1, <3>2
  <2>6. \A i \in Servers : i < acc'.next => MaxClient <= 2 * Cardinality(S[i])
    <3>1. \A i \in Servers : i < acc.next + 1 => i < acc.next \/ i = acc.next
      BY <1>3 DEF Servers
    <3> QED
      BY <1>4, <2>1, <2>4, <2>5, <3>1
  <2>7. Claims(S)'
    BY <1>1, <2>4 DEF Claims
  <2> QED
    BY <1>4, <2>1, <2>3, <2>6, <2>7
<1>8. ClientCountExact'
  BY <1>1, <1>2 DEF ClientCountExact, held
<1> QED
  BY <1>1, <1>5, <1>6, <1>7, <1>8, LookHeld
\* ThreadServer::addClient
LEMMA AddClientHeld ==
    ASSUME HInv, at \in [Thread -> Place], AddClient
    PROVE  HInv'
<1> USE DEF HInv
<1>1. PICK k \in Servers, f \in Fd : k = acc.temp /\ f = acc.fd
  BY DEF AddClient, Offered, TypeHeld, Servers
<1>2. /\ buf' = [buf EXCEPT ![k] = @ \cup {f}]
      /\ UNCHANGED <<sock, backlog, connects, acc, clients, change, fdset, count>>
      /\ at[Acceptor] = "pick" /\ at'[Acceptor] = "join" /\ at[Worker(k)] # "clear"
      /\ \A j \in Servers : at'[Worker(j)] = at[Worker(j)]
  BY <1>1, Threads DEF AddClient, Goto, outside
<1>3. /\ sock[f] # "free" /\ \A j \in Servers : f \notin HeldBy(j)
  BY <1>1, <1>2 DEF Offered
<1>4. /\ buf'[k] = buf[k] \cup {f} /\ HeldBy(k)' = HeldBy(k) \cup {f}
      /\ \A j \in Servers : j # k => buf'[j] = buf[j] /\ HeldBy(j)' = HeldBy(j)
  BY <1>2 DEF TypeHeld, HeldBy
<1>5. TypeHeld'
  <2>1. buf' \in [Servers -> SUBSET Fd]
    BY <1>2 DEF TypeHeld
  <2> QED
    BY <1>2, <2>1 DEF TypeHeld
<1>6. Apart'
  <2>1. \A j \in Servers : j # k => (HeldBy(k) \cup {f}) \cap HeldBy(j) = {}
    BY <1>3 DEF Apart
  <2>2. \A i, j \in Servers : i # j => HeldBy(i)' \cap HeldBy(j)' = {}
    BY <1>4, <2>1 DEF Apart
  <2>3. \A i \in Servers : \A g \in HeldBy(i)' : sock'[g] # "free"
    BY <1>2, <1>3, <1>4 DEF Apart
  <2> QED
    BY <2>2, <2>3 DEF Apart
<1>7. Moving'
  <2>1. buf[k] \cap clients[k] = {} /\ f \notin clients[k]
    BY <1>2, <1>3 DEF Moving, HeldBy
  <2> QED
    BY <1>2, <1>4, <2>1 DEF Moving
<1>8. Offered' /\ Current' /\ Passed'
  BY <1>2 DEF Offered, Current, Passed
<1>9. ClientCountExact'
  <2>1. AllHeld' = AllHeld \cup {f} /\ f \notin AllHeld /\ AllHeld \in SUBSET Fd
    BY <1>3, <1>4 DEF AllHeld, HeldBy, TypeHeld
  <2>2. /\ Cardinality(AllHeld') = Cardinality(AllHeld) + 1
        /\ Cardinality(AllHeld) \in Nat
    BY <2>1, FS_AddElement, FdFinite
  <2>3. Cardinality(AllHeld') - 1 = Cardinality(AllHeld) - 0
    BY <2>2
  <2> QED
    BY <1>2, <2>3, CountOf DEF AllHeld, HeldBy, ClientCountExact
<1> QED
  BY <1>5, <1>6, <1>7, <1>8, <1>9

\* The client is counted.
LEMMA JoinHeld ==
    ASSUME HInv, at \in [Thread -> Place], OnNetJoin
    PROVE  HInv'
<1> USE DEF HInv
<1>1. /\ count' = (count + 1) % CountMod /\ acc' = NoAccept
      /\ UNCHANGED <<sock, backlog, connects, held>>
      /\ at[Acceptor] = "join" /\ at'[Acceptor] = "loop"
      /\ \A j \in Servers : at'[Worker(j)] = at[Worker(j)]
  BY Threads DEF OnNetJoin, Goto, outside
<1>2. TypeHeld'
  <2>1. count' \in 0 .. CountMod - 1
    BY <1>1, DivMod DEF TypeHeld
  <2> QED
    BY <1>1, <2>1 DEF TypeHeld, held, NoAccept
<1>3. Offered' /\ Passed'
  BY <1>1 DEF Offered, Passed
<1>4. ClientCountExact'
  <2>1. AllHeld' = AllHeld /\ Cardinality(AllHeld) \in Nat
    <3>1. AllHeld \in SUBSET Fd
      BY DEF AllHeld, HeldBy, TypeHeld
    <3> QED
      BY <1>1, <3>1, FdFinite DEF AllHeld, HeldBy, held
  <2>2. SUFFICES ASSUME \A j \in Servers : at[Worker(j)] \notin {"wakeup", "ended"}
                 PROVE  count' = (Cardinality(AllHeld) - 0) % CountMod
    BY <1>1, <2>1 DEF ClientCountExact, AllHeld, HeldBy
  <2>3. PICK a \in Int, b \in Int : a = Cardinality(AllHeld) - 1 /\ b = 1
    BY <2>1
  <2>4. count = a % CountMod
    BY <1>1, <2>2, <2>3, CountOf
  <2>5. count' = (a + b) % CountMod
    <3>1. count' = ((a % CountMod) + b) % CountMod
      BY <1>1, <2>3, <2>4
    <3> QED
      BY <3>1, Wraps
  <2>6. a + b = Cardinality(AllHeld) - 0
    BY <2>1, <2>3
  <2> QED
    BY <2>5, <2>6
<1> QED
  BY <1>1, <1>2, <1>3, <1>4, LookHeld

-----------------------------------------------------------------------------
\* Every step keeps what is said of the clients.
LEMMA NextHeld == IInv /\ HInv /\ [Next]_vars => HInv'
<1> SUFFICES ASSUME IInv, HInv, [Next]_vars PROVE HInv'
  OBVIOUS
<1>1. at \in [Thread -> Place] /\ TypeHeld
  BY DEF IInv, TypeCore, HInv
<1>2. CASE Connect \/ UNCHANGED vars
  BY <1>1, <1>2, QuietHeld DEF Connect, vars, held, TypeHeld
<1>3. ASSUME NEW f \in Fd, PeerClose(f) PROVE HInv'
  <2>1. TypeHeld' /\ \A g \in Fd : sock[g] # "free" => sock'[g] # "free"
    BY <1>1, <1>3 DEF PeerClose, TypeHeld, held, outside
  <2> QED
    BY <1>1, <1>3, <2>1, QuietHeld DEF PeerClose
<1>4. CASE StartServer
  <2>1. /\ main.i \in Servers /\ at[Worker(main.i)] = "new"
        /\ at' = [t \in Thread |-> IF t \in {Worker(main.i), Task(main.i)}
                                   THEN "loop" ELSE at[t]]
        /\ UNCHANGED <<sock, outside, acc, held, count>>
    BY <1>4 DEF IInv, Fresh, StartServer, InOrder, TypeCore, Servers
  <2>2. TypeHeld'
    BY <1>1, <2>1 DEF TypeHeld, held, outside
  <2>3. at'[Acceptor] = at[Acceptor]
    BY <2>1, Threads
  <2>4. \A j \in Servers : at'[Worker(j)] =
          IF j = main.i THEN "loop" ELSE at[Worker(j)]
    BY <2>1, Threads
  <2> QED
    BY <1>1, <2>1, <2>2, <2>3, <2>4, QuietHeld
<1>5. CASE StartAcceptor
  <2>1. /\ at[Acceptor] = "new" /\ at' = [at EXCEPT ![Acceptor] = "loop"]
        /\ UNCHANGED <<sock, outside, acc, held, count>>
    BY <1>5 DEF IInv, Fresh, StartAcceptor, Goto
  <2>2. TypeHeld'
    BY <1>1, <2>1 DEF TypeHeld, held, outside
  <2>3. at'[Acceptor] = "loop" /\ \A j \in Servers : at'[Worker(j)] = at[Worker(j)]
    BY <1>1, <2>1, Threads
  <2> QED
    BY <1>1, <2>1, <2>2, <2>3, QuietHeld
<1>6. CASE ExitCommand \/ Closing
  <2>1. UNCHANGED <<at, sock, outside, acc, held, count>>
    BY <1>6 DEF ExitCommand, Closing, CloseThread, SemWait, SemPass, CloseNext
  <2> QED
    BY <1>1, <2>1, QuietHeld DEF TypeHeld, held, outside
<1>7. ASSUME NEW t \in Thread, SelectFails(t) \/ LeaveLoop(t) \/ Exit(t) \/ SemWakeup(t)
      PROVE  HInv'
  <2>1. /\ \E p \in {"destroy", "exit", "ended"} : at' = [at EXCEPT ![t] = p]
        /\ at[t] \in {"loop", "select", "exit", "wakeup"}
        /\ at[t] = "wakeup" => at' = [at EXCEPT ![t] = "ended"]
        /\ UNCHANGED <<sock, outside, acc, held, count>>
    BY <1>7 DEF SelectFails, LeaveLoop, Exit, SemWakeup, Goto
  <2>2. TypeHeld'
    BY <1>1, <2>1 DEF TypeHeld, held, outside
  <2>3. \A u \in Thread : /\ at'[u] = at[u] \/ u = t
                          /\ (at[u] = "clear") <=> (at'[u] = "clear")
                          /\ at[u] \in {"wakeup", "ended"} => at'[u] \in {"wakeup", "ended"}
    BY <1>1, <2>1
  <2>4. \/ at'[Acceptor] = at[Acceptor]
        \/ {at[Acceptor], at'[Acceptor]} \cap {"pick", "measure", "join"} = {}
    BY <1>1, <2>1, Threads
  <2> QED
    BY <1>1, <2>1, <2>2, <2>3, <2>4, Threads, QuietHeld
<1>8. ASSUME NEW t \in Thread, Destroy(t) PROVE HInv'
  BY <1>1, <1>8, DestroyHeld
<1>9. CASE Accepting
  BY <1>1, <1>9, AcceptHeld, SearchHeld, AddClientHeld, JoinHeld DEF Accepting
<1>10. ASSUME NEW i \in Servers, Serving(i) PROVE HInv'
  BY <1>1, <1>10, ServingHeld
<1> QED
  BY <1>2, <1>3, <1>4, <1>5, <1>6, <1>7, <1>8, <1>9, <1>10
  DEF Next, Starting, Ending

-----------------------------------------------------------------------------
(* What follows *)

AllInv == IInv /\ SemExact /\ HInv

\* The three invariants hold together.
LEMMA AlwaysInv == Spec => []AllInv
<1>1. Init => AllInv
  BY InitIInv, InitSem, InitHeld DEF AllInv
<1>2. AllInv /\ [Next]_vars => AllInv'
  BY NextIInv, NextSem, NextHeld DEF AllInv
<1> QED
  BY <1>1, <1>2, PTL DEF Spec

\* Every variable keeps its type; a semaphore's numbers never leave -1 .. 1 and
\* 0 .. 1, and ClietnCount never leaves its width.
THEOREM TypeCorrect == Spec => []TypeOK
<1>1. AllInv => TypeOK
  <2> SUFFICES ASSUME AllInv PROVE TypeOK
    OBVIOUS
  <2>1. sem \in [Thread -> [wait : -1 .. 1, wakeup : 0 .. 1]]
    <3>1. \A t \in Thread : sem[t].wait \in -1 .. 1 /\ sem[t].wakeup \in 0 .. 1
      BY DEF AllInv, SemExact
    <3> QED
      BY <3>1 DEF AllInv, IInv, TypeCore
  <2>2. backlog \in 0 .. MaxConnects /\ connects \in 0 .. MaxConnects
    BY DEF AllInv, HInv, TypeHeld
  <2> QED
    BY <2>1, <2>2 DEF AllInv, HInv, TypeHeld, IInv, TypeCore, TypeOK
<1> QED
  BY <1>1, AlwaysInv, PTL

\* No fd is held twice, and none that is held is free.
THEOREM FdsHeldOnce == Spec => []FdHeldOnce
<1>1. HInv => FdHeldOnce
  <2> SUFFICES ASSUME HInv, NEW f \in Fd
               PROVE  LET servers == {i \in Servers : f \in buf[i] \cup clients[i]}
                          accepting == at[Acceptor] \in {"pick", "measure"} /\ acc.fd = f
                      IN  /\ accepting => servers = {}
                          /\ servers # {} \/ accepting => sock[f] # "free"
                          /\ Cardinality(servers) <= 1
                          /\ \A i \in servers :
                               f \in buf[i] \cap clients[i] => at[Worker(i)] = "clear"
    BY DEF FdHeldOnce
  <2> USE DEF HInv
  <2> DEFINE servers == {i \in Servers : f \in buf[i] \cup clients[i]}
             accepting == at[Acceptor] \in {"pick", "measure"} /\ acc.fd = f
  <2>1. accepting => servers = {} /\ sock[f] # "free"
    BY DEF Offered, HeldBy
  <2>2. servers # {} => sock[f] # "free"
    BY DEF Apart, HeldBy
  <2>3. Cardinality(servers) <= 1
    <3>1. \A i, j \in servers : i = j
      BY DEF Apart, HeldBy
    <3>2. CASE servers = {}
      BY <3>2, FS_EmptySet
    <3>3. ASSUME NEW i \in servers PROVE Cardinality(servers) <= 1
      <4>1. servers = {i}
        BY <3>1
      <4>2. Cardinality({i}) = 1
        BY FS_Singleton
      <4>3. Cardinality(servers) = Cardinality({i})
        BY <4>1, Zenon
      <4> HIDE DEF servers
      <4> QED
        BY <4>2, <4>3
    <3> QED
      BY <3>2, <3>3
  <2>4. \A i \in servers : f \in buf[i] \cap clients[i] => at[Worker(i)] = "clear"
    BY DEF Moving
  <2> QED
    BY <2>1, <2>2, <2>3, <2>4
<1> QED
  BY <1>1, AlwaysInv, PTL DEF AllInv

\* The set that select() gets is that of the clients, or it is rebuilt first.
THEOREM SetIsCurrent == Spec => []FdSetCurrent
<1>1. HInv => FdSetCurrent
  BY DEF HInv, Current, FdSetCurrent
<1> QED
  BY <1>1, AlwaysInv, PTL DEF AllInv

\* ClietnCount counts the clients that the ThreadServers hold, modulo its width.
THEOREM CountIsExact == Spec => []ClientCountExact
BY AlwaysInv, PTL DEF AllInv, HInv

\* Sets of half of MaxClient fds, one for each ThreadServer and apart, take
\* more fds than there are.
LEMMA TooManyFds ==
    ASSUME NEW S \in [Servers -> SUBSET Fd],
           \A i, j \in Servers : i # j => S[i] \cap S[j] = {},
           \A i \in Servers : MaxClient <= 2 * Cardinality(S[i])
    PROVE  FALSE
<1> DEFINE m == (MaxClient + 1) \div 2
           B(i) == Bijection(1 .. Cardinality(S[i]), S[i])
           b == [i \in Servers |-> CHOOSE g : g \in B(i)]
           F == [x \in Servers \X (1 .. m) |-> b[x[1]][x[2]]]
<1>1. m \in Nat /\ MaxClient <= 2 * m
      /\ \A c \in Nat : MaxClient <= 2 * c => m <= c
  OBVIOUS
<1>2. ASSUME NEW i \in Servers
      PROVE  /\ m <= Cardinality(S[i]) /\ Cardinality(S[i]) \in Nat
             /\ b[i] \in [1 .. Cardinality(S[i]) -> S[i]]
             /\ \A p, q \in 1 .. Cardinality(S[i]) : b[i][p] = b[i][q] => p = q
  <2>1. IsFiniteSet(S[i]) /\ Cardinality(S[i]) \in Nat
    BY FdFinite
  <2>2. \E g : g \in B(i)
    BY <2>1, FS_CardinalityType DEF ExistsBijection
  <2>3. b[i] \in B(i)
    BY <2>2
  <2> QED
    BY <1>1, <2>1, <2>3 DEF Bijection, Injection, IsInjective
<1> HIDE DEF m, b
<1>3. ASSUME NEW x \in Servers \X (1 .. m), NEW y \in Servers \X (1 .. m)
      PROVE  F[x] \in S[x[1]] /\ F[x] \in Fd /\ (F[x] = F[y] => x = y)
  <2>1. /\ x[1] \in Servers /\ y[1] \in Servers /\ x[2] \in 1 .. m /\ y[2] \in 1 .. m
        /\ x = <<x[1], x[2]>> /\ y = <<y[1], y[2]>>
    OBVIOUS
  <2>2. /\ x[2] \in 1 .. Cardinality(S[x[1]]) /\ y[2] \in 1 .. Cardinality(S[y[1]])
    BY <1>1, <1>2, <2>1
  <2>3. F[x] = b[x[1]][x[2]] /\ F[y] = b[y[1]][y[2]]
    OBVIOUS
  <2>4. F[x] \in S[x[1]] /\ F[y] \in S[y[1]] /\ F[x] \in Fd
    BY <1>2, <2>1, <2>2, <2>3
  <2>5. F[x] = F[y] => x[1] = y[1]
    BY <2>1, <2>4
  <2>6. F[x] = F[y] => x[2] = y[2]
    BY <1>2, <2>1, <2>2, <2>3, <2>5
  <2> QED
    BY <2>1, <2>4, <2>5, <2>6
<1>4. F \in Injection(Servers \X (1 .. m), Fd)
  BY <1>3 DEF Injection, IsInjective
<1>5. Cardinality(Servers \X (1 .. m)) <= MaxFd
  BY <1>4, FdFinite, FS_Injection
<1>6. Cardinality(Servers \X (1 .. m)) = NumServers * m
  <2>1. /\ IsFiniteSet(Servers) /\ Cardinality(Servers) = NumServers
        /\ IsFiniteSet(1 .. m) /\ Cardinality(1 .. m) = m
    <3>1. \A n \in Nat : IsFiniteSet(1 .. n) /\ Cardinality(1 .. n) = n
      BY FS_Interval
    <3> QED
      BY <1>1, <3>1 DEF Servers
  <2> QED
    BY <2>1, FS_Product
<1>7. NumServers * MaxClient <= 2 * (NumServers * m)
  <2>1. NumServers * MaxClient <= NumServers * (2 * m)
    BY <1>1
  <2> QED
    BY <1>1, <2>1
<1> QED
  BY <1>1, <1>5, <1>6, <1>7

\* addclient2pThreadServer always finds a ThreadServer, whatever getTotalClient
\* read: the ThreadServers cannot all look full with the fds of one process.
THEOREM AlwaysServer == Spec => []ServerFound
<1>1. HInv => ServerFound
  <2> SUFFICES ASSUME HInv, at[Acceptor] = "pick", acc.next > NumServers, acc.temp = 0
               PROVE  FALSE
    BY DEF ServerFound
  <2>1. PICK S : Claims(S) /\ \A i \in Servers : i < acc.next =>
                                  MaxClient <= 2 * Cardinality(S[i])
    BY DEF HInv, Passed
  <2>2. \A i \in Servers : i < acc.next
    BY DEF Servers, HInv, TypeHeld
  <2> QED
    BY <2>1, <2>2, TooManyFds DEF Claims
<1> QED
  BY <1>1, AlwaysInv, PTL DEF AllInv
=============================================================================
