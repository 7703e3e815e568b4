------------------------- MODULE LoopThreads_proofs -------------------------
(***************************************************************************)
(* Proofs of the invariants of LoopThreads, for any number of threads and  *)
(* whatever the memory held.                                               *)
(***************************************************************************)
EXTENDS LoopThreads, TLAPS

\* threads_ holds the threads in the order in which Run makes them, and the
\* start-up knows which one it is at.
InTurn ==
    /\ \A k \in 1 .. Len(threads) : threads[k] = k
    /\ Len(threads) <= Num
    /\ at \in StartUp /\ cur \in Worker => Len(threads) = cur - 1
    /\ at \in {"new", "construct"} /\ cur = Listener => threads = <<>>
    /\ at \in StartUp \ {"new", "construct"} /\ cur = Listener
         => Len(threads) = Num
    /\ at \notin StartUp => Len(threads) = Num
    /\ at = "add" => cur \in Worker

\* The threads that are not made yet.
\* StartRun returns only when start_ is true, and with memory that was false
\* only WaitRun makes it true, after loop_.
StartedIsSet ==
    /\ \A i \in Started : start[i]
    /\ \A i \in Thread :
          /\ start[i] => early[i] \/ loop[i]
          /\ pc[i] \in {"lock", "asleep", "set", "unlock", "loop"} => loop[i]

\* Without such memory nothing is done with an empty loop_, and nothing with
\* any before the start-up is over.
Sound ==
    /\ at \in StartUp => ~orphan
    /\ (\A i \in Thread : ~early[i])
         => /\ at # "crashed"
            /\ ~orphan
            /\ at = "add" => copied

\* given, with the connection that is being handed over.
Load(i) == given[i] + IF at = "add" /\ cur = i THEN 1 ELSE 0

\* Whose turn of the round has come.
Turn(i) == IF i <= nextId THEN 1 ELSE 0

Even ==
    /\ \A i, j \in Worker : given[i] <= given[j] + 1
    /\ at # "crashed"
         => \A i, j \in Worker : Load(i) + Turn(j) = Load(j) + Turn(i)

Inv == TypeOK /\ InTurn /\ StartedIsSet /\ Sound /\ Even

-----------------------------------------------------------------------------
\* How far the round is: the next thread after the last is the first.
LEMMA RoundTrip ==
    ASSUME NEW k \in 0 .. Num - 1
    PROVE  NextThread(k) = IF k + 1 = Num THEN 0 ELSE k + 1
  BY LoopThreadsAssumption, SMT DEF NextThread

LEMMA InitInv == Init => Inv
  <1> SUFFICES ASSUME Init PROVE Inv
    OBVIOUS
  <1>1. TypeOK
    <2>1. at \in MainPc /\ cur \in Thread /\ nextId \in 0 .. Num - 1
      BY LoopThreadsAssumption DEF Init, MainPc, StartUp, Thread
    <2>2. pc \in [Thread -> ThreadPc] /\ word \in [Thread -> Word]
      BY DEF Init, ThreadPc, Word
    <2>3. threads \in Seq(Worker) /\ given \in [Worker -> Nat]
      BY DEF Init
    <2> QED  BY <2>1, <2>2, <2>3 DEF Init, TypeOK
  <1>2. InTurn
    BY LoopThreadsAssumption DEF Init, InTurn, StartUp, Worker, Listener
  <1>3. StartedIsSet /\ Sound
    BY DEF Init, StartedIsSet, Started, Sound
  <1>4. Even
    BY LoopThreadsAssumption DEF Init, Even, Load, Turn, Worker
  <1> QED  BY <1>1, <1>2, <1>3, <1>4 DEF Inv

-----------------------------------------------------------------------------
(* The steps of WaitRun change neither the pool nor what it has given out.   *)

\* Every step of WaitRun keeps every variable in its type.
LEMMA WaitRunType ==
    ASSUME TypeOK, NEW i \in Thread, WaitRun(i)
    PROVE  TypeOK'
  <1>1. CASE MakeLoop(i)
    BY <1>1 DEF TypeOK, MakeLoop, ThreadPc, pool, serving
  <1>2. CASE WaitRunLock(i)
    BY <1>2 DEF TypeOK, WaitRunLock, Lock, Unconstructed, ThreadPc, Word, pool,
       serving
  <1>3. CASE WaitRunSleep(i)
    BY <1>3 DEF TypeOK, WaitRunSleep, Sleep, Unconstructed, ThreadPc, Word, pool,
       serving
  <1>4. CASE SetStart(i)
    BY <1>4 DEF TypeOK, SetStart, ThreadPc, MainPc, StartUp, pool, serving
  <1>5. CASE WaitRunLoop(i)
    BY <1>5 DEF TypeOK, WaitRunLoop, MainWoken, ThreadPc, MainPc, StartUp, Word,
       pool, serving
  <1> QED  BY <1>1, <1>2, <1>3, <1>4, <1>5 DEF WaitRun

\* A thread moves the main thread only within StartRun.
LEMMA WaitRunMain ==
    ASSUME TypeOK, NEW i \in Thread, WaitRun(i)
    PROVE  /\ UNCHANGED <<cur, pool, serving, early>>
           /\ \/ at' = at
              \/ at \in {"asleep", "waiting"} /\ at' = "lock"
  BY DEF WaitRun, MakeLoop, WaitRunLock, WaitRunSleep, SetStart, Waiting,
     WaitRunLoop, MainWoken

LEMMA WaitRunStep ==
    ASSUME Inv, NEW i \in Thread, WaitRun(i)
    PROVE  Inv'
  <1> USE DEF Inv
  <1>1. TypeOK'
    BY WaitRunType
  <1>2. /\ UNCHANGED <<cur, threads, nextId, copied, given, orphan, early>>
        /\ \/ at' = at
           \/ at \in {"asleep", "waiting"} /\ at' = "lock"
    BY WaitRunMain DEF pool, serving
  <1>3. InTurn'
    BY <1>2 DEF InTurn, StartUp
  <1>4. Sound' /\ Even'
    BY <1>2 DEF Sound, Even, Load, Turn, StartUp
  <1>5. Started' = Started
    BY <1>2 DEF Started
  <1>6. StartedIsSet'
    <2>1. CASE MakeLoop(i)
      BY <1>2, <1>5, <2>1 DEF MakeLoop, StartedIsSet, TypeOK
    <2>2. CASE WaitRunLock(i) \/ WaitRunSleep(i) \/ WaitRunLoop(i)
      BY <1>2, <1>5, <2>2
         DEF WaitRunLock, WaitRunSleep, WaitRunLoop, StartedIsSet, TypeOK
    <2>3. CASE SetStart(i)
      <3>1. loop[i]
        BY <2>3 DEF SetStart, StartedIsSet
      <3>2. \A j \in Thread : start[j] => start'[j]
        BY <2>3 DEF SetStart, TypeOK
      <3>3. Started \subseteq Thread
        BY DEF Started, TypeOK, Thread, Listener
      <3>4. \A j \in Started' : start'[j]
        BY <1>5, <3>2, <3>3 DEF StartedIsSet
      <3>5. ASSUME NEW j \in Thread
            PROVE  /\ start'[j] => early'[j] \/ loop'[j]
                   /\ pc'[j] \in {"lock", "asleep", "set", "unlock", "loop"}
                        => loop'[j]
        BY <1>2, <2>3, <3>1 DEF SetStart, StartedIsSet, TypeOK
      <3> QED  BY <3>4, <3>5 DEF StartedIsSet
    <2> QED  BY <2>1, <2>2, <2>3 DEF WaitRun
  <1> QED  BY <1>1, <1>3, <1>4, <1>6

-----------------------------------------------------------------------------
(* The start-up.                                                             *)

LEMMA RunType ==
    ASSUME TypeOK, InTurn, Run \/ SpuriousWakeup
    PROVE  TypeOK'
  <1> USE LoopThreadsAssumption
  <1>1. CASE NewThread
    <2>1. start' \in [Thread -> BOOLEAN] /\ early' \in [Thread -> BOOLEAN]
      BY <1>1 DEF TypeOK, NewThread
    <2>2. word' \in [Thread -> Word]
      <3>1. PICK raw \in RawWord : word' = [word EXCEPT ![cur] = raw]
        BY <1>1 DEF NewThread
      <3>2. raw \in Word
        BY DEF Word
      <3> QED  BY <3>1, <3>2 DEF TypeOK
    <2>3. pc' \in [Thread -> ThreadPc]
      BY <1>1 DEF TypeOK, NewThread, ThreadPc
    <2>4. at' \in MainPc
      BY <1>1 DEF NewThread, MainPc, StartUp
    <2> QED  BY <1>1, <2>1, <2>2, <2>3, <2>4 DEF TypeOK, NewThread, pool, serving
  <1>2. CASE ConstructMutex
    BY <1>2 DEF TypeOK, ConstructMutex, MainPc, StartUp, Word, Thread, Worker,
       Listener, pool, serving
  <1>3. CASE StartRunLock
    BY <1>3 DEF TypeOK, StartRunLock, Lock, Sleep, MainPc, StartUp, Word, pool,
       serving
  <1>4. CASE StartRunReturns
    <2>1. at' \in MainPc /\ cur' \in Thread
      BY <1>4 DEF TypeOK, StartRunReturns, AfterStartRun, MainPc, StartUp, Thread,
         Worker, Listener
    <2>2. threads' \in Seq(Worker)
      BY <1>4 DEF TypeOK, StartRunReturns, Thread, Listener
    <2>3. pc' \in [Thread -> ThreadPc] /\ word' \in [Thread -> Word]
      BY <1>4 DEF TypeOK, StartRunReturns, ThreadWoken, ThreadPc, Word
    <2> QED  BY <1>4, <2>1, <2>2, <2>3 DEF TypeOK, StartRunReturns, serving
  <1>5. CASE StartRunTest \/ SpuriousWakeup
    BY <1>5 DEF TypeOK, StartRunTest, SpuriousWakeup, MainPc, StartUp, pool,
       serving
  <1>6. CASE StartRunWait
    BY <1>6 DEF TypeOK, StartRunWait, ThreadWoken, Released, ThreadPc, MainPc,
       StartUp, Word, pool, serving
  <1> QED  BY <1>1, <1>2, <1>3, <1>4, <1>5, <1>6 DEF Run

LEMMA RunStep ==
    ASSUME Inv, Run \/ SpuriousWakeup
    PROVE  Inv'
  <1> USE LoopThreadsAssumption DEF Inv
  <1>1. TypeOK'
    BY RunType
  <1>2. at \in StartUp /\ UNCHANGED <<nextId, serving, loop>>
    BY DEF Run, SpuriousWakeup, NewThread, ConstructMutex, StartRunLock,
       StartRunReturns, StartRunTest, StartRunWait, StartUp, pool
  <1>3. at' \in StartUp \/ at' = "serve"
    BY DEF Run, SpuriousWakeup, NewThread, ConstructMutex, StartRunLock,
       StartRunReturns, AfterStartRun, StartRunTest, StartRunWait, StartUp
  <1>4. Sound'
    BY <1>2, <1>3 DEF Sound, serving, StartUp
  <1>5. Even'
    BY <1>2, <1>3 DEF Even, Load, Turn, serving, StartUp
  <1>6. InTurn' /\ StartedIsSet'
    <2>1. CASE NewThread
      <3>1. cur \notin Started
        <4>1. /\ at = "new" /\ cur \in Thread
              /\ Started = {threads[k] : k \in 1 .. Len(threads)}
          BY <2>1 DEF NewThread, Started, TypeOK
        <4>2. CASE cur = Listener
          <5>1. threads = <<>>
            BY <4>1, <4>2 DEF InTurn
          <5>2. 1 .. Len(threads) = {}
            BY <5>1
          <5> QED  BY <4>1, <5>2
        <4>3. CASE cur \in Worker
          <5>1. Len(threads) = cur - 1 /\ \A k \in 1 .. Len(threads) : threads[k] = k
            BY <4>1, <4>3 DEF InTurn, StartUp
          <5>2. cur \notin 1 .. cur - 1
            BY <4>3 DEF Worker
          <5> QED  BY <4>1, <5>1, <5>2
        <4> QED  BY <4>1, <4>2, <4>3 DEF Thread
      <3>2. Started' = Started /\ at = "new" /\ at' = "construct"
        BY <2>1 DEF NewThread, Started, pool
      <3>3. InTurn'
        BY <2>1, <3>2 DEF NewThread, InTurn, StartUp, pool
      <3>4. Started \subseteq Thread
        BY DEF Started, TypeOK, Thread, Listener
      <3>5. \A j \in Started' : start'[j]
        BY <2>1, <3>1, <3>2, <3>4 DEF NewThread, StartedIsSet, TypeOK
      <3>6. ASSUME NEW j \in Thread
            PROVE  /\ start'[j] => early'[j] \/ loop'[j]
                   /\ pc'[j] \in {"lock", "asleep", "set", "unlock", "loop"}
                        => loop'[j]
        BY <1>2, <2>1 DEF NewThread, StartedIsSet, TypeOK
      <3> QED  BY <3>3, <3>5, <3>6 DEF StartedIsSet
    <2>2. CASE ConstructMutex
      <3>1. StartedIsSet'
        BY <2>2 DEF ConstructMutex, Started, StartedIsSet, pool
      <3>2. CASE cur = Listener
        <4>1. /\ at = "construct" /\ at' = "new" /\ cur' = 1
              /\ threads' = <<>> /\ threads = <<>> /\ 1 # Listener
          BY <2>2, <3>2 DEF ConstructMutex, InTurn, Listener, pool
        <4> QED  BY <3>1, <4>1 DEF InTurn, StartUp, Worker, Listener
      <3>3. CASE cur # Listener
        <4>1. /\ at = "construct" /\ at' = "lock" /\ cur' = cur
              /\ threads' = threads
          BY <2>2, <3>3 DEF ConstructMutex, pool
        <4> QED  BY <3>1, <3>3, <4>1 DEF InTurn, StartUp, Worker, Listener
      <3> QED  BY <3>2, <3>3
    <2>3. CASE StartRunLock \/ StartRunTest \/ SpuriousWakeup
      <3>1. /\ at \in {"lock", "test", "waiting"}
            /\ at' \in {"test", "asleep", "wait", "lock"}
            /\ UNCHANGED <<cur, pc, start, loop, early, threads>>
        BY <2>3 DEF StartRunLock, StartRunTest, SpuriousWakeup, pool
      <3>2. InTurn'
        BY <3>1 DEF InTurn, StartUp
      <3>3. StartedIsSet'
        BY <3>1 DEF Started, StartedIsSet
      <3> QED  BY <3>2, <3>3
    <2>4. CASE StartRunWait
      <3>1. at = "wait" /\ at' = "waiting"
            /\ UNCHANGED <<cur, start, loop, early, threads>>
        BY <2>4 DEF StartRunWait, pool
      <3>2. InTurn'
        BY <3>1 DEF InTurn, StartUp
      <3>3. Started' = Started
        BY <3>1 DEF Started
      <3>4. \A j \in Thread : pc'[j] = pc[j] \/ (pc[j] = "asleep" /\ pc'[j] = "lock")
        BY <2>4 DEF StartRunWait, ThreadWoken, TypeOK
      <3>5. StartedIsSet'
        BY <3>1, <3>3, <3>4 DEF StartedIsSet
      <3> QED  BY <3>2, <3>5
    <2>5. CASE StartRunReturns
      <3>1. /\ at = "test" /\ start[cur] /\ AfterStartRun
            /\ UNCHANGED <<start, loop, early>>
            /\ threads' = IF cur = Listener THEN threads ELSE Append(threads, cur)
        BY <2>5 DEF StartRunReturns, MustWait
      <3>2. \A j \in Thread : pc'[j] = pc[j] \/ (pc[j] = "asleep" /\ pc'[j] = "lock")
        BY <2>5 DEF StartRunReturns, ThreadWoken, TypeOK
      <3>3. \A j \in Started' : start'[j]
        BY <3>1 DEF Started, StartedIsSet, AfterStartRun, TypeOK, Listener
      <3>4. StartedIsSet'
        BY <3>1, <3>2, <3>3 DEF StartedIsSet
      <3>5. CASE cur = Listener
        <4>1. Listener \notin Worker /\ Num \in Worker
          BY DEF Listener, Worker
        <4>2. at' = "serve" /\ threads' = threads /\ Len(threads) = Num
          BY <3>1, <3>5, <4>1 DEF InTurn, AfterStartRun, StartUp
        <4> QED  BY <3>4, <4>2 DEF InTurn, StartUp
      <3>6. CASE cur \in Worker
        <4>1. Len(threads) = cur - 1 /\ threads' = Append(threads, cur)
          <5>1. cur # Listener
            BY <3>6 DEF Worker, Listener
          <5> QED  BY <3>1, <3>6, <5>1 DEF InTurn, StartUp
        <4>2. Len(threads') = cur
          BY <3>6, <4>1 DEF TypeOK, Worker
        <4>3. \A k \in 1 .. Len(threads') : threads'[k] = k
          <5>1. threads \in Seq(Worker) /\ cur \in Nat
            BY <3>6 DEF TypeOK, Worker
          <5> QED  BY <4>1, <4>2, <5>1 DEF InTurn
        <4>4. \/ cur # Num /\ at' = "new" /\ cur' = cur + 1
              \/ cur = Num /\ at' = "lock" /\ cur' = Listener
          BY <3>1, <3>6 DEF AfterStartRun, Worker, Listener
        <4>5. InTurn'
          <5>1. CASE cur # Num /\ at' = "new" /\ cur' = cur + 1
            BY <3>6, <4>2, <4>3, <5>1 DEF InTurn, StartUp, Worker, Listener
          <5>2. CASE cur = Num /\ at' = "lock" /\ cur' = Listener
            BY <3>6, <4>2, <4>3, <5>2 DEF InTurn, StartUp, Worker, Listener
          <5> QED  BY <4>4, <5>1, <5>2
        <4> QED  BY <3>4, <4>5
      <3> QED  BY <3>4, <3>5, <3>6 DEF TypeOK, Thread
    <2> QED  BY <2>1, <2>2, <2>3, <2>4, <2>5 DEF Run
  <1> QED  BY <1>1, <1>4, <1>5, <1>6

-----------------------------------------------------------------------------
(* The main loop.                                                            *)

\* Everything that is there when StartRun has returned for every thread.
LEMMA AllStarted ==
    ASSUME Inv, at \notin StartUp
    PROVE  /\ \A k \in Worker : threads[k] = k
           /\ \A i \in Thread : start[i]
  <1> USE LoopThreadsAssumption DEF Inv
  <1>1. \A k \in Worker : threads[k] = k
    BY DEF InTurn, Worker
  <1>2. \A k \in Worker : k \in Started
    BY <1>1 DEF InTurn, Started, Worker
  <1>3. Listener \in Started
    BY DEF Started, TypeOK, MainPc
  <1> QED  BY <1>1, <1>2, <1>3 DEF StartedIsSet, Thread

LEMMA PickRandThreadStep ==
    ASSUME Inv, PickRandThread
    PROVE  Inv'
  <1> USE LoopThreadsAssumption DEF Inv
  <1>1. at = "serve" /\ at' = "add" /\ at \notin StartUp
    BY DEF PickRandThread, StartUp
  <1>2. nextId + 1 \in Worker /\ cur' = nextId + 1
    BY <1>1, AllStarted DEF PickRandThread, TypeOK, Worker
  <1>3. nextId' = IF nextId + 1 = Num THEN 0 ELSE nextId + 1
    BY RoundTrip DEF PickRandThread, TypeOK
  <1>4. TypeOK'
    <2>1. cur' \in Thread /\ nextId' \in 0 .. Num - 1
      BY <1>2, <1>3 DEF TypeOK, Thread
    <2>2. copied' \in BOOLEAN
      BY <1>2 DEF PickRandThread, TypeOK, Thread
    <2> QED  BY <1>1, <2>1, <2>2 DEF PickRandThread, TypeOK, MainPc
  <1>5. InTurn'
    BY <1>1, <1>2 DEF PickRandThread, InTurn, StartUp
  <1>6. StartedIsSet'
    BY <1>1 DEF PickRandThread, StartedIsSet, Started
  <1>7. Sound'
    <2>1. copied' = loop[cur'] /\ cur' \in Thread
      BY <1>2 DEF PickRandThread, Thread
    <2>2. start[cur']
      BY <1>1, <2>1, AllStarted
    <2>3. ~early[cur'] => copied'
      BY <2>1, <2>2 DEF StartedIsSet
    <2> QED  BY <1>1, <2>1, <2>3 DEF PickRandThread, Sound, StartUp
  <1>8. Even'
    <2>1. \A i \in Worker : Load(i) = given[i] /\ given[i] \in Nat
      BY <1>1 DEF Load, TypeOK
    <2>2. \A i \in Worker : Load(i)' = given[i] + IF i = nextId + 1 THEN 1 ELSE 0
      BY <1>1, <1>2 DEF PickRandThread, Load
    <2>3. \A i \in Worker :
             Turn(i)' = IF nextId + 1 = Num THEN 0
                        ELSE IF i <= nextId + 1 THEN 1 ELSE 0
      BY <1>2, <1>3 DEF Turn, Worker, TypeOK
    <2>4. \A i, j \in Worker : given[i] + Turn(j) = given[j] + Turn(i)
      BY <1>1, <2>1 DEF Even
    <2>5. \A i \in Worker : i \in 1 .. Num /\ Turn(i) = IF i <= nextId THEN 1 ELSE 0
      BY DEF Worker, Turn
    <2>6. nextId \in Nat /\ Num \in Nat
      BY DEF TypeOK
    <2>7. ASSUME NEW i \in Worker, NEW j \in Worker
          PROVE  Load(i)' + Turn(j)' = Load(j)' + Turn(i)'
      <3>1. CASE nextId + 1 = Num
        <4>1. \A k \in Worker : /\ Turn(k)' = 0
                                /\ Load(k)' = given[k] + 1 - Turn(k)
          BY <2>1, <2>2, <2>3, <2>5, <2>6, <3>1
        <4>2. given[i] + Turn(j) = given[j] + Turn(i)
          BY <2>4
        <4>3. Turn(i) \in {0, 1} /\ Turn(j) \in {0, 1}
          BY <2>5
        <4> QED  BY <2>1, <4>1, <4>2, <4>3
      <3>2. CASE nextId + 1 # Num
        <4>1. \A k \in Worker :
                 Load(k)' = given[k] + Turn(k)' - Turn(k)
          BY <2>1, <2>2, <2>3, <2>5, <2>6, <3>2
        <4>2. given[i] + Turn(j) = given[j] + Turn(i)
          BY <2>4
        <4>3. /\ Turn(i) \in {0, 1} /\ Turn(j) \in {0, 1}
              /\ Turn(i)' \in {0, 1} /\ Turn(j)' \in {0, 1}
          BY <2>3, <2>5, <3>2
        <4> QED  BY <2>1, <4>1, <4>2, <4>3
      <3> QED  BY <3>1, <3>2
    <2>8. given' = given
      BY DEF PickRandThread
    <2> QED  BY <2>7, <2>8 DEF Even
  <1> QED  BY <1>4, <1>5, <1>6, <1>7, <1>8

LEMMA AddConnectStep ==
    ASSUME Inv, AddConnect
    PROVE  Inv'
  <1> USE LoopThreadsAssumption DEF Inv
  <1>1. /\ at = "add" /\ cur \in Worker /\ at' \in {"serve", "crashed"}
        /\ UNCHANGED <<cur, pc, start, loop, word, threads, nextId, listens,
                       early, raced>>
        /\ copied' = FALSE
    BY DEF AddConnect, InTurn, pool
  <1>2. /\ loop[cur] => /\ at' = "serve" /\ orphan' = (orphan \/ ~copied)
                        /\ given' = [given EXCEPT ![cur] = @ + 1]
        /\ ~loop[cur] => at' = "crashed" /\ UNCHANGED <<given, orphan>>
    BY DEF AddConnect
  <1>3. TypeOK'
    <2>1. given' \in [Worker -> Nat] /\ orphan' \in BOOLEAN
      BY <1>1, <1>2 DEF TypeOK
    <2> QED  BY <1>1, <2>1 DEF TypeOK, MainPc
  <1>4. InTurn'
    BY <1>1 DEF InTurn, StartUp
  <1>5. StartedIsSet'
    BY <1>1 DEF StartedIsSet, Started
  <1>6. Sound'
    <2>1. start[cur] /\ cur \in Thread
      BY <1>1, AllStarted DEF StartUp, Thread
    <2>2. ~early[cur] => loop[cur]
      BY <2>1 DEF StartedIsSet
    <2> QED  BY <1>1, <1>2, <2>1, <2>2 DEF Sound, StartUp
  <1>7. Even'
    <2>1. CASE ~loop[cur]
      BY <1>2, <2>1 DEF Even
    <2>2. CASE loop[cur]
      <3>1. \A i \in Worker : Load(i)' = Load(i) /\ given'[i] = Load(i)
        BY <1>1, <1>2, <2>2 DEF Load, TypeOK
      <3>2. \A i \in Worker : Turn(i)' = Turn(i) /\ Turn(i) \in {0, 1}
        BY <1>1 DEF Turn
      <3>3. \A i, j \in Worker : Load(i) + Turn(j) = Load(j) + Turn(i)
        BY <1>1 DEF Even
      <3>4. \A i \in Worker : Load(i) \in Nat
        BY DEF Load, TypeOK
      <3>5. \A i, j \in Worker : Load(i) <= Load(j) + 1
        BY <3>2, <3>3, <3>4
      <3> QED  BY <3>1, <3>2, <3>3, <3>5 DEF Even
    <2> QED  BY <2>1, <2>2
  <1> QED  BY <1>3, <1>4, <1>5, <1>6, <1>7

LEMMA AddChannelStep ==
    ASSUME Inv, AddChannel
    PROVE  Inv'
  <1> USE LoopThreadsAssumption DEF Inv
  <1>1. /\ at = "serve" /\ at' \in {"serve", "crashed"}
        /\ UNCHANGED <<cur, pc, start, loop, word, threads, nextId, copied,
                       given, orphan, early, raced>>
        /\ listens' \in BOOLEAN
        /\ at' = "crashed" => ~loop[Listener]
    BY DEF AddChannel, pool, TypeOK
  <1>2. TypeOK'
    BY <1>1 DEF TypeOK, MainPc
  <1>3. InTurn' /\ StartedIsSet'
    BY <1>1 DEF InTurn, StartUp, StartedIsSet, Started
  <1>4. Sound'
    <2>1. start[Listener] /\ Listener \in Thread
      BY <1>1, AllStarted DEF StartUp, Thread
    <2>2. ~early[Listener] => loop[Listener]
      BY <2>1 DEF StartedIsSet
    <2> QED  BY <1>1, <2>1, <2>2 DEF Sound, StartUp
  <1>5. Even'
    BY <1>1 DEF Even, Load, Turn
  <1> QED  BY <1>2, <1>3, <1>4, <1>5

-----------------------------------------------------------------------------
THEOREM Invariant == Spec => []Inv
  <1>1. Inv /\ [Next]_vars => Inv'
    <2> SUFFICES ASSUME Inv, [Next]_vars PROVE Inv'
      OBVIOUS
    <2>1. CASE Run \/ SpuriousWakeup
      BY <2>1, RunStep
    <2>2. CASE Serve
      BY <2>2, PickRandThreadStep, AddConnectStep, AddChannelStep DEF Serve
    <2>3. ASSUME NEW i \in Thread, WaitRun(i) PROVE Inv'
      BY <2>3, WaitRunStep
    <2>4. CASE UNCHANGED vars
      BY <2>4 DEF vars, pool, serving, Inv, TypeOK, InTurn, StartedIsSet, Started,
         Sound, Even, Load, Turn
    <2> QED  BY <2>1, <2>2, <2>3, <2>4 DEF Next
  <1> QED  BY InitInv, <1>1, PTL DEF Spec

\* Every variable keeps its type, for any number of threads.
THEOREM TypeCorrect == Spec => []TypeOK
  <1>1. Inv => TypeOK
    BY DEF Inv
  <1> QED  BY Invariant, <1>1, PTL

\* PickRandThread spreads the connections evenly over any number of threads,
\* also when some have not started yet.
THEOREM LoadStaysEven == Spec => []LoadIsEven
  <1>1. Inv => LoadIsEven
    BY DEF Inv, Even, LoadIsEven
  <1> QED  BY Invariant, <1>1, PTL

\* Connections find the loop_ of their thread, although WaitRun makes it outside
\* mutex_ and mutex_ may be constructed while it is held: only a start_ that was
\* true to begin with can lead to an empty loop_.
THEOREM LoopsAreThere == Spec => []LoopThere
  <1>1. Inv => LoopThere
    <2> SUFFICES ASSUME Inv, \A i \in Thread : ~early[i]
                 PROVE  at # "crashed" /\ ~orphan /\ \A i \in Started : loop[i]
      BY DEF LoopThere
    <2>1. Started \subseteq Thread
      BY DEF Inv, Started, TypeOK, Thread, Listener
    <2> QED  BY <2>1 DEF Inv, Sound, StartedIsSet
  <1> QED  BY Invariant, <1>1, PTL
=============================================================================
