---------------------------- MODULE ThreadsProofs ---------------------------
(***************************************************************************)
(* Theorems about the parts in which threads hand work to each other, for  *)
(* any number of producers, workers, tasks, I/O loops, descriptors and     *)
(* connections: for each the inductive invariant, one lemma per group of   *)
(* its actions, and the theorem.                                           *)
(***************************************************************************)
EXTENDS EventLoopThread, ThreadPool, TcpServer, SequenceTheorems, FiniteSetTheorems, TLAPS

(* The prover of each step that names none. *)
USE ZenonT(60)

-----------------------------------------------------------------------------
(* EventLoopThread. *)

(* The types that are not numbers. *)
LoopTypes ==
  /\ owner \in {"new", "latch", "wait", "blocked", "return", "running",
                "quit", "wakeup", "join", "destroyed"}
  /\ child \in {"none", "created", "counting", "func", "publish", "enter",
                "check", "poll", "exited", "cleared", "done"}
  /\ {tid, loop, returned, alive, quit, quitQueued, stopping, notified}
       \subseteq BOOLEAN

Handover == LoopTypes /\ NoUseAfterDestruct /\ HandoverInv
LatchCounts == latch = IF child \in {"none", "created", "counting"} THEN 1 ELSE 0

LEMMA HandoverStep ==
  ASSUME Handover, LatchCounts, [ThreadNext]_threadVars
  PROVE  Handover'
  <1> USE DEF Handover, LatchCounts, LoopTypes, NoUseAfterDestruct, HandoverInv, handshake, loopVars
  <1>1. CASE thread_start
    BY <1>1 DEF thread_start
  <1>2. CASE thread_latchWait
    <2>1. child \notin {"none", "created", "counting"}
      BY SMTT(60), <1>2 DEF thread_latchWait, StartWaits
    <2>2. QED
      BY <1>2, <2>1 DEF thread_latchWait
  <1>3. CASE startLoopWaits
    BY <1>3 DEF startLoopWaits, LoopSeen
  <1>4. CASE startLoopWakes
    BY <1>4 DEF startLoopWakes
  <1>5. CASE startLoopReturns
    BY <1>5 DEF startLoopReturns
  <1>6. CASE runInLoopQuit
    BY <1>6 DEF runInLoopQuit
  <1>7. CASE destruct
    BY <1>7 DEF destruct
  <1>8. CASE destructQuits
    BY <1>8 DEF destructQuits, QuitSet
  <1>9. CASE destructWakes
    BY <1>9 DEF destructWakes
  <1>10. CASE destructJoins
    BY <1>10 DEF destructJoins, Joined
  <1>11. CASE thread_runInThread
    <2>1. /\ UNCHANGED <<owner, loop, returned, notified, alive, quit, quitQueued, stopping>>
          /\ tid' = tid \/ tid' = TRUE
          /\ \/ child = "created" /\ child' = "counting"
             \/ child = "counting" /\ child' = "func"
      BY <1>11 DEF thread_runInThread
    <2>2. LoopTypes'
      BY <2>1
    <2>3. NoUseAfterDestruct' /\ HandoverInv'
      BY <2>1
    <2>4. QED
      BY <2>2, <2>3
  <1>12. CASE threadFunc
    BY <1>12, LoopAssumption DEF threadFunc
  <1>13. CASE publishLoop
    BY <1>13 DEF publishLoop, Notifies
  <1>14. CASE enterLoop
    BY <1>14 DEF enterLoop
  <1>15. CASE whileNotQuit
    BY <1>15 DEF whileNotQuit
  <1>16. CASE iterate
    BY <1>16 DEF iterate
  <1>17. CASE clearLoop
    BY <1>17 DEF clearLoop
  <1>18. CASE threadFuncReturns
    BY <1>18 DEF threadFuncReturns
  <1>19. CASE UNCHANGED threadVars
    BY <1>19 DEF threadVars
  <1>20. QED
    BY <1>1, <1>2, <1>3, <1>4, <1>5, <1>6, <1>7, <1>8, <1>9, <1>10, <1>11, <1>12, <1>13, <1>14, <1>15, <1>16, <1>17, <1>18, <1>19 DEF ThreadNext, Starting, Destructing, Child

LEMMA LatchOfThreadStep ==
  ASSUME Handover, LatchCounts, [ThreadNext]_threadVars
  PROVE  LatchCounts'
  <1> USE DEF LatchCounts, handshake
  <1>1. CASE thread_runInThread
    BY SMTT(60), <1>1 DEF thread_runInThread, Counted
  <1>2. CASE thread_start \/ destruct \/ Starting \/ Destructing \/ runInLoopQuit
    <2>1. latch' = latch /\ (child' = child \/ (child = "none" /\ child' = "created"))
      BY <1>2 DEF thread_start, destruct, Starting, thread_latchWait, startLoopWaits, startLoopWakes, startLoopReturns,
         Destructing, destructQuits, destructWakes, destructJoins, runInLoopQuit, Handover, HandoverInv
    <2>2. QED
      BY <2>1
  <1>3. CASE threadFunc \/ publishLoop \/ enterLoop \/ whileNotQuit \/ iterate \/ clearLoop \/ threadFuncReturns
    <2>1. latch' = latch /\ {child, child'} \cap {"none", "created", "counting"} = {}
      BY <1>3 DEF threadFunc, publishLoop, enterLoop, whileNotQuit, iterate, clearLoop, threadFuncReturns
    <2>2. QED
      BY <2>1
  <1>4. CASE UNCHANGED threadVars
    BY <1>4 DEF threadVars
  <1>5. QED
    BY <1>1, <1>2, <1>3, <1>4 DEF ThreadNext, Child

LEMMA WakeupStep ==
  ASSUME Handover, WakeupInv, wakeups \in Nat, [ThreadNext]_threadVars
  PROVE  WakeupInv' /\ wakeups' \in Nat
  <1>1. CASE runInLoopQuit
    BY SMTT(60), <1>1 DEF runInLoopQuit, WakeupInv
  <1>2. CASE destructWakes
    BY SMTT(60), <1>2 DEF destructWakes, WakeupInv, loopVars
  <1>3. CASE iterate
    BY SMTT(60), <1>3 DEF iterate, WakeupInv
  <1>4. CASE threadFunc
    <2>1. ~stopping
      BY <1>4 DEF threadFunc, Handover, HandoverInv
    <2>2. QED
      BY SMTT(60), <1>4, <2>1 DEF threadFunc, WakeupInv
  <1>5. CASE ~(runInLoopQuit \/ destructWakes \/ iterate \/ threadFunc)
    <2>1. /\ UNCHANGED <<wakeups, stopping>>
          /\ owner \in {"join", "destroyed"} => owner' \in {"join", "destroyed"}
      BY <1>5 DEF ThreadNext, thread_start, destruct, Starting, thread_latchWait, startLoopWaits, startLoopWakes, startLoopReturns,
         Destructing, destructQuits, destructJoins, Child, thread_runInThread, publishLoop, enterLoop, whileNotQuit,
         clearLoop, threadFuncReturns, threadVars, loopVars
    <2>2. QED
      BY SMTT(60), <2>1 DEF WakeupInv
  <1>6. QED
    BY <1>1, <1>2, <1>3, <1>4, <1>5

LEMMA HandoverInitially == ThreadInit => Handover /\ LatchCounts /\ WakeupInv /\ wakeups \in Nat
  <1> SUFFICES ASSUME ThreadInit PROVE Handover /\ LatchCounts /\ WakeupInv /\ wakeups \in Nat
    OBVIOUS
  <1>1. Handover /\ LatchCounts
    BY DEF ThreadInit, Handover, LoopTypes, NoUseAfterDestruct, HandoverInv, LatchCounts
  <1>2. WakeupInv /\ wakeups \in Nat
    BY SMTT(60) DEF ThreadInit, WakeupInv
  <1>3. QED
    BY <1>1, <1>2

LEMMA HandedOver ==
  ASSUME Handover, LatchCounts, WakeupInv, wakeups \in Nat
  PROVE  TypeOK /\ ReturnedLoopIsAlive /\ NoUseAfterDestruct
  <1>1. wakeups \in 0 .. 2
    BY SMTT(60) DEF WakeupInv
  <1>2. QED
    BY <1>1 DEF TypeOK, Handover, LoopTypes, LatchCounts, HandoverInv, ReturnedLoopIsAlive

(* An EventLoopThread: the loop that startLoop() returns is alive until it *)
(* is told to stop, and the child does not touch what was destructed       *)
(* (EventLoopThread.cc:33), however the two threads are scheduled.         *)
THEOREM LoopHandedOver == ThreadSpec => []LoopIsHandedOver
  <1> DEFINE I == Handover /\ LatchCounts /\ WakeupInv /\ wakeups \in Nat
  <1>1. ThreadInit => I
    BY HandoverInitially
  <1>2. I /\ [ThreadNext]_threadVars => I'
    BY HandoverStep, LatchOfThreadStep, WakeupStep
  <1>3. I => LoopIsHandedOver
    BY HandedOver DEF LoopIsHandedOver, Handover
  <1>4. QED
    BY <1>1, <1>2, <1>3, PTL DEF ThreadSpec

-----------------------------------------------------------------------------
(* ThreadPool, BlockingQueue, BoundedBlockingQueue, CountDownLatch. *)

LEMMA SeqTypes ==
  ASSUME PoolInv
  PROVE  /\ queue \in Seq(Nat) /\ put \in Seq(Nat) /\ taken \in Seq(Nat)
         /\ Len(queue) \in Nat /\ Len(put) \in Nat /\ Len(taken) \in Nat
  <1>1. queue \in Seq(Nat) /\ put \in Seq(Nat) /\ taken \in Seq(Nat)
    BY DEF PoolInv
  <1>2. QED
    BY <1>1, LenProperties

(* run() or put() has returned at most TasksEach times in each producer:   *)
(* no more tasks are put than the latch counts.                            *)
LEMMA TasksBound ==
  ASSUME PoolInv
  PROVE  IsFiniteSet(Returned) /\ Tasks \in Nat /\ Len(put) <= Tasks
  <1> DEFINE all == Producers \X (1 .. TasksEach)
  <1>1. IsFiniteSet(1 .. TasksEach) /\ Cardinality(1 .. TasksEach) = TasksEach
    BY SMTT(60), FS_Interval, PoolAssumption
  <1>2. IsFiniteSet(all) /\ Cardinality(all) = Tasks
    BY <1>1, FS_Product, PoolAssumption DEF Tasks
  <1>3. Returned \in SUBSET all
    BY DEF Returned
  <1> HIDE DEF all
  <1>4. Tasks \in Nat
    BY <1>2, FS_CardinalityType
  <1>5. IsFiniteSet(Returned) /\ Cardinality(Returned) <= Tasks
    BY <1>2, <1>3, FS_Subset
  <1>6. QED
    BY <1>4, <1>5 DEF PoolInv

LEMMA DoneIsFinite ==
  ASSUME PoolInv
  PROVE  IsFiniteSet(done) /\ Cardinality(done) \in Nat
  <1>1. IsFiniteSet(1 .. Len(taken))
    BY SMTT(60), SeqTypes, FS_Interval
  <1>2. done \in SUBSET (1 .. Len(taken))
    BY DEF PoolInv
  <1>3. IsFiniteSet(done)
    BY <1>1, <1>2, FS_Subset
  <1>4. QED
    BY <1>3, FS_CardinalityType

LEMMA HeadAndTail ==
  ASSUME NEW s \in Seq(Nat), s # <<>>
  PROVE  s = <<Head(s)>> \o Tail(s)
  BY SMTT(60), HeadTailProperties, ConcatProperties

(* Of what was put, the first in the queue is the next number.             *)
LEMMA TakenFirst ==
  ASSUME PoolInv, InOrder
  PROVE  /\ Len(put) = Len(taken) + Len(queue)
         /\ queue # <<>> => /\ Head(queue) = Len(taken) + 1
                            /\ Append(taken, Head(queue)) \o Tail(queue) = put
  <1>1. Len(put) = Len(taken) + Len(queue)
    BY SMTT(60), SeqTypes, ConcatProperties DEF InOrder
  <1>2. ASSUME queue # <<>>
        PROVE  Head(queue) = Len(taken) + 1
    <2>1. Head(queue) = queue[1] /\ Len(queue) > 0
      BY SMTT(60), <1>2, SeqTypes
    <2>2. put[Len(taken) + 1] = queue[1]
      BY SMTT(60), <2>1, SeqTypes, ConcatProperties DEF InOrder
    <2>3. Len(taken) + 1 \in 1 .. Len(put)
      BY SMTT(60), <1>1, <2>1, SeqTypes
    <2>4. QED
      BY <2>1, <2>2, <2>3 DEF PoolInv
  <1>3. ASSUME queue # <<>>
        PROVE  Append(taken, Head(queue)) \o Tail(queue) = put
    <2> DEFINE h == Head(queue)
               t == Tail(queue)
    <2>1. h \in Nat /\ t \in Seq(Nat) /\ queue = <<h>> \o t
      BY <1>3, SeqTypes, HeadTailProperties, HeadAndTail
    <2> HIDE DEF h, t
    <2>2. Append(taken, h) = taken \o <<h>>
      BY <2>1, SeqTypes, AppendIsConcat
    <2>3. <<h>> \in Seq(Nat)
      BY SMTT(60), <2>1
    <2>4. (taken \o <<h>>) \o t = taken \o (<<h>> \o t)
      BY SMTT(60), <2>1, <2>3, SeqTypes, ConcatAssociative
    <2>5. Append(taken, h) \o t = taken \o queue
      BY <2>1, <2>2, <2>4
    <2>6. QED
      BY <2>5 DEF InOrder, h, t
  <1>4. QED
    BY <1>1, <1>2, <1>3

(* When as many tasks have run as there are, every one has. *)
LEMMA AllDone ==
  ASSUME PoolInv, InOrder, ~(count > 0)
  PROVE  done = 1 .. Tasks
  <1>1. Len(taken) <= Tasks
    BY SMTT(60), TakenFirst, TasksBound, SeqTypes
  <1>2. done \in SUBSET (1 .. Tasks)
    BY SMTT(60), <1>1, SeqTypes, TasksBound DEF PoolInv
  <1>3. IsFiniteSet(1 .. Tasks) /\ Cardinality(1 .. Tasks) = Tasks
    BY SMTT(60), FS_Interval, TasksBound
  <1>4. Cardinality(done) <= Tasks
    BY <1>2, <1>3, FS_Subset
  <1>5. Cardinality(done) = Tasks
    BY SMTT(60), <1>4, DoneIsFinite, TasksBound DEF PoolInv
  <1>6. QED
    BY <1>2, <1>3, <1>5, FS_Subset

LEMMA PoolInitially == PoolInit => PoolInv /\ InOrder
  <1> SUFFICES ASSUME PoolInit PROVE PoolInv /\ InOrder
    OBVIOUS
  <1> USE DEF PoolInit
  <1>1. Returned = {}
    BY SMTT(60), PoolAssumption DEF Returned
  <1>2. Cardinality(Returned) = 0 /\ Cardinality(done) = 0
    BY <1>1, FS_EmptySet
  <1>3. Tasks \in Nat
    <2>1. Cardinality(Producers) \in Nat
      BY PoolAssumption, FS_CardinalityType
    <2>2. QED
      BY SMTT(60), <2>1, PoolAssumption DEF Tasks
  <1>4. pc \in [Threads -> {"go", "woken", "loop", "take", "run", "exit", "latch", "stop", "join", "joined"}]
    OBVIOUS
  <1>5. pc[Owner] = "go" /\ \A w \in Workers : pc[w] = "loop"
    BY PoolAssumption DEF Threads
  <1>6. {queue, put, taken} \subseteq Seq(Nat) /\ Len(put) = 0 /\ Len(taken) = 0 /\ Len(queue) = 0
    BY SMTT(60)
  <1>7. task \in [Workers -> Nat] /\ left \in [Producers -> 0 .. TasksEach]
    BY SMTT(60), PoolAssumption
  <1>8. taken \o queue = put
    BY SMTT(60)
  <1>9. count = Tasks - Cardinality(done)
    BY SMTT(60), <1>2, <1>3
  <1>10. \A i \in 1 .. Len(put) : put[i] = i
    BY SMTT(60), <1>6
  <1>11. Len(queue) <= maxQueueSize
    BY SMTT(60), <1>6, PoolAssumption
  <1>12. PoolInv
    BY <1>2, <1>4, <1>5, <1>6, <1>7, <1>9, <1>10 DEF PoolInv
  <1>13. QED
    BY <1>5, <1>8, <1>11, <1>12 DEF InOrder

(* Putting a task, in a producer that found the queue not full.            *)
LEMMA PutStep ==
  ASSUME PoolInv, InOrder, NEW p \in Producers, Put(p)
  PROVE  PoolInv' /\ InOrder'
  <1> DEFINE x == Len(put) + 1
             n == TasksEach - left[p] + 1
  <1>1. /\ pc[p] \in {"go", "woken"} /\ left[p] > 0 /\ ~isFull
        /\ queue' = Append(queue, x) /\ put' = Append(put, x)
        /\ left' = [left EXCEPT ![p] = @ - 1] /\ pc' = [pc EXCEPT ![p] = "go"]
        /\ UNCHANGED <<kind, count, task, taken, done>>
    BY DEF Put, LooksAgain
  <1>2. x \in Nat
    BY SMTT(60), SeqTypes
  <1>3. left \in [Producers -> 0 .. TasksEach] /\ left[p] \in 1 .. TasksEach
    BY SMTT(60), <1>1, PoolAssumption DEF PoolInv
  <1>4. left' \in [Producers -> 0 .. TasksEach]
    BY SMTT(60), <1>1, <1>3, PoolAssumption
  <1>5. <<p, n>> \notin Returned /\ Returned' = Returned \cup {<<p, n>>}
    BY SMTT(60), <1>1, <1>3, PoolAssumption DEF Returned
  <1>6. {queue', put', taken'} \subseteq Seq(Nat) /\ Len(put') = x /\ Len(queue') = Len(queue) + 1
    BY SMTT(60), <1>1, <1>2, SeqTypes
  <1>7. Cardinality(Returned') = Len(put')
    <2>1. Cardinality(Returned') = Cardinality(Returned) + 1
      BY <1>5, TasksBound, FS_AddElement
    <2>2. QED
      BY <1>6, <2>1 DEF PoolInv
  <1>8. \A i \in 1 .. Len(put') : put'[i] = i
    <2>1. \A i \in 1 .. Len(put) : put[i] = i
      BY DEF PoolInv
    <2>2. QED
      BY SMTT(60), <1>1, <1>2, <1>6, <2>1, SeqTypes, AppendProperties
  <1>9. \A t \in Workers \cup {Owner} : pc'[t] = pc[t]
    BY <1>1, PoolAssumption DEF PoolInv, Threads
  <1>10. pc' \in [Threads -> {"go", "woken", "loop", "take", "run", "exit", "latch", "stop", "join", "joined"}]
    BY <1>1 DEF PoolInv
  <1>11. PoolInv'
    <2>1. task' \in [Workers -> Nat] /\ done' \subseteq 1 .. Len(taken')
      BY <1>1 DEF PoolInv
    <2>2. \A w \in Workers : pc'[w] = pc[w]
      BY <1>9
    <2>3. \A w \in Workers : pc'[w] = "run" => task'[w] \in (1 .. Len(taken')) \ done'
      BY <1>1, <2>2 DEF PoolInv
    <2>4. \A v, w \in Workers : pc'[v] = "run" /\ pc'[w] = "run" /\ task'[v] = task'[w] => v = w
      <3>1. \A v, w \in Workers : pc[v] = "run" /\ pc[w] = "run" /\ task[v] = task[w] => v = w
        BY DEF PoolInv
      <3>2. task' = task
        BY <1>1
      <3>3. QED
        BY ONLY ZenonT(60), <2>2, <3>1, <3>2
    <2>5. count' = Tasks - Cardinality(done')
      BY <1>1 DEF PoolInv
    <2>6. Tasks' = Tasks /\ Threads' = Threads
      BY DEF Tasks, Threads
    <2>7. QED
      BY ONLY SMTT(60), <1>4, <1>6, <1>7, <1>8, <1>10, <2>1, <2>3, <2>4, <2>5, <2>6 DEF PoolInv
  <1>12. taken' \o queue' = put'
    <2>1. taken \o Append(queue, x) = Append(taken \o queue, x)
      BY SMTT(60), <1>2, SeqTypes
    <2>2. QED
      BY <1>1, <2>1 DEF InOrder
  <1>13. TellsNotFull' => Len(queue') <= maxQueueSize
    <2>1. TellsNotFull => Len(queue) <= maxQueueSize
      BY DEF InOrder
    <2>2. QED
      BY SMTT(60), <1>1, <1>6, <2>1, SeqTypes, PoolAssumption DEF TellsNotFull, isFull, pool_isFull, bounded_full
  <1>14. QED
    BY <1>1, <1>9, <1>11, <1>12, <1>13 DEF InOrder, Tasks

(* Taking the first task.                                                  *)
LEMMA TakeStep ==
  ASSUME PoolInv, InOrder, NEW w \in Workers, Take(w)
  PROVE  PoolInv' /\ InOrder'
  <1> DEFINE Pcs == {"go", "woken", "loop", "take", "run", "exit", "latch", "stop", "join", "joined"}
  <1>1. UNCHANGED <<kind, count, put, done, left>>
    BY DEF Take
  <1>2. pc \in [Threads -> Pcs] /\ w \in Threads /\ Owner \in Threads /\ w # Owner
    BY PoolAssumption DEF PoolInv, Threads
  <1>3. Returned' = Returned
    BY <1>1 DEF Returned
  <1>4. CASE queue = <<>>
    <2>1. pc' = [pc EXCEPT ![w] = "loop"] /\ UNCHANGED <<queue, task, taken>>
      BY <1>4 DEF Take
    <2>2. pc' \in [Threads -> Pcs] /\ pc'[Owner] = pc[Owner]
      BY <1>2, <2>1
    <2>3. \A v \in Workers : pc'[v] = "run" => pc[v] = "run"
      BY <1>2, <2>1 DEF Threads
    <2>4. PoolInv'
      BY <1>1, <1>3, <2>1, <2>2, <2>3 DEF PoolInv, Tasks
    <2>5. QED
      BY <1>1, <2>1, <2>2, <2>4 DEF InOrder, TellsNotFull, Tasks
  <1>5. CASE queue # <<>>
    <2> DEFINE h == Head(queue)
    <2>1. /\ task' = [task EXCEPT ![w] = h] /\ queue' = Tail(queue)
          /\ taken' = Append(taken, h) /\ pc' = [pc EXCEPT ![w] = "run"] /\ pc[w] = "take"
      BY <1>5 DEF Take
    <2>2. h = Len(taken) + 1 /\ taken' \o queue' = put'
      BY <1>1, <1>5, <2>1, TakenFirst
    <2>3. h \in Nat
      BY SMTT(60), <2>2, SeqTypes
    <2>4. {queue', put', taken'} \subseteq Seq(Nat) /\ Len(taken') = h /\ Len(queue') = Len(queue) - 1
      BY SMTT(60), <1>1, <1>5, <2>1, <2>2, <2>3, SeqTypes
    <2> HIDE DEF h
    <2>5. pc' \in [Threads -> Pcs] /\ pc'[Owner] = pc[Owner] /\ pc'[w] = "run"
      BY <1>2, <2>1
    <2>6. \A v \in Workers : v # w => pc'[v] = pc[v] /\ task'[v] = task[v]
      BY <1>2, <2>1 DEF Threads, PoolInv
    <2>7. task' \in [Workers -> Nat] /\ task'[w] = h
      BY <2>1, <2>3 DEF PoolInv
    <2>8. 1 .. Len(taken') = (1 .. Len(taken)) \cup {h} /\ h \notin 1 .. Len(taken)
      <3> DEFINE n == Len(taken)
      <3>1. n \in Nat /\ h = n + 1
        BY <2>2, SeqTypes
      <3> HIDE DEF n
      <3>2. 1 .. h = (1 .. n) \cup {h} /\ h \notin 1 .. n
        BY SMTT(60), <3>1
      <3>3. QED
        BY <2>4, <3>2 DEF n
    <2>9. done' \subseteq 1 .. Len(taken')
      BY <1>1, <2>8 DEF PoolInv
    <2>10. \A v \in Workers : pc'[v] = "run" => task'[v] \in (1 .. Len(taken')) \ done'
      BY <1>1, <2>6, <2>7, <2>8 DEF PoolInv
    <2>11. \A v \in Workers : v # w /\ pc'[v] = "run" => task'[v] # h
      BY <2>6, <2>8 DEF PoolInv
    <2>12. \A u, v \in Workers : pc'[u] = "run" /\ pc'[v] = "run" /\ task'[u] = task'[v] => u = v
      BY <2>6, <2>7, <2>11 DEF PoolInv
    <2>13. PoolInv'
      BY <1>1, <1>3, <2>4, <2>5, <2>7, <2>9, <2>10, <2>12 DEF PoolInv, Tasks
    <2>14. TellsNotFull' => Len(queue') <= maxQueueSize
      BY SMTT(60), <1>1, <2>4, SeqTypes, PoolAssumption DEF InOrder, TellsNotFull
    <2>15. QED
      BY <1>1, <2>2, <2>5, <2>13, <2>14 DEF InOrder, Tasks
  <1>6. QED
    BY <1>4, <1>5

(* Running a task counts the latch down for it, once.                      *)
LEMMA RunStep ==
  ASSUME PoolInv, InOrder, NEW w \in Workers, runTask(w)
  PROVE  PoolInv' /\ InOrder'
  <1> DEFINE Pcs == {"go", "woken", "loop", "take", "run", "exit", "latch", "stop", "join", "joined"}
             t == task[w]
  <1>1. /\ pc[w] = "run" /\ pc' = [pc EXCEPT ![w] = "loop"]
        /\ done' = done \cup {t} /\ task' = [task EXCEPT ![w] = 0] /\ count' = count - 1
        /\ UNCHANGED <<kind, queue, put, taken, left>>
    BY DEF runTask, countDown
  <1>2. t \in (1 .. Len(taken)) \ done
    BY <1>1 DEF PoolInv
  <1>3. Returned' = Returned
    BY <1>1 DEF Returned
  <1>4. pc \in [Threads -> Pcs] /\ w \in Threads /\ Owner \in Threads /\ w # Owner
    BY PoolAssumption DEF PoolInv, Threads
  <1>5. pc' \in [Threads -> Pcs] /\ pc'[Owner] = pc[Owner] /\ pc'[w] = "loop"
    BY <1>1, <1>4
  <1>6. \A v \in Workers : v # w => pc'[v] = pc[v] /\ task'[v] = task[v]
    BY <1>1, <1>4 DEF Threads, PoolInv
  <1>7. task' \in [Workers -> Nat]
    BY SMTT(60), <1>1 DEF PoolInv
  <1>8. Cardinality(done') = Cardinality(done) + 1
    BY <1>1, <1>2, DoneIsFinite, FS_AddElement
  <1>9. count' = Tasks - Cardinality(done')
    <2>1. count = Tasks - Cardinality(done)
      BY DEF PoolInv
    <2>2. Tasks \in Nat /\ Cardinality(done) \in Nat
      BY DoneIsFinite, TasksBound
    <2>3. count' = count - 1
      BY <1>1
    <2>4. QED
      BY ONLY SMTT(60), <2>1, <2>2, <2>3, <1>8
  <1>10. \A v \in Workers : pc'[v] = "run" => v # w /\ pc[v] = "run" /\ task'[v] = task[v]
    BY <1>5, <1>6
  <1>11. \A v \in Workers : pc'[v] = "run" => task'[v] \in (1 .. Len(taken)) \ done'
    BY <1>1, <1>10 DEF PoolInv
  <1>12. \A u, v \in Workers : pc'[u] = "run" /\ pc'[v] = "run" /\ task'[u] = task'[v] => u = v
    BY <1>10 DEF PoolInv
  <1>13. PoolInv'
    BY <1>1, <1>2, <1>3, <1>5, <1>7, <1>9, <1>11, <1>12 DEF PoolInv, Tasks
  <1>14. pc[Owner] # "stop"
    <2>1. Len(taken) <= Tasks
      BY SMTT(60), TakenFirst, TasksBound, SeqTypes
    <2>2. t \in 1 .. Tasks
      BY SMTT(60), <1>2, <2>1, SeqTypes, TasksBound
    <2>3. QED
      BY <1>2, <2>2 DEF InOrder
  <1>15. QED
    BY <1>1, <1>5, <1>13, <1>14 DEF InOrder, TellsNotFull, Tasks

(* The owner passes the latch when it has counted all tasks.               *)
LEMMA LatchStep ==
  ASSUME PoolInv, InOrder, latchWait
  PROVE  PoolInv' /\ InOrder'
  <1> DEFINE Pcs == {"go", "woken", "loop", "take", "run", "exit", "latch", "stop", "join", "joined"}
  <1>1. /\ \/ pc' = [pc EXCEPT ![Owner] = "latch"]
           \/ ~(count > 0) /\ pc' = [pc EXCEPT ![Owner] = "stop"]
        /\ UNCHANGED <<kind, queue, count, task, put, taken, done, left>>
    BY DEF latchWait
  <1>2. Returned' = Returned
    BY <1>1 DEF Returned
  <1>3. pc \in [Threads -> Pcs] /\ Owner \in Threads /\ \A w \in Workers : w \in Threads /\ w # Owner
    BY PoolAssumption DEF PoolInv, Threads
  <1>4. pc' \in [Threads -> Pcs] /\ \A w \in Workers : pc'[w] = pc[w]
    BY <1>1, <1>3
  <1>5. pc'[Owner] = "stop" => ~(count > 0)
    BY <1>1, <1>3
  <1>6. pc'[Owner] = "stop" => done = 1 .. Tasks
    BY <1>5, AllDone
  <1>7. PoolInv'
    BY <1>1, <1>2, <1>4 DEF PoolInv, Tasks
  <1>8. QED
    BY <1>1, <1>6, <1>7 DEF InOrder, TellsNotFull, Tasks

(* The other steps move a thread without touching a task.                  *)
LEMMA MoveStep ==
  ASSUME PoolInv, InOrder, NEW t \in Threads, NEW to \in {"woken", "take", "loop", "exit", "join", "joined"},
         pc' = pc \/ pc' = [pc EXCEPT ![t] = to],
         UNCHANGED <<kind, queue, count, task, put, taken, done, left>>
  PROVE  PoolInv' /\ InOrder'
  <1> DEFINE Pcs == {"go", "woken", "loop", "take", "run", "exit", "latch", "stop", "join", "joined"}
  <1>1. pc \in [Threads -> Pcs] /\ Owner \in Threads /\ \A w \in Workers : w \in Threads
    BY PoolAssumption DEF PoolInv, Threads
  <1>2. pc' \in [Threads -> Pcs]
    BY <1>1
  <1>3. \A u \in Threads : pc'[u] \in {"run", "stop"} => pc'[u] = pc[u]
    BY <1>1
  <1>4. Returned' = Returned
    BY DEF Returned
  <1>5. \A w \in Workers : pc'[w] = "run" => pc[w] = "run"
    BY <1>1, <1>3
  <1>6. pc'[Owner] = "stop" => pc[Owner] = "stop"
    BY <1>1, <1>3
  <1>7. PoolInv'
    BY <1>2, <1>4, <1>5 DEF PoolInv, Tasks
  <1>8. QED
    BY <1>6, <1>7 DEF InOrder, TellsNotFull, Tasks

LEMMA PoolStep ==
  ASSUME PoolInv, InOrder, [PoolNext]_poolVars
  PROVE  PoolInv' /\ InOrder'
  <1> DEFINE same == UNCHANGED <<kind, queue, count, task, put, taken, done, left>>
  <1>1. ASSUME NEW p \in Producers, ProducerStep(p)
        PROVE  PoolInv' /\ InOrder'
    <2>1. CASE waitFull(p)
      <3>1. p \in Threads /\ pc' = [pc EXCEPT ![p] = "woken"] /\ same
        BY <2>1 DEF waitFull, Threads
      <3>2. QED
        BY <3>1, MoveStep
    <2>2. CASE Put(p)
      BY <2>2, PutStep
    <2>3. QED
      BY <1>1, <2>1, <2>2 DEF ProducerStep, pool_run, bounded_put, blocking_put
  <1>2. ASSUME NEW w \in Workers, WorkerStep(w)
        PROVE  PoolInv' /\ InOrder'
    <2>1. CASE waitEmpty(w)
      <3>1. w \in Threads /\ pc' = pc /\ same
        BY <2>1 DEF waitEmpty, Threads
      <3>2. QED
        BY <3>1, MoveStep
    <2>2. CASE Take(w)
      BY <2>2, TakeStep
    <2>3. CASE runInThread(w)
      <3>1. w \in Threads /\ (pc' = [pc EXCEPT ![w] = "take"] \/ pc' = [pc EXCEPT ![w] = "exit"]) /\ same
        BY <2>3 DEF runInThread, Threads
      <3>2. QED
        BY <3>1, MoveStep
    <2>4. CASE runTask(w)
      BY <2>4, RunStep
    <2>5. QED
      BY <1>2, <2>1, <2>2, <2>3, <2>4 DEF WorkerStep, pool_take, bounded_take, blocking_take
  <1>3. CASE latchWait
    BY <1>3, LatchStep
  <1>4. CASE stop \/ leave \/ join
    <2>1. Owner \in Threads /\ (pc' = [pc EXCEPT ![Owner] = "join"] \/ pc' = [pc EXCEPT ![Owner] = "joined"]) /\ same
      BY <1>4 DEF stop, leave, join, Threads
    <2>2. QED
      BY <2>1, MoveStep
  <1>5. CASE (\E t \in Threads : spuriousWakeup(t)) \/ UNCHANGED poolVars
    <2>1. Owner \in Threads /\ pc' = pc /\ same
      BY <1>5 DEF spuriousWakeup, poolVars, Threads
    <2>2. QED
      BY <2>1, MoveStep
  <1>6. QED
    BY <1>1, <1>2, <1>3, <1>4, <1>5 DEF PoolNext

(* The thread pool and the blocking queues: tasks are taken once each, in  *)
(* the order they were put, and a bounded queue keeps to its bound         *)
(* (ThreadPool.cc:82), with any number of threads and spurious wakeups.    *)
THEOREM TasksTakenInOrder == PoolSpec => []TakenInOrder
  <1>1. PoolInit => TakenInOrder
    BY PoolInitially DEF TakenInOrder
  <1>2. TakenInOrder /\ [PoolNext]_poolVars => TakenInOrder'
    BY PoolStep DEF TakenInOrder
  <1>3. QED
    BY <1>1, <1>2, PTL DEF PoolSpec

-----------------------------------------------------------------------------
(* TcpServer, Acceptor, EventLoopThreadPool. *)

(* No functor in the queues is for connection c; those of r are f or were  *)
(* in q, in the same loop.                                                 *)
NoneFor(q, c) == \A m \in Loops : \A i \in 1 .. Len(q[m]) : q[m][i].conn # c
From(q, r) == \A m \in Loops : \A i \in 1 .. Len(r[m]) : \E j \in 1 .. Len(q[m]) : r[m][i] = q[m][j]
FromOr(q, r, f) ==
  \A m \in Loops : \A i \in 1 .. Len(r[m]) : r[m][i] = f \/ \E j \in 1 .. Len(q[m]) : r[m][i] = q[m][j]

(* A functor is taken from the front of a loop's queue: the others are in  *)
(* the queues where they were, and none of them is for its connection.     *)
LEMMA TakenFunctor ==
  ASSUME NEW q \in [Loops -> Seq(Functors)], OneEach(q), NEW l \in Loops, q[l] # <<>>,
         NEW r, r = [q EXCEPT ![l] = Tail(@)]
  PROVE  /\ r \in [Loops -> Seq(Functors)] /\ OneEach(r)
         /\ Head(q[l]) \in Functors /\ 1 \in 1 .. Len(q[l]) /\ Head(q[l]) = q[l][1]
         /\ NoneFor(r, Head(q[l]).conn) /\ From(q, r)
  <1> DEFINE At(m, i) == IF m = l THEN i + 1 ELSE i
  <1>1. /\ q[l] \in Seq(Functors) /\ Head(q[l]) \in Functors /\ Tail(q[l]) \in Seq(Functors)
        /\ Len(q[l]) \in Nat /\ Len(Tail(q[l])) = Len(q[l]) - 1
        /\ \A i \in 1 .. Len(Tail(q[l])) : Tail(q[l])[i] = q[l][i + 1]
    BY HeadTailProperties, LenProperties
  <1>2. 1 \in 1 .. Len(q[l]) /\ Head(q[l]) = q[l][1]
    BY SMTT(60), <1>1
  <1>3. r \in [Loops -> Seq(Functors)] /\ r[l] = Tail(q[l]) /\ \A m \in Loops \ {l} : r[m] = q[m]
    BY <1>1
  <1>4. ASSUME NEW m \in Loops, NEW i \in 1 .. Len(r[m])
        PROVE  At(m, i) \in 1 .. Len(q[m]) /\ r[m][i] = q[m][At(m, i)] /\ (m = l => At(m, i) # 1)
    <2>1. CASE m = l
      BY SMTT(60), <1>1, <1>3, <2>1
    <2>2. CASE m # l
      BY <1>3, <2>2
    <2>3. QED
      BY <2>1, <2>2
  <1>5. ASSUME NEW m \in Loops, NEW i \in 1 .. Len(r[m]), NEW j \in 1 .. Len(r[m]), At(m, i) = At(m, j)
        PROVE  i = j
    BY SMTT(60), <1>5
  <1> HIDE DEF At
  <1>6. OneEach(r)
    <2> SUFFICES ASSUME NEW m \in Loops, NEW n \in Loops,
                        NEW i \in 1 .. Len(r[m]), NEW j \in 1 .. Len(r[n]), r[m][i].conn = r[n][j].conn
                 PROVE  m = n /\ i = j
      BY DEF OneEach
    <2>0. q[m][At(m, i)].conn = q[n][At(n, j)].conn /\ At(m, i) \in 1 .. Len(q[m]) /\ At(n, j) \in 1 .. Len(q[n])
      <3>1. r[m][i] = q[m][At(m, i)] /\ r[n][j] = q[n][At(n, j)]
        BY <1>4
      <3>2. q[m][At(m, i)].conn = q[n][At(n, j)].conn
        BY <3>1
      <3>3. QED
        BY <3>2, <1>4
    <2>1. m = n /\ At(m, i) = At(n, j)
      BY SMTT(60), <2>0 DEF OneEach
    <2>2. QED
      BY <2>1, <1>5
  <1>7. ASSUME NEW m \in Loops, NEW i \in 1 .. Len(r[m])
        PROVE  /\ r[m][i].conn # Head(q[l]).conn
               /\ \E j \in 1 .. Len(q[m]) : r[m][i] = q[m][j]
    <2>1. At(m, i) \in 1 .. Len(q[m]) /\ r[m][i] = q[m][At(m, i)] /\ (m = l => At(m, i) # 1)
      BY <1>4
    <2>2. q[m][At(m, i)].conn # q[l][1].conn
      BY SMTT(60), <1>2, <2>1 DEF OneEach
    <2>3. QED
      BY <1>2, <2>1, <2>2
  <1>8. QED
    BY <1>1, <1>2, <1>3, <1>6, <1>7 DEF NoneFor, From

(* queueInLoop() of a functor for a connection that has none. *)
LEMMA QueuedFunctor ==
  ASSUME NEW q \in [Loops -> Seq(Functors)], OneEach(q), NEW l \in Loops,
         NEW w \in {"connectEstablished", "removeConnection", "connectDestroyed"}, NEW c \in Conns,
         NoneFor(q, c), NEW r, r = Later(q, l, w, c)
  PROVE  r \in [Loops -> Seq(Functors)] /\ OneEach(r) /\ FromOr(q, r, [what |-> w, conn |-> c])
  <1> DEFINE f == [what |-> w, conn |-> c]
  <1>1. f \in Functors /\ f.conn = c
    BY SMTT(60) DEF Functors
  <1>2. r = [q EXCEPT ![l] = Append(@, f)]
    BY DEF Later
  <1> HIDE DEF f
  <1>3. /\ q[l] \in Seq(Functors) /\ Append(q[l], f) \in Seq(Functors)
        /\ Len(q[l]) \in Nat /\ Len(Append(q[l], f)) = Len(q[l]) + 1
        /\ \A i \in 1 .. Len(q[l]) : Append(q[l], f)[i] = q[l][i]
        /\ Append(q[l], f)[Len(q[l]) + 1] = f
    <2>1. q[l] \in Seq(Functors) /\ Len(q[l]) \in Nat
      BY LenProperties
    <2>2. QED
      BY SMTT(60), <1>1, <2>1, AppendProperties
  <1>4. r \in [Loops -> Seq(Functors)] /\ r[l] = Append(q[l], f) /\ \A m \in Loops \ {l} : r[m] = q[m]
    BY <1>2, <1>3
  <1>5. ASSUME NEW m \in Loops, NEW i \in 1 .. Len(r[m])
        PROVE  \/ m = l /\ i = Len(q[l]) + 1 /\ r[m][i] = f
               \/ i \in 1 .. Len(q[m]) /\ r[m][i] = q[m][i]
    <2>1. CASE m = l
      <3>1. i \in 1 .. Len(q[l]) \/ i = Len(q[l]) + 1
        BY SMTT(60), <1>3, <1>4, <2>1
      <3>2. QED
        BY <3>1, <1>3, <1>4, <2>1
    <2>2. CASE m # l
      BY <1>4, <2>2
    <2>3. QED
      BY <2>1, <2>2
  <1>6. OneEach(r)
    <2> SUFFICES ASSUME NEW m \in Loops, NEW n \in Loops,
                        NEW i \in 1 .. Len(r[m]), NEW j \in 1 .. Len(r[n]), r[m][i].conn = r[n][j].conn
                 PROVE  m = n /\ i = j
      BY DEF OneEach
    <2>1. CASE i \in 1 .. Len(q[m]) /\ r[m][i] = q[m][i]
      <3>1. j \in 1 .. Len(q[n]) /\ r[n][j] = q[n][j]
        <4>1. q[m][i].conn # c /\ r[m][i].conn = q[m][i].conn
          BY <2>1 DEF NoneFor
        <4>2. r[n][j] # f
          BY <1>1, <4>1
        <4>3. QED
          BY <1>5, <4>2
      <3>2. QED
        BY SMTT(60), <2>1, <3>1 DEF OneEach
    <2>2. CASE m = l /\ i = Len(q[l]) + 1 /\ r[m][i] = f
      <3>1. n = l /\ j = Len(q[l]) + 1
        <4>1. r[n][j].conn = c
          BY <1>1, <2>2
        <4>2. CASE j \in 1 .. Len(q[n]) /\ r[n][j] = q[n][j]
          <5>1. q[n][j].conn # c
            BY <4>2 DEF NoneFor
          <5>2. QED
            BY <4>1, <4>2, <5>1
        <4>3. QED
          BY <1>5, <4>2
      <3>2. QED
        BY <2>2, <3>1
    <2>3. QED
      BY <1>5, <2>1, <2>2
  <1>7. \A m \in Loops : \A i \in 1 .. Len(r[m]) : r[m][i] = f \/ \E j \in 1 .. Len(q[m]) : r[m][i] = q[m][j]
    BY <1>5
  <1>8. QED
    BY <1>4, <1>6, <1>7 DEF f, FromOr

LEMMA ServerInitially == ServerInit => AcceptInv /\ QueueInv /\ DealInv /\ FdsAddUp
  <1> SUFFICES ASSUME ServerInit PROVE AcceptInv /\ QueueInv /\ DealInv /\ FdsAddUp
    OBVIOUS
  <1> USE DEF ServerInit
  <1>1. numThreads \in Nat /\ Base \in Loops
    BY SMTT(60), ServerAssumption DEF Loops, Base
  <1>2. AcceptInv
    BY SMTT(60), ServerAssumption DEF AcceptInv
  <1>3. QueueInv
    <2>1. /\ state \in [Conns -> {"none", "connecting", "connected", "disconnected", "destroyed"}]
          /\ loopOf \in [Conns -> Loops]
      BY <1>1
    <2>2. \A c \in Conns : state[c] = "none" <=> c > conns
      BY SMTT(60), ServerAssumption DEF Conns
    <2>3. pending \in [Loops -> Seq(Functors)] /\ \A l \in Loops : 1 .. Len(pending[l]) = {}
      BY SMTT(60)
    <2>4. QED
      BY <2>1, <2>2, <2>3 DEF QueueInv, OneEach
  <1>4. Live = {} /\ 1 .. conns = {} /\ \A l : Dealt(l) = {}
    <2>1. 1 .. conns = {}
      BY SMTT(60)
    <2>2. QED
      BY <2>1 DEF Live, Dealt
  <1>5. Cardinality(Live) = 0 /\ \A l : Cardinality(Dealt(l)) = 0
    BY <1>4, FS_EmptySet
  <1>6. DealInv
    BY SMTT(60), <1>1, <1>4, <1>5 DEF DealInv
  <1>7. FdsAddUp
    <2>1. free + opens + (IF idle THEN 1 ELSE 0) + (IF accept = "taken" THEN 1 ELSE 0)
            + Cardinality(Live) = MaxFds
      BY SMTT(60), <1>5, ServerAssumption
    <2>2. arrived = backlog + conns + refused + (IF accept = "taken" THEN 1 ELSE 0)
      BY SMTT(60)
    <2>3. QED
      BY <2>1, <2>2 DEF FdsAddUp
  <1>8. QED
    BY <1>2, <1>3, <1>6, <1>7

(* A connection with a functor in a queue is being made or was closed. *)
LEMMA FunctorState ==
  ASSUME QueueInv, NEW l \in Loops, NEW i \in 1 .. Len(pending[l])
  PROVE  /\ pending[l][i].what \in {"connectEstablished", "removeConnection", "connectDestroyed"}
         /\ pending[l][i].conn \in Conns
         /\ Expected(pending[l][i], state, connections)
         /\ state[pending[l][i].conn] \in {"connecting", "disconnected"}
  <1>1. pending[l][i] \in Functors /\ Expected(pending[l][i], state, connections)
    BY ElementOfSeq DEF QueueInv
  <1>2. /\ pending[l][i].what \in {"connectEstablished", "removeConnection", "connectDestroyed"}
        /\ pending[l][i].conn \in Conns
    BY SMTT(60), <1>1 DEF Functors
  <1>3. state[pending[l][i].conn] \in {"connecting", "disconnected"}
    BY <1>1, <1>2 DEF Expected
  <1>4. QED
    BY <1>1, <1>2, <1>3

(* Nothing that befalls another connection makes a functor unexpected. *)
LEMMA StillExpected ==
  ASSUME NEW f, NEW st, NEW known, NEW stNew, NEW knownNew, Expected(f, st, known),
         f.what \in {"connectEstablished", "removeConnection", "connectDestroyed"},
         stNew[f.conn] = st[f.conn], f.conn \in known => f.conn \in knownNew
  PROVE  Expected(f, stNew, knownNew)
  BY DEF Expected

(* Every peer that was accepted had connected: there is a number left for  *)
(* the connection that newConnection() makes, and nothing is bound to it.  *)
LEMMA NewNumber ==
  ASSUME AcceptInv, QueueInv, FdsAddUp, accept = "poll", backlog > 0
  PROVE  /\ conns + 1 \in Conns /\ state[conns + 1] = "none" /\ conns + 1 \notin Live
         /\ NoneFor(pending, conns + 1)
  <1>1. {backlog, arrived, refused, conns} \subseteq Nat /\ arrived <= MaxConns
    BY DEF AcceptInv
  <1>2. arrived = backlog + conns + refused + 0
    BY DEF FdsAddUp
  <1>3. conns + 1 \in Conns /\ conns + 1 > conns
    BY SMTT(60), <1>1, <1>2, ServerAssumption DEF Conns
  <1>4. state[conns + 1] = "none"
    BY <1>3 DEF QueueInv
  <1>5. ASSUME NEW l \in Loops, NEW i \in 1 .. Len(pending[l])
        PROVE  pending[l][i].conn # conns + 1
    BY <1>4, FunctorState
  <1>6. QED
    BY <1>3, <1>4, <1>5 DEF Live, NoneFor

(* The loop that getNextLoop() gives, and where it leaves next_. *)
LEMMA NextLoop ==
  ASSUME AcceptInv
  PROVE  /\ numThreads \in Nat /\ getNextLoop \in Loops /\ (getNextLoop = Base <=> numThreads = 0)
         /\ numThreads # 0 => /\ getNextLoop = nextLoop + 1 /\ getNextLoop \in 1 .. numThreads
                              /\ Wrap(nextLoop + 1) = IF nextLoop + 1 = numThreads THEN 0 ELSE nextLoop + 1
                              /\ numThreads > 0
  BY SMTT(60), ServerAssumption DEF AcceptInv, getNextLoop, Wrap, Loops, Base

(* A step that concerns connection c alone.  The functors it leaves, each  *)
(* as it was or a new one that is expected, are expected.                  *)
Concerns(c) ==
  \A d \in Conns \ {c} : state'[d] = state[d] /\ (d \in connections => d \in connections')
Leaves(c) ==
  \A m \in Loops : \A i \in 1 .. Len(pending'[m]) :
    \/ Expected(pending'[m][i], state', connections')
    \/ pending'[m][i].conn # c /\ \E j \in 1 .. Len(pending[m]) : pending'[m][i] = pending[m][j]
LEMMA FunctorsKept ==
  ASSUME QueueInv, NEW c, Concerns(c), Leaves(c)
  PROVE  \A m \in Loops : \A i \in 1 .. Len(pending'[m]) : Expected(pending'[m][i], state', connections')
  <1> SUFFICES ASSUME NEW m \in Loops, NEW i \in 1 .. Len(pending'[m]),
                      pending'[m][i].conn # c, NEW j \in 1 .. Len(pending[m]), pending'[m][i] = pending[m][j]
               PROVE  Expected(pending'[m][i], state', connections')
    BY DEF Leaves
  <1> DEFINE f == pending[m][j]
  <1>1. /\ f.what \in {"connectEstablished", "removeConnection", "connectDestroyed"}
        /\ f.conn \in Conns /\ Expected(f, state, connections)
    BY FunctorState
  <1> HIDE DEF f
  <1>2. f.conn # c /\ pending'[m][i] = f
    BY DEF f
  <1>3. state'[f.conn] = state[f.conn] /\ (f.conn \in connections => f.conn \in connections')
    BY <1>1, <1>2 DEF Concerns
  <1>4. Expected(f, state', connections')
    BY <1>1, <1>3, StillExpected
  <1>5. QED
    BY <1>2, <1>4

(* A step leaves a connection that is being made or open in connections_.  *)
Known == \A c \in Conns : state[c] \in {"connecting", "connected"} => c \in connections

(* newConnection(). *)
LEMMA NewStep ==
  ASSUME AcceptInv, QueueInv, FdsAddUp, handleRead
  PROVE  QueueInv' /\ Known' /\ ~absent'
  <1> DEFINE c == conns + 1
             l == getNextLoop
             s == IF l = Base THEN "connected" ELSE "connecting"
  <1>1. c \in Conns /\ state[c] = "none" /\ NoneFor(pending, c)
    BY NewNumber DEF handleRead
  <1>2. l \in Loops
    BY NextLoop
  <1>3. /\ conns' = c /\ connections' = connections \cup {c} /\ loopOf' = [loopOf EXCEPT ![c] = l]
        /\ state' = [state EXCEPT ![c] = s] /\ numThreads' = numThreads /\ absent' = absent
        /\ pending' = IF l = Base THEN pending ELSE Later(pending, l, "connectEstablished", c)
    BY DEF handleRead, newConnection
  <1>4. Loops' = Loops
    BY <1>3 DEF Loops
  <1>5. \A d \in Conns : d > c <=> d > conns /\ d # c
    BY SMTT(60), ServerAssumption DEF Conns, AcceptInv
  <1> HIDE DEF c, l
  <1>6. state \in [Conns -> {"none", "connecting", "connected", "disconnected", "destroyed"}]
        /\ loopOf \in [Conns -> Loops] /\ pending \in [Loops -> Seq(Functors)] /\ OneEach(pending)
        /\ \A d \in Conns : state[d] = "none" <=> d > conns
    BY DEF QueueInv
  <1>7. state'[c] = s /\ \A d \in Conns \ {c} : state'[d] = state[d]
    BY <1>1, <1>3, <1>6
  <1>a. Concerns(c)
    BY <1>3, <1>7 DEF Concerns
  <1>8. /\ state' \in [Conns -> {"none", "connecting", "connected", "disconnected", "destroyed"}]
        /\ loopOf' \in [Conns -> Loops']
    BY <1>1, <1>2, <1>3, <1>4, <1>6
  <1>9. \A d \in Conns : state'[d] = "none" <=> d > conns'
    <2> SUFFICES ASSUME NEW d \in Conns PROVE state'[d] = "none" <=> d > c
      BY <1>3
    <2>1. CASE d = c
      BY <1>5, <1>7, <2>1
    <2>2. CASE d # c
      BY <1>5, <1>6, <1>7, <2>2
    <2>3. QED
      BY <2>1, <2>2
  <1>10. /\ pending' \in [Loops' -> Seq(Functors)] /\ OneEach(pending)'
         /\ \A m \in Loops' : \A i \in 1 .. Len(pending'[m]) : Expected(pending'[m][i], state', connections')
    <2>1. CASE l = Base
      <3>1. pending' = pending
        BY <1>3, <2>1
      <3>2. Leaves(c)
        BY <1>1, <3>1 DEF Leaves, NoneFor
      <3>3. \A m \in Loops : \A i \in 1 .. Len(pending'[m]) : Expected(pending'[m][i], state', connections')
        BY <1>a, <3>2, FunctorsKept
      <3>4. OneEach(pending)'
        BY SMTT(60), <1>4, <1>6, <3>1 DEF OneEach
      <3>5. QED
        BY <1>4, <1>6, <3>1, <3>3, <3>4
    <2>2. CASE l # Base
      <3> DEFINE f == [what |-> "connectEstablished", conn |-> c]
      <3>1. pending' = Later(pending, l, "connectEstablished", c)
        BY <1>3, <2>2
      <3>2. pending' \in [Loops -> Seq(Functors)] /\ OneEach(pending') /\ FromOr(pending, pending', f)
        BY <1>1, <1>2, <1>6, <3>1, QueuedFunctor
      <3>3. Expected(f, state', connections')
        BY SMTT(60), <1>7, <2>2 DEF Expected
      <3> HIDE DEF f
      <3>4. Leaves(c)
        BY SMTT(60), <1>1, <3>2, <3>3 DEF Leaves, NoneFor, FromOr
      <3>5. \A m \in Loops : \A i \in 1 .. Len(pending'[m]) : Expected(pending'[m][i], state', connections')
        BY <1>a, <3>4, FunctorsKept
      <3>6. QED
        BY <1>4, <3>2, <3>5 DEF OneEach
    <2>3. QED
      BY <2>1, <2>2
  <1>11. Known'
    BY <1>3, <1>7 DEF Known, FdsAddUp
  <1>12. ~absent'
    BY <1>3 DEF FdsAddUp
  <1>13. QED
    BY <1>8, <1>9, <1>10, <1>11, <1>12 DEF QueueInv

(* handleClose(), with removeConnection(). *)
LEMMA CloseStep ==
  ASSUME AcceptInv, QueueInv, FdsAddUp, NEW c \in Conns, handleClose(c)
  PROVE  QueueInv' /\ Known' /\ ~absent' /\ Live' = Live
  <1> DEFINE w == IF loopOf[c] = Base THEN "connectDestroyed" ELSE "removeConnection"
             l == IF loopOf[c] = Base THEN loopOf[c] ELSE Base
             f == [what |-> w, conn |-> c]
  <1>1. /\ state \in [Conns -> {"none", "connecting", "connected", "disconnected", "destroyed"}]
        /\ loopOf \in [Conns -> Loops] /\ pending \in [Loops -> Seq(Functors)] /\ OneEach(pending)
        /\ \A d \in Conns : state[d] = "none" <=> d > conns
    BY DEF QueueInv
  <1>2. /\ state[c] = "connected" /\ c \in connections /\ ~absent
        /\ state' = [state EXCEPT ![c] = "disconnected"]
        /\ numThreads' = numThreads /\ conns' = conns /\ loopOf' = loopOf
    BY DEF handleClose, FdsAddUp
  <1>3. pending' = Later(pending, l, w, c) /\ ~absent' /\ connections \ {c} \subseteq connections'
        /\ (w = "removeConnection" => c \in connections')
    BY <1>2 DEF handleClose, removeConnectionInLoop
  <1>4. l \in Loops /\ w \in {"connectEstablished", "removeConnection", "connectDestroyed"} /\ Loops' = Loops
    BY SMTT(60), <1>1, <1>2, ServerAssumption DEF Loops, Base, AcceptInv
  <1>5. NoneFor(pending, c)
    BY <1>2, FunctorState DEF NoneFor
  <1>6. state'[c] = "disconnected" /\ \A d \in Conns \ {c} : state'[d] = state[d]
    BY <1>1, <1>2
  <1>7. w \in {"removeConnection", "connectDestroyed"}
    OBVIOUS
  <1> HIDE DEF w, l
  <1>8. pending' \in [Loops -> Seq(Functors)] /\ OneEach(pending') /\ FromOr(pending, pending', f)
    BY <1>1, <1>3, <1>4, <1>5, QueuedFunctor
  <1>9. Expected(f, state', connections')
    <2>1. f.what = w /\ f.conn = c
      BY SMTT(60)
    <2> HIDE DEF f
    <2>2. QED
      BY <1>3, <1>6, <1>7, <2>1 DEF Expected
  <1> HIDE DEF f
  <1>10. Concerns(c)
    BY <1>3, <1>6 DEF Concerns
  <1>11. Leaves(c)
    BY SMTT(60), <1>5, <1>8, <1>9 DEF Leaves, NoneFor, FromOr
  <1>12. \A m \in Loops : \A i \in 1 .. Len(pending'[m]) : Expected(pending'[m][i], state', connections')
    BY <1>10, <1>11, FunctorsKept
  <1>13. \A d \in Conns : state'[d] = "none" <=> d > conns'
    <2> SUFFICES ASSUME NEW d \in Conns PROVE state'[d] = "none" <=> state[d] = "none"
      BY <1>1, <1>2
    <2>1. QED
      BY <1>2, <1>6
  <1>14. state' \in [Conns -> {"none", "connecting", "connected", "disconnected", "destroyed"}]
    BY <1>1, <1>2
  <1>15. OneEach(pending)'
    BY <1>4, <1>8 DEF OneEach
  <1>16. QueueInv'
    BY <1>1, <1>2, <1>4, <1>8, <1>12, <1>13, <1>14, <1>15 DEF QueueInv
  <1>17. Known'
    BY <1>3, <1>6 DEF Known, FdsAddUp
  <1>18. Live' = Live
    <2>1. \A d \in Conns : state'[d] \in {"none", "destroyed"} <=> state[d] \in {"none", "destroyed"}
      BY <1>2, <1>6
    <2>2. QED
      BY <2>1 DEF Live
  <1>19. QED
    BY <1>3, <1>16, <1>17, <1>18

(* A functor is run; only connectDestroyed() closes a socket. *)
LEMMA FunctorStep ==
  ASSUME AcceptInv, QueueInv, FdsAddUp, NEW l \in Loops, runFunctor(l)
  PROVE  /\ QueueInv' /\ Known' /\ ~absent'
         /\ \/ Live' = Live /\ free' = free
            \/ \E c \in Live : Live' = Live \ {c} /\ free' = free + 1
  <1> DEFINE f == Head(pending[l])
             c == f.conn
             q == [pending EXCEPT ![l] = Tail(@)]
  <1>1. /\ state \in [Conns -> {"none", "connecting", "connected", "disconnected", "destroyed"}]
        /\ loopOf \in [Conns -> Loops] /\ pending \in [Loops -> Seq(Functors)] /\ OneEach(pending)
        /\ \A d \in Conns : state[d] = "none" <=> d > conns
    BY DEF QueueInv
  <1>2. /\ pending[l] # <<>> /\ numThreads' = numThreads /\ conns' = conns /\ loopOf' = loopOf /\ ~absent
    BY DEF runFunctor, FdsAddUp
  <1>3. /\ q \in [Loops -> Seq(Functors)] /\ OneEach(q) /\ NoneFor(q, c) /\ From(pending, q)
        /\ 1 \in 1 .. Len(pending[l]) /\ f = pending[l][1]
    BY <1>1, <1>2, TakenFunctor
  <1>4. /\ f.what \in {"connectEstablished", "removeConnection", "connectDestroyed"}
        /\ c \in Conns /\ Expected(f, state, connections) /\ state[c] \in {"connecting", "disconnected"}
    <2>1. /\ pending[l][1].what \in {"connectEstablished", "removeConnection", "connectDestroyed"}
          /\ pending[l][1].conn \in Conns /\ Expected(pending[l][1], state, connections)
          /\ state[pending[l][1].conn] \in {"connecting", "disconnected"}
      BY <1>3, FunctorState
    <2>2. QED
      BY <1>3, <2>1
  <1>5. /\ f.what = "connectEstablished" => state[c] = "connecting"
        /\ f.what # "connectEstablished" => state[c] = "disconnected"
        /\ f.what = "removeConnection" => c \in connections
    BY <1>4 DEF Expected
  <1>6. \/ /\ f.what = "connectEstablished" /\ state' = [state EXCEPT ![c] = "connected"]
           /\ pending' = q /\ free' = free /\ connections' = connections /\ absent' = absent
        \/ /\ f.what = "connectDestroyed" /\ state' = [state EXCEPT ![c] = "destroyed"]
           /\ pending' = q /\ free' = free + 1 /\ connections' = connections /\ absent' = absent
        \/ /\ f.what = "removeConnection" /\ state' = state
           /\ absent' = (absent \/ c \notin connections) /\ connections' = connections \ {c}
           /\ pending' = Later(q, loopOf[c], "connectDestroyed", c) /\ free' = free
    BY DEF runFunctor, Destroy, removeConnectionInLoop
  <1>7. Loops' = Loops
    BY <1>2 DEF Loops
  <1> HIDE DEF f, c, q
  <1>8. ~absent'
    BY <1>2, <1>4, <1>5, <1>6
  <1>9. /\ state' \in [Conns -> {"none", "connecting", "connected", "disconnected", "destroyed"}]
        /\ \A d \in Conns \ {c} : state'[d] = state[d]
        /\ state'[c] # "none"
        /\ state'[c] \in {"connecting", "connected"} => c \in connections /\ f.what = "connectEstablished"
    <2>1. CASE f.what = "connectEstablished" /\ state' = [state EXCEPT ![c] = "connected"]
      BY <1>1, <1>4, <1>5, <2>1 DEF FdsAddUp
    <2>2. CASE f.what = "connectDestroyed" /\ state' = [state EXCEPT ![c] = "destroyed"]
      BY <1>1, <1>4, <2>2
    <2>3. CASE f.what = "removeConnection" /\ state' = state
      BY <1>1, <1>4, <1>5, <2>3
    <2>4. QED
      BY <1>6, <2>1, <2>2, <2>3
  <1>10. connections \ {c} \subseteq connections' /\ (f.what = "connectEstablished" => connections' = connections)
    BY <1>6
  <1>11. Concerns(c)
    BY <1>9, <1>10 DEF Concerns
  <1>12. pending' \in [Loops -> Seq(Functors)] /\ OneEach(pending') /\ Leaves(c)
    <2>1. CASE pending' = q
      <3>1. Leaves(c)
        BY <1>3, <2>1 DEF Leaves, NoneFor, From
      <3>2. QED
        BY <1>3, <2>1, <3>1
    <2>2. CASE /\ pending' = Later(q, loopOf[c], "connectDestroyed", c)
               /\ f.what = "removeConnection" /\ state' = state
      <3> DEFINE g == [what |-> "connectDestroyed", conn |-> c]
      <3>1. pending' \in [Loops -> Seq(Functors)] /\ OneEach(pending') /\ FromOr(q, pending', g)
        <4>1. loopOf[c] \in Loops
          BY <1>1, <1>4
        <4>2. QED
          BY <1>3, <1>4, <2>2, <4>1, QueuedFunctor
      <3>2. Expected(g, state', connections')
        <4>1. state'[c] = "disconnected"
          BY <1>5, <2>2
        <4>2. QED
          BY SMTT(60), <4>1 DEF Expected
      <3> HIDE DEF g
      <3>3. Leaves(c)
        <4> SUFFICES ASSUME NEW m \in Loops, NEW i \in 1 .. Len(pending'[m]), pending'[m][i] # g
                     PROVE  /\ pending'[m][i].conn # c
                            /\ \E j \in 1 .. Len(pending[m]) : pending'[m][i] = pending[m][j]
          BY <3>2 DEF Leaves
        <4>1. PICK k \in 1 .. Len(q[m]) : pending'[m][i] = q[m][k]
          BY <3>1 DEF FromOr
        <4>2. q[m][k].conn # c /\ \E j \in 1 .. Len(pending[m]) : q[m][k] = pending[m][j]
          BY <1>3 DEF NoneFor, From
        <4>3. QED
          BY <4>1, <4>2
      <3>4. QED
        BY <3>1, <3>3
    <2>3. QED
      BY <1>6, <2>1, <2>2
  <1>13. \A m \in Loops : \A i \in 1 .. Len(pending'[m]) : Expected(pending'[m][i], state', connections')
    BY <1>11, <1>12, FunctorsKept
  <1>14. \A d \in Conns : state'[d] = "none" <=> d > conns'
    <2> SUFFICES ASSUME NEW d \in Conns PROVE state'[d] = "none" <=> state[d] = "none"
      BY <1>1, <1>2
    <2>1. QED
      BY <1>4, <1>9
  <1>15. OneEach(pending)'
    BY <1>7, <1>12 DEF OneEach
  <1>16. QueueInv'
    BY <1>1, <1>2, <1>7, <1>9, <1>12, <1>13, <1>14, <1>15 DEF QueueInv
  <1>17. Known'
    BY <1>9, <1>10 DEF Known, FdsAddUp
  <1>18. \/ Live' = Live /\ free' = free
         \/ \E d \in Live : Live' = Live \ {d} /\ free' = free + 1
    <2>1. c \in Live
      BY <1>4 DEF Live
    <2>2. CASE f.what = "connectDestroyed" /\ state' = [state EXCEPT ![c] = "destroyed"] /\ free' = free + 1
      <3>1. state'[c] = "destroyed"
        BY <1>1, <1>4, <2>2
      <3>2. Live' = Live \ {c}
        BY <1>9, <3>1 DEF Live
      <3>3. QED
        BY <2>1, <2>2, <3>2
    <2>3. CASE f.what # "connectDestroyed" /\ free' = free
      <3>1. state'[c] # "destroyed"
        BY <1>1, <1>4, <1>5, <1>6, <2>3
      <3>2. \A d \in Conns : state'[d] \in {"none", "destroyed"} <=> state[d] \in {"none", "destroyed"}
        BY <1>4, <1>9, <3>1
      <3>3. QED
        BY <2>3, <3>2 DEF Live
    <2>4. QED
      BY <1>6, <2>2, <2>3
  <1>19. QED
    BY <1>8, <1>16, <1>17, <1>18

(* What any step does to the queues and the connections. *)
LEMMA QueueStep ==
  ASSUME AcceptInv, QueueInv, FdsAddUp, [ServerNext]_serverVars
  PROVE  QueueInv' /\ Known' /\ ~absent'
  <1>1. CASE handleRead
    BY <1>1, NewStep
  <1>2. CASE \E c \in Conns : handleClose(c)
    BY <1>2, CloseStep
  <1>3. CASE \E l \in Loops : runFunctor(l)
    BY <1>3, FunctorStep
  <1>4. ASSUME UNCHANGED <<numThreads, connVars>> PROVE QueueInv' /\ Known' /\ ~absent'
    <2>1. /\ Loops' = Loops /\ conns' = conns /\ connections' = connections /\ state' = state
          /\ loopOf' = loopOf /\ pending' = pending /\ absent' = absent
      BY <1>4 DEF connVars, Loops
    <2>2. OneEach(pending)'
      BY SMTT(60), <2>1 DEF QueueInv, OneEach
    <2>3. QueueInv'
      BY <2>1, <2>2 DEF QueueInv
    <2>4. QED
      BY <2>1, <2>3 DEF Known, FdsAddUp
  <1>5. CASE start \/ closeIdle \/ acceptIdle \/ closeTaken \/ reopenIdle \/ connect \/ open
    <2>1. UNCHANGED <<numThreads, connVars>>
      BY <1>5 DEF start, closeIdle, acceptIdle, closeTaken, reopenIdle, connect, open
    <2>2. QED
      BY <2>1, <1>4
  <1>6. CASE UNCHANGED serverVars
    <2>1. UNCHANGED <<numThreads, connVars>>
      BY <1>6 DEF serverVars, connVars
    <2>2. QED
      BY <2>1, <1>4
  <1>7. QED
    BY <1>1, <1>2, <1>3, <1>5, <1>6 DEF ServerNext, baseLoop

(* The descriptors that are not connections', and the peers not accepted.  *)
LEMMA AcceptStep ==
  ASSUME AcceptInv, FdsAddUp, [ServerNext]_serverVars
  PROVE  AcceptInv'
  <1>1. CASE start
    BY <1>1 DEF start, fdVars, connVars, AcceptInv
  <1>2. CASE handleRead
    <2>1. nextLoop' \in Nat /\ (nextLoop' = 0 \/ nextLoop' < numThreads)
      BY SMTT(60), <1>2, ServerAssumption DEF handleRead, newConnection, Wrap, AcceptInv
    <2>2. {backlog', arrived', refused', free', opens', conns'} \subseteq Nat
      BY SMTT(60), <1>2 DEF handleRead, newConnection, AcceptInv
    <2>3. numThreads' = numThreads /\ arrived' = arrived /\ idle' = idle /\ accept' = "poll"
      BY <1>2 DEF handleRead
    <2>4. QED
      BY <2>1, <2>2, <2>3 DEF AcceptInv
  <1>3. CASE closeIdle
    <2>1. free' \in Nat
      BY SMTT(60), <1>3 DEF closeIdle, Trick
    <2>2. UNCHANGED <<numThreads, nextLoop, backlog, arrived, refused, opens, conns>>
      BY <1>3 DEF closeIdle, connVars
    <2>3. idle' = FALSE /\ accept' = "closed" /\ backlog > 0
      BY <1>3 DEF closeIdle, Trick
    <2>4. QED
      BY <2>1, <2>2, <2>3 DEF AcceptInv
  <1>4. CASE acceptIdle
    <2>1. backlog' \in Nat /\ free' \in Nat
      BY SMTT(60), <1>4 DEF acceptIdle, AcceptInv
    <2>2. UNCHANGED <<numThreads, nextLoop, arrived, refused, opens, conns, idle>> /\ ~idle
      BY <1>4 DEF acceptIdle, connVars, AcceptInv
    <2>3. accept' \in {"taken", "failed"}
      BY <1>4 DEF acceptIdle
    <2>4. QED
      BY <2>1, <2>2, <2>3 DEF AcceptInv
  <1>5. CASE reopenIdle
    <2>1. free' \in Nat
      BY SMTT(60), <1>5 DEF reopenIdle, AcceptInv
    <2>2. UNCHANGED <<numThreads, nextLoop, backlog, arrived, refused, opens, conns>> /\ accept' = "poll"
      BY <1>5 DEF reopenIdle, connVars
    <2>3. idle' \in BOOLEAN
      BY SMTT(60), <1>5 DEF reopenIdle
    <2>4. QED
      BY <2>1, <2>2, <2>3 DEF AcceptInv
  <1>12. CASE closeTaken
    <2>1. free' \in Nat /\ refused' \in Nat
      BY SMTT(60), <1>12 DEF closeTaken, Closed, AcceptInv
    <2>2. UNCHANGED <<numThreads, nextLoop, backlog, arrived, opens, conns, idle>> /\ accept' = "reopen" /\ ~idle
      BY <1>12 DEF closeTaken, connVars, AcceptInv
    <2>3. QED
      BY <2>1, <2>2 DEF AcceptInv
  <1>6. CASE connect
    <2>1. arrived' \in Nat /\ arrived' <= MaxConns /\ backlog' \in Nat /\ backlog' > 0
      BY SMTT(60), <1>6, ServerAssumption DEF connect, AcceptInv
    <2>2. UNCHANGED <<numThreads, nextLoop, refused, free, opens, conns, idle, accept>>
      BY <1>6 DEF connect, connVars
    <2>3. QED
      BY <2>1, <2>2 DEF AcceptInv
  <1>7. CASE open
    <2>1. free' \in Nat /\ opens' \in Nat
      BY SMTT(60), <1>7 DEF open, AcceptInv
    <2>2. UNCHANGED <<numThreads, nextLoop, backlog, arrived, refused, conns, idle, accept>>
      BY <1>7 DEF open, connVars
    <2>3. QED
      BY <2>1, <2>2 DEF AcceptInv
  <1>8. CASE \E l \in Loops : runFunctor(l)
    <2>1. free' \in Nat
      BY SMTT(60), <1>8 DEF runFunctor, Destroy, AcceptInv
    <2>2. UNCHANGED <<numThreads, nextLoop, backlog, arrived, refused, opens, conns, idle, accept>>
      BY <1>8 DEF runFunctor
    <2>3. QED
      BY <2>1, <2>2 DEF AcceptInv
  <1>9. CASE \E c \in Conns : handleClose(c)
    <2>1. UNCHANGED <<numThreads, nextLoop, backlog, arrived, refused, free, opens, conns, idle, accept>>
      BY <1>9 DEF handleClose, fdVars
    <2>2. QED
      BY <2>1 DEF AcceptInv
  <1>10. CASE UNCHANGED serverVars
    BY <1>10 DEF serverVars, AcceptInv
  <1>11. QED
    BY <1>1, <1>2, <1>3, <1>4, <1>5, <1>6, <1>7, <1>8, <1>9, <1>10, <1>12 DEF ServerNext, baseLoop

LEMMA LiveIsFinite == IsFiniteSet(Live) /\ Cardinality(Live) \in Nat
  <1>1. IsFiniteSet(Conns)
    BY SMTT(60), FS_Interval, ServerAssumption DEF Conns
  <1>2. Live \in SUBSET Conns
    BY DEF Live
  <1>3. QED
    BY <1>1, <1>2, FS_Subset, FS_CardinalityType

(* Everyone who takes a descriptor gives it back: the sum.                 *)
IdleFds == IF idle THEN 1 ELSE 0
TakenFds == IF accept = "taken" THEN 1 ELSE 0
LEMMA SumStep ==
  ASSUME AcceptInv, QueueInv, FdsAddUp, [ServerNext]_serverVars
  PROVE  /\ (free + opens + IdleFds + TakenFds + Cardinality(Live) = MaxFds)'
         /\ (arrived = backlog + conns + refused + TakenFds)'
  <1> DEFINE n == Cardinality(Live)
             m == Cardinality(Live')
  <1>1. /\ {backlog, arrived, refused, free, opens, conns} \subseteq Nat
        /\ n \in Nat /\ IdleFds \in Nat /\ TakenFds \in Nat
        /\ free + opens + IdleFds + TakenFds + n = MaxFds
        /\ arrived = backlog + conns + refused + TakenFds
    <2>1. IdleFds \in Nat /\ TakenFds \in Nat
      BY SMTT(60) DEF IdleFds, TakenFds
    <2>2. QED
      BY <2>1, LiveIsFinite DEF AcceptInv, FdsAddUp, IdleFds, TakenFds
  <1> SUFFICES /\ free' + opens' + IdleFds' + TakenFds' + m = MaxFds
               /\ arrived' = backlog' + conns' + refused' + TakenFds'
    OBVIOUS
  <1>2. ASSUME UNCHANGED state PROVE m = n
    <2>1. Live' = Live
      BY <1>2 DEF Live
    <2>2. QED
      BY <2>1
  <1> HIDE DEF n, m
  <1>3. CASE handleRead
    <2>1. m = n + 1
      <3> DEFINE c == conns + 1
                 s == IF getNextLoop = Base THEN "connected" ELSE "connecting"
      <3>1. c \in Conns /\ c \notin Live
        BY <1>3, NewNumber DEF handleRead
      <3>2. state' = [state EXCEPT ![c] = s] /\ s \notin {"none", "destroyed"}
        BY <1>3 DEF handleRead, newConnection
      <3> HIDE DEF c, s
      <3>3. state'[c] = s /\ \A d \in Conns \ {c} : state'[d] = state[d]
        BY <3>1, <3>2 DEF QueueInv
      <3>4. Live' = Live \cup {c}
        BY <3>1, <3>2, <3>3 DEF Live
      <3>5. QED
        BY <3>1, <3>4, LiveIsFinite, FS_AddElement DEF n, m
    <2>2. IdleFds' = IdleFds /\ TakenFds' = 0 /\ TakenFds = 0
      BY <1>3 DEF handleRead, IdleFds, TakenFds
    <2>3. /\ free' = free - 1 /\ backlog' = backlog - 1 /\ conns' = conns + 1
          /\ UNCHANGED <<opens, arrived, refused>> /\ free > 0 /\ backlog > 0
      BY <1>3 DEF handleRead, newConnection
    <2>4. QED
      BY SMTT(60), <1>1, <2>1, <2>2, <2>3
  <1>4. CASE closeIdle
    <2>1. m = n /\ UNCHANGED <<opens, backlog, arrived, refused, conns>>
      BY <1>2, <1>4 DEF closeIdle, connVars
    <2>2. TakenFds' = 0 /\ TakenFds = 0 /\ free = 0 /\ free' = IdleFds /\ IdleFds' = 0
      BY <1>4 DEF closeIdle, Trick, IdleFds, TakenFds
    <2>3. QED
      BY SMTT(60), <1>1, <2>1, <2>2
  <1>5. CASE acceptIdle
    <2>1. m = n /\ UNCHANGED <<opens, arrived, refused, conns>>
      BY <1>2, <1>5 DEF acceptIdle, connVars
    <2>2. TakenFds = 0 /\ IdleFds' = IdleFds
      BY <1>5 DEF acceptIdle, IdleFds, TakenFds
    <2>3. CASE free > 0
      <3>1. TakenFds' = 1 /\ free' = free - 1 /\ backlog' = backlog - 1
        BY <1>5, <2>3 DEF acceptIdle, TakenFds
      <3>2. QED
        BY SMTT(60), <1>1, <2>1, <2>2, <2>3, <3>1
    <2>4. CASE ~(free > 0)
      <3>1. TakenFds' = 0 /\ free' = free /\ backlog' = backlog
        BY <1>5, <2>4 DEF acceptIdle, TakenFds
      <3>2. QED
        BY SMTT(60), <1>1, <2>1, <2>2, <3>1
    <2>5. QED
      BY <2>3, <2>4
  <1>12. CASE closeTaken
    <2>1. m = n /\ UNCHANGED <<opens, backlog, arrived, conns>>
      BY <1>2, <1>12 DEF closeTaken, connVars
    <2>2. TakenFds' = 0 /\ IdleFds' = IdleFds
      BY <1>12 DEF closeTaken, TakenFds, IdleFds
    <2>3. free' = free + TakenFds /\ refused' = refused + TakenFds
      BY SMTT(60), <1>1, <1>12 DEF closeTaken, TakenFds, Closed
    <2>4. QED
      BY SMTT(60), <1>1, <2>1, <2>2, <2>3
  <1>6. CASE reopenIdle
    <2>1. m = n /\ UNCHANGED <<opens, backlog, arrived, refused, conns>>
      BY <1>2, <1>6 DEF reopenIdle, connVars
    <2>2. TakenFds' = 0 /\ TakenFds = 0
      BY <1>6 DEF reopenIdle, TakenFds
    <2>3. IdleFds = 0
      BY <1>6 DEF reopenIdle, AcceptInv, IdleFds
    <2>4. CASE free > 0
      <3>1. IdleFds' = 1 /\ free' = free - 1
        BY <1>6, <2>4 DEF reopenIdle, IdleFds
      <3>2. QED
        BY SMTT(60), <1>1, <2>1, <2>2, <2>3, <2>4, <3>1
    <2>5. CASE ~(free > 0)
      <3>1. IdleFds' = 0 /\ free' = 0
        BY <1>6, <2>5 DEF reopenIdle, IdleFds
      <3>2. QED
        BY SMTT(60), <1>1, <2>1, <2>2, <2>3, <2>5, <3>1
    <2>6. QED
      BY <2>4, <2>5
  <1>7. CASE connect
    <2>1. m = n /\ UNCHANGED <<free, opens, refused, conns>> /\ arrived' = arrived + 1 /\ backlog' = backlog + 1
      BY <1>2, <1>7 DEF connect, connVars
    <2>2. IdleFds' = IdleFds /\ TakenFds' = TakenFds
      BY <1>7 DEF connect, IdleFds, TakenFds
    <2>3. QED
      BY SMTT(60), <1>1, <2>1, <2>2
  <1>8. CASE open
    <2>1. m = n /\ UNCHANGED <<backlog, arrived, refused, conns>> /\ free' = free - 1 /\ opens' = opens + 1
      BY <1>2, <1>8 DEF open, connVars
    <2>2. IdleFds' = IdleFds /\ TakenFds' = TakenFds
      BY <1>8 DEF open, IdleFds, TakenFds
    <2>3. QED
      BY SMTT(60), <1>1, <2>1, <2>2
  <1>9. CASE \E l \in Loops : runFunctor(l)
    <2>1. UNCHANGED <<opens, backlog, arrived, refused, conns, idle, accept>>
      BY <1>9 DEF runFunctor
    <2>2. IdleFds' = IdleFds /\ TakenFds' = TakenFds
      BY <2>1 DEF IdleFds, TakenFds
    <2>3. m + free' = n + free
      <3>1. CASE Live' = Live /\ free' = free
        BY <3>1 DEF m, n
      <3>2. CASE \E c \in Live : Live' = Live \ {c} /\ free' = free + 1
        <4>1. m = n - 1 /\ free' = free + 1
          BY <3>2, LiveIsFinite, FS_RemoveElement DEF m, n
        <4>2. QED
          BY SMTT(60), <1>1, <4>1
      <3>3. QED
        BY <1>9, <3>1, <3>2, FunctorStep
    <2>4. m \in Nat /\ free' \in Nat
      <3>1. free' \in Nat
        BY AcceptStep DEF AcceptInv
      <3>2. m \in Nat
        <4>1. IsFiniteSet(Live')
          BY <1>9, FunctorStep, LiveIsFinite, FS_RemoveElement
        <4>2. QED
          BY <4>1, FS_CardinalityType DEF m
      <3>3. QED
        BY <3>1, <3>2
    <2>5. QED
      BY SMTT(60), <1>1, <2>1, <2>2, <2>3, <2>4
  <1>10. CASE \E c \in Conns : handleClose(c)
    <2>1. m = n
      BY <1>10, CloseStep DEF m, n
    <2>2. UNCHANGED <<free, opens, backlog, arrived, refused, conns, idle, accept>>
      BY <1>10 DEF handleClose, fdVars
    <2>3. IdleFds' = IdleFds /\ TakenFds' = TakenFds
      BY <2>2 DEF IdleFds, TakenFds
    <2>4. QED
      BY <1>1, <2>1, <2>2, <2>3
  <1>11. CASE start \/ UNCHANGED serverVars
    <2>1. m = n /\ UNCHANGED <<free, opens, backlog, arrived, refused, conns, idle, accept>>
      BY <1>2, <1>11 DEF start, serverVars, fdVars, connVars
    <2>2. IdleFds' = IdleFds /\ TakenFds' = TakenFds
      BY <2>1 DEF IdleFds, TakenFds
    <2>3. QED
      BY <1>1, <2>1, <2>2
  <1>13. QED
    BY <1>3, <1>4, <1>5, <1>6, <1>7, <1>8, <1>9, <1>10, <1>11, <1>12 DEF ServerNext, baseLoop

LEMMA DealtIsFinite ==
  ASSUME AcceptInv, NEW l
  PROVE  IsFiniteSet(Dealt(l)) /\ Cardinality(Dealt(l)) \in Nat
  <1>1. IsFiniteSet(1 .. conns)
    BY SMTT(60), FS_Interval DEF AcceptInv
  <1>2. Dealt(l) \in SUBSET (1 .. conns)
    BY DEF Dealt
  <1>3. QED
    BY <1>1, <1>2, FS_Subset, FS_CardinalityType

(* newConnection() gives the connection to the loop after next_.           *)
LEMMA DealStep ==
  ASSUME AcceptInv, QueueInv, FdsAddUp, DealInv, [ServerNext]_serverVars
  PROVE  DealInv'
  <1>1. CASE handleRead /\ numThreads > 0
    <2> DEFINE c == conns + 1
               k == nextLoop + 1
               n(l) == Cardinality(Dealt(l))
               D(l) == {d \in 1 .. conns' : loopOf'[d] = l}
    <2>1. numThreads # 0 /\ numThreads \in Nat /\ nextLoop \in Nat /\ nextLoop < numThreads /\ k \in 1 .. numThreads
      BY SMTT(60), <1>1, ServerAssumption DEF AcceptInv
    <2>2. /\ c \in Conns /\ getNextLoop = k
          /\ Wrap(k) = IF k = numThreads THEN 0 ELSE k
      BY <1>1, <2>1, NewNumber, NextLoop DEF handleRead
    <2>3. /\ conns' = c /\ loopOf' = [loopOf EXCEPT ![c] = k] /\ nextLoop' = Wrap(k) /\ numThreads' = numThreads
      BY <1>1, <2>1, <2>2 DEF handleRead, newConnection
    <2>4. /\ c \notin 1 .. conns /\ 1 .. c = (1 .. conns) \cup {c} /\ 1 .. conns \subseteq Conns
      BY SMTT(60), <2>2, ServerAssumption DEF AcceptInv, Conns
    <2> HIDE DEF c, k
    <2>5. loopOf'[c] = k /\ \A d \in 1 .. conns : loopOf'[d] = loopOf[d]
      BY <2>2, <2>3, <2>4 DEF QueueInv
    <2>6. \A d \in 1 .. conns' : loopOf'[d] \in 1 .. numThreads'
      BY <1>1, <2>1, <2>3, <2>4, <2>5 DEF DealInv
    <2>7. ASSUME NEW l PROVE /\ l = k => Cardinality(D(l)) = n(l) + 1
                             /\ l # k => Cardinality(D(l)) = n(l)
      <3>1. CASE l = k
        <4>1. D(l) = Dealt(l) \cup {c} /\ c \notin Dealt(l)
          BY <2>3, <2>4, <2>5, <3>1 DEF Dealt
        <4>2. QED
          BY <3>1, <4>1, DealtIsFinite, FS_AddElement
      <3>2. CASE l # k
        <4>1. D(l) = Dealt(l)
          BY <2>3, <2>4, <2>5, <3>2 DEF Dealt
        <4>2. QED
          BY <3>2, <4>1
      <3>3. QED
        BY <3>1, <3>2
    <2>8. \A l : n(l) \in Nat
      BY DealtIsFinite
    <2>9. \A l \in 1 .. numThreads : n(l) = n(numThreads) + (IF l <= nextLoop THEN 1 ELSE 0)
      BY <1>1 DEF DealInv
    <2>10. ASSUME NEW l \in 1 .. numThreads
           PROVE  Cardinality(Dealt(l)') = Cardinality(Dealt(numThreads)') + (IF l <= nextLoop' THEN 1 ELSE 0)
      <3> DEFINE a == n(l)
                 b == n(numThreads)
                 x == Cardinality(D(l))
                 y == Cardinality(D(numThreads))
      <3>1. a \in Nat /\ b \in Nat /\ a = b + (IF l <= nextLoop THEN 1 ELSE 0)
        BY <2>8, <2>9
      <3>2. /\ l = k => x = a + 1
            /\ l # k => x = a
            /\ numThreads = k => y = b + 1
            /\ numThreads # k => y = b
        BY <2>7
      <3> HIDE DEF a, b, x, y
      <3>3. nextLoop' = IF k = numThreads THEN 0 ELSE k
        BY <2>2, <2>3
      <3>4. x = y + (IF l <= nextLoop' THEN 1 ELSE 0)
        BY SMTT(60), <2>1, <3>1, <3>2, <3>3 DEF k
      <3>5. Dealt(l)' = D(l) /\ Dealt(numThreads)' = D(numThreads)
        BY <2>3 DEF Dealt
      <3>6. QED
        BY <3>4, <3>5 DEF x, y
    <2>11. QED
      BY <2>3, <2>6, <2>10 DEF DealInv
  <1>2. CASE handleRead /\ ~(numThreads > 0)
    BY <1>2 DEF handleRead, DealInv
  <1>3. ASSUME UNCHANGED <<numThreads, nextLoop, conns, loopOf>> PROVE DealInv'
    <2>1. \A l : Dealt(l)' = Dealt(l)
      BY <1>3 DEF Dealt
    <2>2. Dealt(numThreads)' = Dealt(numThreads)
      BY <1>3 DEF Dealt
    <2>3. QED
      BY <1>3, <2>1, <2>2 DEF DealInv
  <1>4. UNCHANGED <<numThreads, nextLoop, conns, loopOf>> \/ handleRead
    BY DEF ServerNext, serverVars, baseLoop, start, closeIdle, acceptIdle, closeTaken, reopenIdle, connect, open, runFunctor, handleClose,
           connVars
  <1>5. QED
    BY <1>1, <1>2, <1>3, <1>4

(* No loop is two ahead of another. *)
LEMMA DealtInTurn ==
  ASSUME AcceptInv, DealInv
  PROVE  DealtEvenly
  <1> SUFFICES ASSUME numThreads > 0, NEW l \in 1 .. numThreads, NEW m \in 1 .. numThreads
               PROVE  Cardinality(Dealt(l)) <= Cardinality(Dealt(m)) + 1
    BY DEF DealtEvenly, DealInv
  <1> DEFINE a == Cardinality(Dealt(l))
             b == Cardinality(Dealt(m))
             e == Cardinality(Dealt(numThreads))
  <1>1. a \in Nat /\ b \in Nat /\ e \in Nat
    BY DealtIsFinite
  <1>2. a = e + (IF l <= nextLoop THEN 1 ELSE 0) /\ b = e + (IF m <= nextLoop THEN 1 ELSE 0)
    BY DEF DealInv
  <1> HIDE DEF a, b, e
  <1>3. a <= b + 1
    BY SMTT(60), <1>1, <1>2
  <1>4. QED
    BY <1>3 DEF a, b

LEMMA ServerStep ==
  ASSUME AcceptInv, QueueInv, DealInv, FdsAddUp, [ServerNext]_serverVars
  PROVE  (AcceptInv /\ QueueInv /\ DealInv /\ FdsAddUp)'
  <1>1. FdsAddUp'
    BY QueueStep, SumStep DEF FdsAddUp, Known, IdleFds, TakenFds
  <1>2. QED
    BY <1>1, AcceptStep, QueueStep, DealStep

(* The server: no descriptor is leaked or given back twice, a connection   *)
(* that is removed is in the map, and connections are dealt to the I/O     *)
(* loops in turn (Acceptor.cc:90, TcpServer.cc:123).                       *)
THEOREM NoDescriptorLeaks == ServerSpec => []DescriptorsAddUp
  <1> DEFINE I == AcceptInv /\ QueueInv /\ DealInv /\ FdsAddUp
  <1>1. ServerInit => I
    BY ServerInitially
  <1>2. I /\ [ServerNext]_serverVars => I'
    BY ServerStep
  <1>3. I => DescriptorsAddUp
    BY DealtInTurn DEF DescriptorsAddUp
  <1>4. QED
    BY <1>1, <1>2, <1>3, PTL DEF ServerSpec
=============================================================================
