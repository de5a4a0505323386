----------------------------- MODULE ThreadPool -----------------------------
(***************************************************************************)
(* muduo/base: ThreadPool, BoundedBlockingQueue, BlockingQueue and         *)
(* CountDownLatch, all of them a mutex with condition variables.  Threads  *)
(* put numbered tasks; workers take and run them, and each task counts a   *)
(* latch down.  The owner waits for the latch, or does not, and stops the  *)
(* pool.  A section under the mutex is one step; wait() gives the mutex up *)
(* and the thread is in a wait set until it is notified or wakes by        *)
(* itself.                                                                 *)
(***************************************************************************)
EXTENDS Naturals, Sequences, FiniteSets

CONSTANTS
  QueueKinds,     \* pool, bounded, blocking
  Producers,
  Workers,
  Owner,          \* the thread that waits for the latch and stops the pool
  maxQueueSize,
  TasksEach,      \* bound: tasks put by one producer
  MaxSpurious     \* bound: spurious wakeups

\* The threads are different ones, and a maxQueueSize of 0 is no bound.
ASSUME PoolAssumption ==
  /\ IsFiniteSet(Producers) /\ TasksEach \in Nat /\ maxQueueSize \in Nat
  /\ Producers \cap Workers = {} /\ Owner \notin Producers \cup Workers

VARIABLES
  kind,
  queue,          \* queue_
  running,        \* running_
  pc,             \* thread -> where it is
  notEmpty,       \* threads waiting on notEmpty_
  notFull,        \* threads waiting on notFull_
  latched,        \* threads waiting on the latch's condition_
  count,          \* the latch's count_
  task,           \* worker -> the task it runs, 0 for none
  put,            \* the tasks put, in order
  taken,          \* the tasks taken, in order
  done,           \* the tasks that have run
  left,           \* producer -> tasks still to put
  spurious

poolVars == <<kind, queue, running, pc, notEmpty, notFull, latched, count, task, put, taken, done, left, spurious>>

Threads == Producers \cup Workers \cup {Owner}
Tasks == Cardinality(Producers) * TasksEach

PoolInit ==
  /\ kind \in QueueKinds
  /\ queue = <<>> /\ running = TRUE
  /\ pc = [t \in Threads |-> IF t \in Workers THEN "loop" ELSE "go"]
  /\ notEmpty = {} /\ notFull = {} /\ latched = {}
  /\ count = Tasks
  /\ task = [w \in Workers |-> 0]
  /\ put = <<>> /\ taken = <<>> /\ done = {}
  /\ left = [p \in Producers |-> TasksEach]
  /\ spurious = 0

-----------------------------------------------------------------------------
\* notify() and notifyAll() on a wait set.
notify(waiters, after) ==
  IF waiters = {} THEN after = {} ELSE \E t \in waiters : after = waiters \ {t}
notifyAll_One(waiters, after) == notify(waiters, after)
notifyAll(waiters, after) == after = {}

\* ThreadPool::isFull(), and full() of the bounded queue.
pool_isFull == maxQueueSize > 0 /\ Len(queue) >= maxQueueSize
bounded_full == Len(queue) = maxQueueSize
isFull == \/ kind = "pool" /\ pool_isFull
          \/ kind = "bounded" /\ bounded_full

\* ThreadPool::run() and put(): a thread that finds the queue full waits, and looks
\* again when it wakes.
LooksAgain_Not(p) == pc[p] = "go"
LooksAgain(p) == pc[p] \in {"go", "woken"}

Awake(p) == p \notin notFull /\ p \notin notEmpty /\ p \notin latched

waitFull(p) ==
  /\ pc[p] \in {"go", "woken"} /\ Awake(p) /\ left[p] > 0
  /\ LooksAgain(p) /\ isFull
  /\ notFull' = notFull \cup {p} /\ pc' = [pc EXCEPT ![p] = "woken"]
  /\ UNCHANGED <<kind, queue, running, notEmpty, latched, count, task, put, taken, done, left, spurious>>

Put(p) ==
  /\ pc[p] \in {"go", "woken"} /\ Awake(p) /\ left[p] > 0
  /\ ~(LooksAgain(p) /\ isFull)
  /\ LET x == Len(put) + 1
     IN  queue' = Append(queue, x) /\ put' = Append(put, x)
  /\ notify(notEmpty, notEmpty')
  /\ left' = [left EXCEPT ![p] = @ - 1] /\ pc' = [pc EXCEPT ![p] = "go"]
  /\ UNCHANGED <<kind, running, notFull, latched, count, task, taken, done, spurious>>

pool_run(p) == kind = "pool" /\ Put(p)
bounded_put(p) == kind = "bounded" /\ Put(p)
blocking_put(p) == kind = "blocking" /\ Put(p)

\* take(): a worker of the pool waits while there is nothing to take and the pool runs.
MustWait == queue = <<>> /\ (kind = "pool" => running)

waitEmpty(w) ==
  /\ pc[w] = "take" /\ Awake(w) /\ MustWait
  /\ notEmpty' = notEmpty \cup {w}
  /\ UNCHANGED <<kind, queue, running, pc, notFull, latched, count, task, put, taken, done, left, spurious>>

TellsNotFull_Never == FALSE
TellsNotFull == kind = "bounded" \/ (kind = "pool" /\ maxQueueSize > 0)

Take(w) ==
  /\ pc[w] = "take" /\ Awake(w) /\ ~MustWait
  /\ IF queue = <<>>
     THEN /\ pc' = [pc EXCEPT ![w] = "loop"]
          /\ UNCHANGED <<queue, task, taken, notFull>>
     ELSE /\ task' = [task EXCEPT ![w] = Head(queue)]
          /\ queue' = Tail(queue) /\ taken' = Append(taken, Head(queue))
          /\ pc' = [pc EXCEPT ![w] = "run"]
          /\ IF TellsNotFull THEN notify(notFull, notFull') ELSE UNCHANGED notFull
  /\ UNCHANGED <<kind, running, notEmpty, latched, count, put, done, left, spurious>>

pool_take(w) == kind = "pool" /\ Take(w)
bounded_take(w) == kind = "bounded" /\ Take(w)
blocking_take(w) == kind = "blocking" /\ Take(w)

\* runInThread(): while (running_), read without the mutex; and the task itself, that
\* ends in the latch's countDown().
runInThread(w) ==
  /\ pc[w] = "loop"
  /\ pc' = [pc EXCEPT ![w] = IF running THEN "take" ELSE "exit"]
  /\ UNCHANGED <<kind, queue, running, notEmpty, notFull, latched, count, task, put, taken, done, left, spurious>>

countDown ==
  /\ count' = count - 1
  /\ IF count' = 0 THEN notifyAll(latched, latched') ELSE UNCHANGED latched

runTask(w) ==
  /\ pc[w] = "run"
  /\ done' = done \cup {task[w]} /\ task' = [task EXCEPT ![w] = 0]
  /\ countDown
  /\ pc' = [pc EXCEPT ![w] = "loop"]
  /\ UNCHANGED <<kind, queue, running, notEmpty, notFull, put, taken, left, spurious>>

\* CountDownLatch::wait() in the owner, which then stops the pool; or stop() at once.
latchWait ==
  /\ pc[Owner] \in {"go", "latch"} /\ Awake(Owner)
  /\ IF count > 0
     THEN latched' = latched \cup {Owner} /\ pc' = [pc EXCEPT ![Owner] = "latch"]
     ELSE pc' = [pc EXCEPT ![Owner] = "stop"] /\ UNCHANGED latched
  /\ UNCHANGED <<kind, queue, running, notEmpty, notFull, count, task, put, taken, done, left, spurious>>

stop ==
  /\ pc[Owner] \in {"go", "stop"} /\ kind = "pool"
  /\ running' = FALSE /\ notifyAll(notEmpty, notEmpty')
  /\ pc' = [pc EXCEPT ![Owner] = "join"]
  /\ UNCHANGED <<kind, queue, notFull, latched, count, task, put, taken, done, left, spurious>>

\* A queue that nobody closes: its owner has no more to do.
leave ==
  /\ pc[Owner] = "stop" /\ kind # "pool"
  /\ pc' = [pc EXCEPT ![Owner] = "joined"]
  /\ UNCHANGED <<kind, queue, running, notEmpty, notFull, latched, count, task, put, taken, done, left, spurious>>

join ==
  /\ pc[Owner] = "join" /\ \A w \in Workers : pc[w] = "exit"
  /\ pc' = [pc EXCEPT ![Owner] = "joined"]
  /\ UNCHANGED <<kind, queue, running, notEmpty, notFull, latched, count, task, put, taken, done, left, spurious>>

spuriousWakeup(t) ==
  /\ spurious < MaxSpurious /\ t \in notEmpty \cup notFull \cup latched
  /\ spurious' = spurious + 1
  /\ notEmpty' = notEmpty \ {t} /\ notFull' = notFull \ {t} /\ latched' = latched \ {t}
  /\ UNCHANGED <<kind, queue, running, pc, count, task, put, taken, done, left>>

ProducerStep(p) == waitFull(p) \/ pool_run(p) \/ bounded_put(p) \/ blocking_put(p)
WorkerStep(w) == waitEmpty(w) \/ pool_take(w) \/ bounded_take(w) \/ blocking_take(w)
                   \/ runInThread(w) \/ runTask(w)
PoolNext ==
  \/ \E p \in Producers : ProducerStep(p)
  \/ \E w \in Workers : WorkerStep(w)
  \/ latchWait \/ stop \/ leave \/ join
  \/ \E t \in Threads : spuriousWakeup(t)

\* Every thread that can run does; the owner's choice to stop early is not forced.
PoolFairness ==
  /\ \A p \in Producers : WF_poolVars(ProducerStep(p))
  /\ \A w \in Workers : WF_poolVars(WorkerStep(w))
  /\ WF_poolVars(latchWait) /\ WF_poolVars(join)

PoolSpec == PoolInit /\ [][PoolNext]_poolVars /\ PoolFairness

-----------------------------------------------------------------------------
\* Tasks are taken once each and in the order they were put, a queue with a bound never
\* holds more than that, and the latch opens only when every task has run.
InOrder ==
  /\ taken \o queue = put
  /\ TellsNotFull => Len(queue) <= maxQueueSize
  /\ pc[Owner] = "stop" => done = 1 .. Tasks

\* The calls of run() or put() that have returned: producer and number.
Returned == {x \in Producers \X (1 .. TasksEach) : x[2] <= TasksEach - left[x[1]]}

\* With it what makes it inductive: tasks are put under increasing numbers, one for each
\* call; a task that runs has been taken, has not run and runs on one worker; and the
\* latch has counted those that have run.
PoolInv ==
  /\ pc \in [Threads -> {"go", "woken", "loop", "take", "run", "exit", "latch", "stop", "join", "joined"}]
  /\ {queue, put, taken} \subseteq Seq(Nat)
  /\ task \in [Workers -> Nat] /\ left \in [Producers -> 0 .. TasksEach]
  /\ \A i \in 1 .. Len(put) : put[i] = i
  /\ Cardinality(Returned) = Len(put)
  /\ done \subseteq 1 .. Len(taken)
  /\ \A w \in Workers : pc[w] = "run" => task[w] \in (1 .. Len(taken)) \ done
  /\ \A v, w \in Workers : pc[v] = "run" /\ pc[w] = "run" /\ task[v] = task[w] => v = w
  /\ count = Tasks - Cardinality(done)

\* Tasks are taken once each, in the order they were put, and a bounded queue keeps to its
\* bound, whoever is woken, and whoever takes the place first (ThreadPool.cc:82).
TakenInOrder == InOrder /\ PoolInv

\* Every task has been put, taken and run, and the owner has got past the latch, unless
\* somebody has stopped the pool.
AllRun == ~running \/ (done = 1 .. Tasks /\ pc[Owner] \in {"stop", "joined"})

\* stop() waits for the workers; and has returned.
InStop == pc[Owner] = "join"
Stopped == pc[Owner] = "joined"
=============================================================================
