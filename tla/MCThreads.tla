----------------------------- MODULE MCThreads ------------------------------
(***************************************************************************)
(* The parts in which threads hand work to each other: the thread of a     *)
(* loop, the thread pool and the blocking queues, the asynchronous log,    *)
(* and the server with its I/O loops, in one state space: a behaviour is a *)
(* behaviour of one of them, `which', and the variables of the others keep *)
(* their first values.                                                     *)
(***************************************************************************)
EXTENDS EventLoopThread, ThreadPool, AsyncLogging, TcpServer

VARIABLE which

vars == <<which, threadVars, poolVars, logVars, serverVars>>

\* Of a choice that the others do not look at, one is enough.
Init ==
  /\ which \in {"loopthread", "pool", "logging", "server"}
  /\ ThreadInit /\ PoolInit /\ LogInit /\ ServerInit
  /\ which # "pool" => kind = CHOOSE k \in QueueKinds : TRUE
  /\ which # "server" => numThreads = CHOOSE n \in ThreadNums : TRUE

Next ==
  \/ which = "loopthread" /\ ThreadNext /\ UNCHANGED <<which, poolVars, logVars, serverVars>>
  \/ which = "pool" /\ PoolNext /\ UNCHANGED <<which, threadVars, logVars, serverVars>>
  \/ which = "logging" /\ LogNext /\ UNCHANGED <<which, threadVars, poolVars, serverVars>>
  \/ which = "server" /\ ServerNext /\ UNCHANGED <<which, threadVars, poolVars, logVars>>

(* Threads are scheduled and loops go round; poll() returns after          *)
(* kPollTimeMs, and the wait of the logging thread after flushInterval_,   *)
(* at the latest.  A turn of the base loop ends with its functors however  *)
(* often the listening socket is ready, which is strong fairness.  Nobody  *)
(* is obliged to call start, stop or a destructor.                         *)
Fairness ==
  /\ WF_threadVars(which = "loopthread" /\ Starting)
  /\ WF_threadVars(which = "loopthread" /\ Destructing)
  /\ WF_threadVars(which = "loopthread" /\ Child)
  /\ \A p \in Producers : WF_poolVars(which = "pool" /\ ProducerStep(p))
  /\ \A w \in Workers : WF_poolVars(which = "pool" /\ WorkerStep(w))
  /\ WF_poolVars(which = "pool" /\ (latchWait \/ join))
  /\ WF_logVars(which = "logging" /\ logging_threadFunc)
  /\ WF_serverVars(which = "server" /\ baseLoop)
  /\ SF_serverVars(which = "server" /\ runFunctor(Base))
  /\ \A l \in ThreadNums \ {Base} : WF_serverVars(which = "server" /\ l \in Loops /\ runFunctor(l))

Spec == Init /\ [][Next]_vars /\ Fairness

-----------------------------------------------------------------------------
\* LoopIsHandedOver, TakenInOrder, LogIsInOrder and DescriptorsAddUp are those of the modules.

\* startLoop() returns, and so does a destructor that finds the loop running.
StartAndStopReturn ==
  /\ InStartLoop ~> StartLoopReturned
  /\ DestructsRunningLoop ~> Destructed

\* No wakeup between put() and take() is lost: every task runs unless the pool is stopped,
\* and stop() returns, having woken every worker (ThreadPool.cc:58).
TasksRunAndStopReturns ==
  /\ <>(which = "pool" => AllRun)
  /\ InStop ~> Stopped

\* Until stop() is called a line that was appended comes to its file or is dropped: no line
\* is behind for ever, and one that has got there stays there.  The logging thread comes to
\* its end after stop(), which joins it, though notify() may be missed (AsyncLogging.h:44).
LineIsWritten ==
  /\ <>[](\A n \in 1 .. appended : InFile(n))
  /\ ~logging ~> logger = "end"

\* With all descriptors in use peers are refused, not left waiting (Acceptor.cc:90).
BacklogDrains == PeersWait ~> PeersServed
=============================================================================
