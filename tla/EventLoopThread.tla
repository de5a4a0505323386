--------------------------- MODULE EventLoopThread ---------------------------
(***************************************************************************)
(* muduo::net::EventLoopThread: a thread that runs one EventLoop on its    *)
(* stack (muduo/net/EventLoopThread.cc), with the two handshakes of its    *)
(* start (Thread::start and its latch, startLoop and its condition) and    *)
(* the destructor that stops and joins it.                                 *)
(*                                                                         *)
(* Two actors: the owner, who constructs, starts, uses and destroys the    *)
(* object, and the child thread.  Of the loop itself, which module         *)
(* EventLoop models, quit_, the eventfd and a queued functor that calls    *)
(* quit() are kept.                                                        *)
(***************************************************************************)
EXTENDS Naturals

CONSTANT InitQuits   \* the thread init callback may queue a quit() itself
ASSUME LoopAssumption == InitQuits \in BOOLEAN

VARIABLES
  owner,       \* where the owner is
  child,       \* where the child thread is
  tid,         \* thread_.tid_ has been set
  latch,       \* count of thread_.latch_
  loop,        \* loop_ != NULL
  returned,    \* what startLoop() returned was not NULL
  alive,       \* the EventLoop on the child's stack exists
  quit,        \* its quit_
  wakeups,     \* the counter of its eventfd
  quitQueued,  \* a functor that calls quit() waits in its queue
  stopping,    \* history: such a functor has been queued
  notified     \* cond_ has been notified while the owner waited

handshake == <<tid, latch, loop, returned, notified>>
loopVars == <<alive, quit, wakeups, quitQueued, stopping>>
threadVars == <<owner, child, handshake, loopVars>>

ThreadInit ==
  /\ owner = "new"
  /\ child = "none"
  /\ tid = FALSE
  /\ latch = 1
  /\ loop = FALSE
  /\ returned = FALSE
  /\ alive = FALSE
  /\ quit = FALSE
  /\ wakeups = 0
  /\ quitQueued = FALSE
  /\ stopping = FALSE
  /\ notified = FALSE

-----------------------------------------------------------------------------
(* The owner.                                                              *)

(* startLoop() calls Thread::start(): pthread_create ... *)
thread_start ==
  /\ owner = "new"
  /\ owner' = "latch"
  /\ child' = "created"
  /\ UNCHANGED <<handshake, loopVars>>

StartWaits == latch = 0

(* ... and latch_.wait(). *)
thread_latchWait ==
  /\ owner = "latch"
  /\ StartWaits
  /\ owner' = "wait"
  /\ UNCHANGED <<child, handshake, loopVars>>

LoopSeen_Unchecked == TRUE
LoopSeen == loop

(* while (loop_ == NULL) cond_.wait(), under mutex_ *)
startLoopWaits ==
  /\ owner = "wait"
  /\ owner' = IF LoopSeen THEN "return" ELSE "blocked"
  /\ notified' = FALSE
  /\ UNCHANGED <<child, tid, latch, loop, returned, loopVars>>

startLoopWakes ==
  /\ owner = "blocked"
  /\ notified
  /\ owner' = "wait"
  /\ UNCHANGED <<child, handshake, loopVars>>

(* return loop_, read again after the unlock. *)
startLoopReturns ==
  /\ owner = "return"
  /\ owner' = "running"
  /\ returned' = loop
  /\ UNCHANGED <<child, tid, latch, loop, notified, loopVars>>

(* The owner hands the loop a functor that calls quit(). *)
runInLoopQuit ==
  /\ owner = "running"
  /\ returned /\ alive
  /\ ~stopping
  /\ stopping' = TRUE
  /\ quitQueued' = TRUE
  /\ wakeups' = wakeups + 1
  /\ UNCHANGED <<owner, child, handshake, alive, quit>>

(* ~EventLoopThread(): if (loop_ != NULL) ... *)
destruct ==
  /\ owner \in {"new", "running"}
  /\ owner' = IF loop THEN "quit" ELSE "destroyed"
  /\ UNCHANGED <<child, handshake, loopVars>>

(* ... loop_->quit(): quit_ = true, then wakeup().  Both are undefined     *)
(* when the loop is gone; here they change nothing then.                   *)
QuitSet_Forgotten == quit
QuitSet == quit \/ alive

destructQuits ==
  /\ owner = "quit"
  /\ owner' = "wakeup"
  /\ quit' = QuitSet
  /\ UNCHANGED <<child, handshake, alive, wakeups, quitQueued, stopping>>

destructWakes ==
  /\ owner = "wakeup"
  /\ owner' = "join"
  /\ wakeups' = IF alive THEN wakeups + 1 ELSE wakeups
  /\ UNCHANGED <<child, handshake, alive, quit, quitQueued, stopping>>

Joined_Never == TRUE
Joined == child = "done"

(* ... thread_.join() *)
destructJoins ==
  /\ owner = "join"
  /\ Joined
  /\ owner' = "destroyed"
  /\ UNCHANGED <<child, handshake, loopVars>>

-----------------------------------------------------------------------------
(* The child thread.                                                       *)

Counted_Kept == latch
Counted == latch - 1

(* ThreadData::runInThread(): *tid_ = ..., then latch_->countDown() *)
thread_runInThread ==
  \/ /\ child = "created"
     /\ child' = "counting"
     /\ tid' = TRUE
     /\ UNCHANGED <<owner, latch, loop, returned, notified, loopVars>>
  \/ /\ child = "counting"
     /\ child' = "func"
     /\ latch' = Counted
     /\ UNCHANGED <<owner, tid, loop, returned, notified, loopVars>>

(* threadFunc(): EventLoop loop; callback_(&loop) *)
threadFunc ==
  /\ child = "func"
  /\ child' = "publish"
  /\ alive' = TRUE
  /\ quitQueued' \in {FALSE, InitQuits}
  /\ stopping' = quitQueued'
  /\ UNCHANGED <<owner, handshake, quit, wakeups>>

Notifies_Never == FALSE
Notifies == owner = "blocked"

(* loop_ = &loop; cond_.notify(), under mutex_ *)
publishLoop ==
  /\ child = "publish"
  /\ child' = "enter"
  /\ loop' = TRUE
  /\ notified' = Notifies
  /\ UNCHANGED <<owner, tid, latch, returned, loopVars>>

(* EventLoop::loop(): quit_ = false *)
enterLoop ==
  /\ child = "enter"
  /\ child' = "check"
  /\ quit' = FALSE
  /\ UNCHANGED <<owner, handshake, alive, wakeups, quitQueued, stopping>>

whileNotQuit ==
  /\ child = "check"
  /\ child' = IF quit THEN "exited" ELSE "poll"
  /\ UNCHANGED <<owner, handshake, loopVars>>

(* One iteration: poll() returns, on the eventfd or after kPollTimeMs, and *)
(* doPendingFunctors() runs what is queued.                                *)
iterate ==
  /\ child = "poll"
  /\ child' = "check"
  /\ wakeups' = 0
  /\ quit' = (quit \/ quitQueued)
  /\ quitQueued' = FALSE
  /\ UNCHANGED <<owner, handshake, alive, stopping>>

(* loop_ = NULL, the last access to the EventLoopThread ... *)
clearLoop ==
  /\ child = "exited"
  /\ child' = "cleared"
  /\ loop' = FALSE
  /\ UNCHANGED <<owner, tid, latch, returned, notified, loopVars>>

(* ... and ~EventLoop() as threadFunc() returns. *)
threadFuncReturns ==
  /\ child = "cleared"
  /\ child' = "done"
  /\ alive' = FALSE
  /\ UNCHANGED <<owner, handshake, quit, wakeups, quitQueued, stopping>>

-----------------------------------------------------------------------------
Starting == thread_latchWait \/ startLoopWaits \/ startLoopWakes \/ startLoopReturns
Destructing == destructQuits \/ destructWakes \/ destructJoins
Child == \/ thread_runInThread \/ threadFunc \/ publishLoop \/ enterLoop
         \/ whileNotQuit \/ iterate \/ clearLoop \/ threadFuncReturns

ThreadNext == thread_start \/ Starting \/ runInLoopQuit \/ destruct \/ Destructing \/ Child

ThreadSpec == ThreadInit /\ [][ThreadNext]_threadVars

(* Both threads are scheduled; poll() returns after kPollTimeMs at the     *)
(* latest.  Nobody is obliged to call startLoop() or to destruct.          *)
FairSpec == ThreadSpec /\ WF_threadVars(Starting) /\ WF_threadVars(Destructing) /\ WF_threadVars(Child)

-----------------------------------------------------------------------------
(* Properties                                                              *)

TypeOK ==
  /\ owner \in {"new", "latch", "wait", "blocked", "return", "running",
                "quit", "wakeup", "join", "destroyed"}
  /\ child \in {"none", "created", "counting", "func", "publish", "enter",
                "check", "poll", "exited", "cleared", "done"}
  /\ latch = IF child \in {"none", "created", "counting"} THEN 1 ELSE 0
  /\ wakeups \in 0..2
  /\ {tid, loop, returned, alive, quit, quitQueued, stopping, notified}
       \subseteq BOOLEAN

(* startLoop() returns the address of a constructed EventLoop, which stays *)
(* valid for the owner as long as nobody has stopped the loop.             *)
ReturnedLoopIsAlive == (owner \in {"running", "quit"} /\ ~stopping)
                          => (owner = "running" => returned) /\ alive

(* The child thread does not touch loop_ (or mutex_, cond_, callback_) of  *)
(* an EventLoopThread whose destructor has returned, whether that joined   *)
(* the thread or found loop_ already NULL.                                 *)
NoUseAfterDestruct ==
  owner = "destroyed" => child \in {"none", "cleared", "done"}

(* With them what makes both inductive: where the child is when the owner  *)
(* is somewhere, that loop_ is set while the loop runs and the loop exists *)
(* from before until after that, and that a loop which nobody has stopped  *)
(* goes on.                                                                *)
HandoverInv ==
  /\ child = "none" => owner \in {"new", "destroyed"}
  /\ owner = "new" => child = "none"
  /\ owner \in {"wait", "blocked"} => child \notin {"created", "counting"}
  /\ owner \in {"return", "running", "quit", "wakeup", "join"}
       => child \in {"enter", "check", "poll", "exited", "cleared", "done"}
  /\ loop <=> child \in {"enter", "check", "poll", "exited"}
  /\ alive <=> child \in {"publish", "enter", "check", "poll", "exited", "cleared"}
  /\ quitQueued => stopping
  /\ child \in {"none", "created", "counting", "func"} => ~stopping
  /\ quit \/ child \in {"exited", "cleared", "done"}
       => stopping \/ owner \in {"wakeup", "join", "destroyed"}
  /\ owner = "running" /\ ~returned => stopping

(* The eventfd is written once for the functor and once by the destructor. *)
WakeupInv ==
  wakeups <= (IF stopping THEN 1 ELSE 0) + (IF owner \in {"join", "destroyed"} THEN 1 ELSE 0)

(* The loop that startLoop() returns is alive until somebody stops it, and *)
(* the child does not touch an EventLoopThread that has been destructed    *)
(* (EventLoopThread.cc:33).                                                *)
LoopIsHandedOver == TypeOK /\ ReturnedLoopIsAlive /\ NoUseAfterDestruct /\ HandoverInv /\ WakeupInv

(* The owner is in startLoop(); and has come out of it, woken up by the    *)
(* latch and the condition, or the init callback has stopped the loop      *)
(* meanwhile.                                                              *)
InStartLoop == owner = "latch"
StartLoopReturned == owner = "running" \/ stopping

(* The destructor has begun while the child is inside loop(); and is over. *)
DestructsRunningLoop == owner = "quit" /\ child \in {"check", "poll"}
Destructed == owner = "destroyed"

(* The destructor stops the loop and returns, whenever it runs. *)
DestructorReturns == (owner = "quit") ~> (owner = "destroyed")
=============================================================================
