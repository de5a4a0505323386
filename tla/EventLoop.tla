------------------------------ MODULE EventLoop ------------------------------
(***************************************************************************)
(* muduo::net::EventLoop: one thread that polls, dispatches the active     *)
(* channels and then runs the functors other threads handed to it          *)
(* (muduo/net/EventLoop.cc).  The loop thread is a program counter, every  *)
(* other thread is idle or between its update (push_back, quit_ = true)    *)
(* and the wakeup() that follows it.                                       *)
(*                                                                         *)
(* looping_ and eventHandling_ are read by assertions on the loop thread   *)
(* only, and are the program counter.  The critical sections of mutex_     *)
(* (push_back, swap) are single steps.  User callbacks are the steps the   *)
(* loop thread may take while InCallback.                                  *)
(***************************************************************************)
EXTENDS Naturals, Sequences, Functions

CONSTANTS Threads,    \* the threads other than the loop's own
          Functors,   \* the callbacks; each is handed over at most once
          Channels,   \* I/O channels registered with the poller
          MaxQuits    \* bound: calls of quit() in a behaviour

ASSUME QuitBound == MaxQuits \in Nat

VARIABLES
  pc,               \* where the loop thread is
  quit,             \* quit_
  calling,          \* callingPendingFunctors_
  pendingFunctors,  \* pendingFunctors_, guarded by mutex_
  functors,         \* the batch doPendingFunctors() has still to run
  wakeupFd,         \* counter of the eventfd
  activeChannels,   \* I/O channels of activeChannels_ still to be handled
  wakeupActive,     \* wakeupChannel_ is in activeChannels_, still to be handled
  ready,            \* I/O channels the kernel holds events for
  waking,           \* threads about to call wakeup()
  ran,              \* history: functors in the order they ran
  early,            \* history: functors the loop thread queued before loop()
  quits             \* calls of quit() so far

loopVars == <<pc, quit, calling, pendingFunctors, functors>>
pollVars == <<wakeupFd, activeChannels, wakeupActive, ready>>
vars == <<loopVars, pollVars, waking, ran, early, quits>>

PCs == {"start", "check", "poll", "events", "handler", "functors", "functor",
        "exited"}

Handed == Range(pendingFunctors) \cup Range(functors) \cup Range(ran)

(* The constructor: eventfd counter 0, wakeupChannel_ enabled for reading. *)
Init ==
  /\ pc = "start"
  /\ quit = FALSE
  /\ calling = FALSE
  /\ pendingFunctors = <<>>
  /\ functors = <<>>
  /\ wakeupFd = 0
  /\ activeChannels = {}
  /\ wakeupActive = FALSE
  /\ ready = {}
  /\ waking = {}
  /\ ran = <<>>
  /\ early = {}
  /\ quits = 0

-----------------------------------------------------------------------------
(* The loop thread.                                                        *)

loop ==
  /\ pc = "start"
  /\ pc' = "check"
  /\ quit' = FALSE
  /\ UNCHANGED <<calling, pendingFunctors, functors, pollVars, waking, ran,
                 early, quits>>

(* while (!quit_): enter poll() or return from loop(). *)
whileNotQuit ==
  /\ pc = "check"
  /\ pc' = IF quit THEN "exited" ELSE "poll"
  /\ UNCHANGED <<quit, calling, pendingFunctors, functors, pollVars, waking,
                 ran, early, quits>>

(* poll() returns some of the channels that have events; it blocks while   *)
(* there is none.                                                          *)
pollReturns ==
  /\ pc = "poll"
  /\ activeChannels' \in SUBSET ready
  /\ wakeupActive' \in BOOLEAN
  /\ wakeupActive' => wakeupFd > 0
  /\ activeChannels' # {} \/ wakeupActive'
  /\ pc' = "events"
  /\ UNCHANGED <<quit, calling, pendingFunctors, functors, wakeupFd, ready,
                 waking, ran, early, quits>>

(* poll() gives up after kPollTimeMs without an event. *)
pollTimesOut ==
  /\ pc = "poll"
  /\ ready = {} /\ wakeupFd = 0
  /\ pc' = "events"
  /\ UNCHANGED <<quit, calling, pendingFunctors, functors, pollVars, waking,
                 ran, early, quits>>

(* wakeupChannel_'s read callback: one read resets the eventfd. *)
handleRead ==
  /\ pc = "events"
  /\ wakeupActive
  /\ wakeupActive' = FALSE
  /\ wakeupFd' = 0
  /\ UNCHANGED <<loopVars, activeChannels, ready, waking, ran, early, quits>>

(* handleEvent() of an I/O channel enters a user callback, which consumes   *)
(* the event or leaves some of it (level trigger) ...                      *)
handleEvent(c) ==
  /\ pc = "events"
  /\ c \in activeChannels
  /\ activeChannels' = activeChannels \ {c}
  /\ ready' \in {ready, ready \ {c}}
  /\ pc' = "handler"
  /\ UNCHANGED <<quit, calling, pendingFunctors, functors, wakeupFd,
                 wakeupActive, waking, ran, early, quits>>

(* ... which returns. *)
handlerReturns ==
  /\ pc = "handler"
  /\ pc' = "events"
  /\ UNCHANGED <<quit, calling, pendingFunctors, functors, pollVars, waking,
                 ran, early, quits>>

(* functors.swap(pendingFunctors_): the batch, and what is left behind. *)
Batch_Reversed ==
  [i \in DOMAIN pendingFunctors |->
     pendingFunctors[Len(pendingFunctors) + 1 - i]]
Batch == pendingFunctors

LeftBehind == <<>>

(* All active channels handled: doPendingFunctors() takes the batch. *)
doPendingFunctors ==
  /\ pc = "events"
  /\ activeChannels = {} /\ ~wakeupActive
  /\ pc' = "functors"
  /\ calling' = TRUE
  /\ functors' = Batch
  /\ pendingFunctors' = LeftBehind
  /\ UNCHANGED <<quit, pollVars, waking, ran, early, quits>>

runFunctor ==
  /\ pc = "functors"
  /\ functors # <<>>
  /\ ran' = Append(ran, Head(functors))
  /\ functors' = Tail(functors)
  /\ pc' = "functor"
  /\ UNCHANGED <<quit, calling, pendingFunctors, pollVars, waking, early,
                 quits>>

functorReturns ==
  /\ pc = "functor"
  /\ pc' = "functors"
  /\ UNCHANGED <<quit, calling, pendingFunctors, functors, pollVars, waking,
                 ran, early, quits>>

CallingAfter_Kept == calling
CallingAfter == FALSE

donePendingFunctors ==
  /\ pc = "functors"
  /\ functors = <<>>
  /\ calling' = CallingAfter
  /\ pc' = "check"
  /\ UNCHANGED <<quit, pendingFunctors, functors, pollVars, waking, ran,
                 early, quits>>

-----------------------------------------------------------------------------
(* What user code does on the loop thread: in an event callback, in a      *)
(* functor, or before it calls loop().                                     *)

InCallback == pc \in {"start", "handler", "functor"}

(* queueInLoop() on the loop thread wakes the loop only while it runs      *)
(* functors: !isInLoopThread() || callingPendingFunctors_.                 *)
WakesItself_Never == FALSE
WakesItself == calling

queueInLoopHere(f) ==
  /\ InCallback
  /\ f \notin Handed
  /\ pendingFunctors' = Append(pendingFunctors, f)
  /\ wakeupFd' = IF WakesItself THEN wakeupFd + 1 ELSE wakeupFd
  /\ early' = IF pc = "start" THEN early \cup {f} ELSE early
  /\ UNCHANGED <<pc, quit, calling, functors, activeChannels, wakeupActive,
                 ready, waking, ran, quits>>

(* runInLoop() on the loop thread calls the functor; what the functor does *)
(* in turn are further steps of the callback.                              *)
runInLoopHere(f) ==
  /\ InCallback
  /\ f \notin Handed
  /\ ran' = Append(ran, f)
  /\ UNCHANGED <<loopVars, pollVars, waking, early, quits>>

quitHere ==
  /\ InCallback
  /\ quits < MaxQuits
  /\ quits' = quits + 1
  /\ quit' = TRUE
  /\ UNCHANGED <<pc, calling, pendingFunctors, functors, pollVars, waking,
                 ran, early>>

-----------------------------------------------------------------------------
(* The other threads and the kernel.                                       *)

(* queueInLoop(), and runInLoop() which comes to the same: push_back under *)
(* mutex_, then wakeup() as a step of its own.                             *)
queueInLoop(t, f) ==
  /\ t \notin waking
  /\ f \notin Handed
  /\ pendingFunctors' = Append(pendingFunctors, f)
  /\ waking' = waking \cup {t}
  /\ UNCHANGED <<pc, quit, calling, functors, pollVars, ran, early, quits>>

WakingAfterQuit_Forgotten(t) == waking
WakingAfterQuit(t) == waking \cup {t}

quitFromThread(t) ==
  /\ t \notin waking
  /\ quits < MaxQuits
  /\ quits' = quits + 1
  /\ quit' = TRUE
  /\ waking' = WakingAfterQuit(t)
  /\ UNCHANGED <<pc, calling, pendingFunctors, functors, pollVars, ran, early>>

wakeup(t) ==
  /\ t \in waking
  /\ waking' = waking \ {t}
  /\ wakeupFd' = wakeupFd + 1
  /\ UNCHANGED <<loopVars, activeChannels, wakeupActive, ready, ran, early,
                 quits>>

(* The kernel: a channel has an event. *)
eventArrives(c) ==
  /\ c \notin ready
  /\ ready' = ready \cup {c}
  /\ UNCHANGED <<loopVars, wakeupFd, activeChannels, wakeupActive, waking, ran,
                 early, quits>>

-----------------------------------------------------------------------------
LoopStep ==
  \/ loop \/ whileNotQuit
  \/ pollReturns
  \/ handleRead \/ (\E c \in Channels : handleEvent(c)) \/ handlerReturns
  \/ doPendingFunctors \/ runFunctor \/ functorReturns \/ donePendingFunctors

Callback ==
  \/ \E f \in Functors : queueInLoopHere(f) \/ runInLoopHere(f)
  \/ quitHere

OtherThreads ==
  \E t \in Threads :
    \/ \E f \in Functors : queueInLoop(t, f)
    \/ quitFromThread(t)
    \/ wakeup(t)

Next ==
  \/ LoopStep
  \/ pollTimesOut
  \/ Callback
  \/ OtherThreads
  \/ \E c \in Channels : eventArrives(c)

Spec == Init /\ [][Next]_vars

(* The loop thread is scheduled and its callbacks return; a thread that    *)
(* has begun a queueInLoop() or quit() gets to the wakeup() at its end.    *)
Fairness ==
  /\ WF_vars(LoopStep)
  /\ \A t \in Threads : WF_vars(wakeup(t))

FairSpec == Spec /\ Fairness

-----------------------------------------------------------------------------
(* Every variable keeps its type, and callingPendingFunctors_ is set       *)
(* exactly while doPendingFunctors() runs its batch.                       *)
TypeOK ==
  /\ pc \in PCs
  /\ quit \in BOOLEAN
  /\ calling \in BOOLEAN
  /\ pendingFunctors \in Seq(Functors)
  /\ functors \in Seq(Functors)
  /\ wakeupFd \in Nat
  /\ activeChannels \in SUBSET Channels
  /\ wakeupActive \in BOOLEAN
  /\ ready \in SUBSET Channels
  /\ waking \in SUBSET Threads
  /\ ran \in Seq(Functors)
  /\ early \in SUBSET Functors
  /\ quits \in 0..MaxQuits
  /\ calling <=> pc \in {"functors", "functor"}
  /\ functors # <<>> => calling

(* The poll that is under way, or the next one, will return: the eventfd   *)
(* is non-zero or a thread is about to write it.                           *)
WillWake == wakeupFd > 0 \/ waking # {}

(* No lost wakeup: while the loop thread is blocked in poll(), a functor   *)
(* in pendingFunctors_ implies that the eventfd is set or about to be      *)
(* (EventLoop::queueInLoop).  The only functors that can sit there without *)
(* one are those the loop thread itself queued before it called loop().    *)
NoLostWakeup ==
  pc = "poll" /\ ~(Range(pendingFunctors) \subseteq early) => WillWake

(* A quit() by another thread is seen: the loop is never blocked in poll() *)
(* with quit_ set and nobody to wake it (EventLoop::quit).                 *)
NoLostQuit == pc = "poll" /\ quit => WillWake

(* A functor another thread or a callback queued is run, without waiting   *)
(* for the poll to time out, unless the loop exits first.                  *)
QueuedFunctorRuns ==
  \A f \in Functors :
    f \in Range(pendingFunctors) /\ f \notin early
      ~> (f \in Range(ran) \/ pc = "exited")

(* quit() called while loop() is running makes loop() return. *)
QuitEndsLoop == (quit /\ pc # "start") ~> pc = "exited"

(* The loop is a serial executor: pendingFunctors_ behind the batch that   *)
(* is being run is one FIFO queue, and no functor runs twice.              *)
Executor == INSTANCE SerialExecutor
              WITH queue <- functors \o pendingFunctors,
                   stopped <- (pc = "exited")

ImplementsExecutor == Executor!Spec
=============================================================================
