----------------------------- MODULE TimerQueue -----------------------------
(***************************************************************************)
(* muduo::net::TimerQueue: the timers of one EventLoop behind one timerfd  *)
(* (muduo/net/TimerQueue.cc, Timer.h).                                     *)
(*                                                                         *)
(* Timers are raw pointers, so memory is modelled: heap maps an address to *)
(* the Timer that lives there, or to Free, and a freed address may be      *)
(* handed out again by the next new.  Every operation reaches the queue    *)
(* through EventLoop::runInLoop; the loop is the FIFO executor of module   *)
(* SerialExecutor, which EventLoop implements.  The loop thread runs one   *)
(* functor or one handler at a time; while handleRead() runs the expired   *)
(* callbacks, those may call addTimer and cancel themselves.               *)
(*                                                                         *)
(* Time is counted in ticks of 100 microseconds, the least delay           *)
(* howMuchTimeFromNow() asks for; the wall clock and the monotonic clock   *)
(* of the timerfd advance together.                                        *)
(***************************************************************************)
EXTENDS Integers, Sequences, FiniteSets

CONSTANTS Threads,     \* threads other than the loop's own
          Addresses,   \* where new may place a Timer; a set of integers
          Delays,      \* ticks from now to the first expiration
          Intervals,   \* ticks between repetitions; 0 is a one-shot timer
          MaxTime,     \* bound: see Tick
          MaxCreated,  \* bound: timers created in a behaviour
          MaxPending   \* bound: functors waiting in the loop's queue

Free == [sequence |-> 0, expiration |-> 0, interval |-> 0]

VARIABLES
  now,               \* Timestamp::now(); 0 is Timestamp::invalid()
  heap,              \* the Timer objects
  numCreated,        \* Timer::s_numCreated_
  timers,            \* timers_: pairs <<expiration, address>>
  activeTimers,      \* activeTimers_: pairs <<address, sequence>>
  calling,           \* callingExpiredTimers_
  cancelingTimers,   \* cancelingTimers_
  batch,             \* the vector expired of handleRead()
  unrun,             \* the part of batch whose callbacks have still to run
  resetAt,           \* the variable now of handleRead()
  alarm,             \* when the timerfd becomes readable; 0 when disarmed
  pending,           \* the loop's queue: addTimerInLoop and cancelInLoop calls
  adding,            \* per thread: the Timer of an addTimer() not yet returned
  ids,               \* the TimerIds the program holds
  ran,               \* history: sequences of the timers that have run
  cancelled          \* history: sequences cancelInLoop found in the queue
                     \*   or in the batch being run

queueVars == <<heap, timers, activeTimers, alarm>>
batchVars == <<calling, cancelingTimers, batch, unrun, resetAt>>
userVars == <<pending, adding, ids>>
historyVars == <<ran, cancelled>>
vars == <<now, numCreated, queueVars, batchVars, userVars, historyVars>>

Max(a, b) == IF a > b THEN a ELSE b

TimerIds == Addresses \X (0..MaxCreated)

(* TimerList's order: by expiration, then by pointer. *)
Before(e, f) == e[1] < f[1] \/ (e[1] = f[1] /\ e[2] < f[2])
First(entries) == CHOOSE e \in entries : \A f \in entries \ {e} : Before(e, f)

Init ==
  /\ now = 1
  /\ heap = [a \in Addresses |-> Free]
  /\ numCreated = 0
  /\ timers = {} /\ activeTimers = {}
  /\ calling = FALSE
  /\ cancelingTimers = {}
  /\ batch = {} /\ unrun = {} /\ resetAt = 0
  /\ alarm = 0
  /\ pending = <<>>
  /\ adding = [t \in Threads |-> <<>>]
  /\ ids = {}
  /\ ran = {} /\ cancelled = {}

-----------------------------------------------------------------------------
(* The operations on the loop thread.                                      *)

(* howMuchTimeFromNow(), resetTimerfd(): at least 100 microseconds ahead. *)
AlarmFor(when) == Max(when, now + 1)

EarliestChanged_IfEmpty(when) == timers = {}
EarliestChanged(when) == timers = {} \/ when < First(timers)[1]

(* addTimerInLoop(), insert() *)
insertTimer(a, timer) ==
  /\ timers' = timers \cup {<<timer.expiration, a>>}
  /\ activeTimers' = activeTimers \cup {<<a, timer.sequence>>}
  /\ alarm' = IF EarliestChanged(timer.expiration)
              THEN AlarmFor(timer.expiration) ELSE alarm

FindActive_ByAddress(id) == {x \in activeTimers : x[1] = id[1]}
FindActive(id) == {x \in activeTimers : x = id}

DeletedBy_Always(id) == {id[1]}
DeletedBy(id) == {x[1] : x \in FindActive(id)}

NotesCancel_Never == FALSE
NotesCancel == calling

(* cancelInLoop(): a timer in the queue is deleted, one in the batch that  *)
(* is being run is only noted.                                             *)
cancelInLoop(id) ==
  LET found == DeletedBy(id)
  IN  /\ timers' = timers \ {<<heap[a].expiration, a>> : a \in found}
      /\ activeTimers' = activeTimers \ FindActive(id)
      /\ heap' = [a \in Addresses |-> IF a \in found THEN Free ELSE heap[a]]
      /\ cancelingTimers' = IF FindActive(id) = {} /\ NotesCancel
                            THEN cancelingTimers \cup {id}
                            ELSE cancelingTimers
      /\ cancelled' = cancelled \cup
           {id[2] : x \in {y \in activeTimers \cup
                                 {<<e[2], heap[e[2]].sequence>> : e \in batch} :
                             y = id}}

(* new Timer(cb, when, interval) at a free address. *)
newTimer(a, when, interval) ==
  /\ numCreated < MaxCreated /\ now < MaxTime
  /\ heap[a] = Free
  /\ numCreated' = numCreated + 1
  /\ heap' = [heap EXCEPT ![a] = [sequence |-> numCreated + 1,
                                  expiration |-> when,
                                  interval |-> interval]]

(* runAt with any time, the invalid one included; runAfter, runEvery. *)
Whens == {0} \cup {now + d : d \in Delays}

(* addTimer() on the loop's thread: runInLoop calls addTimerInLoop. *)
addTimerHere(a, when, interval) ==
  /\ newTimer(a, when, interval)
  /\ insertTimer(a, heap'[a])
  /\ ids' = ids \cup {<<a, heap'[a].sequence>>}
  /\ UNCHANGED <<now, batchVars, pending, adding, historyVars>>

(* cancel() on the loop's thread: runInLoop calls cancelInLoop. *)
cancelHere(id) ==
  /\ cancelInLoop(id)
  /\ UNCHANGED <<now, numCreated, alarm, calling, batch, unrun, resetAt,
                 userVars, ran>>

(* The loop runs the next queued addTimerInLoop or cancelInLoop. *)
runPending ==
  /\ ~calling
  /\ pending # <<>>
  /\ pending' = Tail(pending)
  /\ LET f == Head(pending)
     IN  \/ /\ f.op = "add"
            /\ insertTimer(f.id[1], heap[f.id[1]])
            /\ UNCHANGED <<heap, cancelingTimers, cancelled>>
         \/ /\ f.op = "cancel"
            /\ cancelInLoop(f.id)
            /\ UNCHANGED alarm
  /\ UNCHANGED <<now, numCreated, calling, batch, unrun, resetAt, adding, ids,
                 ran>>

(* getExpired(): everything before the sentry <<now, UINTPTR_MAX>>. *)
Expired == {e \in timers : e[1] <= now}

(* The loop over expired in handleRead(). *)
ToRun_ButFirst == {e \in Expired : e # First(Expired)}
ToRun == Expired

(* The timerfd is readable: handleRead() up to the first callback.  The    *)
(* read disarms the timerfd.                                               *)
handleRead ==
  /\ ~calling
  /\ alarm # 0 /\ alarm <= now
  /\ alarm' = 0
  /\ batch' = Expired /\ unrun' = ToRun
  /\ timers' = timers \ Expired
  /\ activeTimers' = activeTimers \
                       {<<e[2], heap[e[2]].sequence>> : e \in Expired}
  /\ calling' = TRUE
  /\ cancelingTimers' = {}
  /\ resetAt' = now
  /\ UNCHANGED <<now, heap, numCreated, userVars, historyVars>>

(* Timer::run() of the next expired timer; what its callback does are the  *)
(* steps addTimerHere and cancelHere.                                      *)
runTimer ==
  /\ calling
  /\ unrun # {}
  /\ unrun' = unrun \ {First(unrun)}
  /\ ran' = ran \cup {heap[First(unrun)[2]].sequence}
  /\ UNCHANGED <<now, numCreated, queueVars, calling, cancelingTimers, batch,
                 resetAt, userVars, cancelled>>

Repeats(a) == /\ heap[a].interval > 0
              /\ <<a, heap[a].sequence>> \notin cancelingTimers

(* Timer::restart() *)
Restarted(timer) == [timer EXCEPT !.expiration = resetAt + timer.interval]

(* insert() follows restart(): the key is the new expiration. *)
ReinsertedAt_Stale(a) == heap[a].expiration
ReinsertedAt(a) == Restarted(heap[a]).expiration

CallingAfter_Kept == TRUE
CallingAfter == FALSE

(* nextExpire.valid() *)
Rearms(entries) == entries # {} /\ First(entries)[1] > 0

(* The end of handleRead(): callingExpiredTimers_ = false and reset(). *)
reset ==
  LET again == {a \in {e[2] : e \in batch} : Repeats(a)}
      gone == {e[2] : e \in batch} \ again
  IN  /\ calling
      /\ unrun = {}
      /\ calling' = CallingAfter
      /\ heap' = [a \in Addresses |->
                    IF a \in again THEN Restarted(heap[a])
                    ELSE IF a \in gone THEN Free ELSE heap[a]]
      /\ timers' = timers \cup {<<ReinsertedAt(a), a>> : a \in again}
      /\ activeTimers' = activeTimers \cup
                           {<<a, heap[a].sequence>> : a \in again}
      /\ alarm' = IF Rearms(timers') THEN AlarmFor(First(timers')[1])
                  ELSE alarm
      /\ batch' = {} /\ resetAt' = 0
      /\ UNCHANGED <<now, numCreated, cancelingTimers, unrun, userVars,
                     historyVars>>

-----------------------------------------------------------------------------
(* The other threads.                                                      *)

(* addTimer() off the loop: new, then queueInLoop(addTimerInLoop) ...      *)
addTimer(t, a, when, interval) ==
  /\ adding[t] = <<>>
  /\ Len(pending) < MaxPending
  /\ newTimer(a, when, interval)
  /\ pending' = Append(pending, [op |-> "add", id |-> <<a, numCreated'>>])
  /\ adding' = [adding EXCEPT ![t] = <<a, numCreated'>>]
  /\ UNCHANGED <<now, timers, activeTimers, alarm, batchVars, ids,
                 historyVars>>

(* ... then timer->sequence(), which is undefined once the loop deleted    *)
(* the timer: the number of whatever lies there, or a leftover.            *)
addTimerReturns(t) ==
  /\ adding[t] # <<>>
  /\ LET a == adding[t][1]
     IN  \E seq \in IF heap[a].sequence = adding[t][2] THEN {adding[t][2]}
                    ELSE {heap[a].sequence} \cup {adding[t][2]} :
           ids' = ids \cup {<<a, seq>>}
  /\ adding' = [adding EXCEPT ![t] = <<>>]
  /\ UNCHANGED <<now, numCreated, queueVars, batchVars, pending, historyVars>>

(* cancel() off the loop: queueInLoop(cancelInLoop). *)
cancel(id) ==
  /\ Len(pending) < MaxPending
  /\ pending' = Append(pending, [op |-> "cancel", id |-> id])
  /\ UNCHANGED <<now, numCreated, queueVars, batchVars, adding, ids,
                 historyVars>>

(* Time passes; after MaxTime only as far as the alarm of a timer that was *)
(* due by then.                                                            *)
Tick ==
  /\ now < MaxTime \/ (now < alarm /\ \E e \in timers : e[1] <= MaxTime)
  /\ now' = now + 1
  /\ UNCHANGED <<numCreated, queueVars, batchVars, userVars, historyVars>>

-----------------------------------------------------------------------------
TimerHandler == handleRead \/ runTimer \/ reset

Next ==
  \/ TimerHandler
  \/ runPending
  \/ \E a \in Addresses, when \in Whens, i \in Intervals :
       \/ addTimerHere(a, when, i)
       \/ \E t \in Threads : addTimer(t, a, when, i)
  \/ \E t \in Threads : addTimerReturns(t)
  \/ \E id \in ids : cancelHere(id) \/ (Threads # {} /\ cancel(id))
  \/ Tick

Spec == Init /\ [][Next]_vars

(* Callbacks return, the loop handles the timerfd in every iteration in    *)
(* which it is readable, and time passes.                                  *)
FairSpec == Spec /\ WF_vars(TimerHandler) /\ WF_vars(Tick)

-----------------------------------------------------------------------------
(* Properties                                                              *)

SeqAt(e) == heap[e[2]].sequence
Queued == {SeqAt(e) : e \in timers}

TypeOK ==
  /\ now \in Nat
  /\ heap \in [Addresses -> [sequence : 0..MaxCreated, expiration : Nat,
                             interval : Intervals \cup {0}]]
  /\ numCreated \in 0..MaxCreated
  /\ timers \subseteq Nat \X Addresses
  /\ activeTimers \subseteq TimerIds
  /\ calling \in BOOLEAN /\ resetAt \in Nat
  /\ calling <=> resetAt # 0
  /\ cancelingTimers \subseteq TimerIds
  /\ batch \subseteq Nat \X Addresses /\ unrun \subseteq batch
  /\ alarm \in Nat
  /\ \A i \in DOMAIN pending : pending[i].id \in TimerIds
  /\ adding \in [Threads -> TimerIds \cup {<<>>}]
  /\ ids \subseteq TimerIds

(* The two indexes hold the same timers, and each key in them still is the *)
(* key of the Timer it points to, so that no timer is in them twice: every *)
(* erase in cancelInLoop() and getExpired() finds its element (their       *)
(* assert(n == 1)), and the sizes agree.                                   *)
IndexesAgree ==
  /\ activeTimers = {<<e[2], SeqAt(e)>> : e \in timers}
  /\ \A e \in timers : heap[e[2]].expiration = e[1]

(* The timers of queued addTimerInLoop() calls, and that none is queued    *)
(* twice.                                                                  *)
Adds(queue) == {queue[i].id : i \in {j \in DOMAIN queue : queue[j].op = "add"}}
AddsOnce(queue) ==
  \A i, j \in DOMAIN queue :
    queue[i].op = "add" /\ queue[j].op = "add" /\ queue[i].id = queue[j].id => i = j

(* The addresses in an index, and those on their way to one.              *)
At(entries) == {e[2] : e \in entries}
Arriving == {id[1] : id \in Adds(pending)}

(* No pointer the queue will follow dangles: the timers in timers_, in the *)
(* batch and in a queued addTimerInLoop are alive, and each Timer that is  *)
(* alive is owned by exactly one of the three, so it is deleted once.      *)
NoDanglingTimer ==
  /\ At(timers) \cup At(batch) \cup Arriving = {a \in Addresses : heap[a] # Free}
  /\ At(timers) \cap At(batch) = {}
  /\ (At(timers) \cup At(batch)) \cap Arriving = {}
  /\ \A e \in batch : heap[e[2]].expiration = e[1]
  /\ \A id \in Adds(pending) : heap[id[1]].sequence = id[2]
  /\ AddsOnce(pending)

(* While timers wait and no callback is running, the timerfd is armed, and *)
(* no later than the earliest of them (or the least delay) asks for:       *)
(* addTimerInLoop() and reset() never leave a timer without an alarm.      *)
AlarmSet ==
  (timers # {} /\ ~calling) =>
     alarm # 0 /\ alarm <= Max(First(timers)[1], now + 1)

(* A timer cancelled while it waited, or while its own batch was being     *)
(* run, is never put back and runs in no later batch; the cancellation of  *)
(* one timer never hits another that reuses its address.                   *)
CancelledIsGone == cancelled \cap Queued = {}

(* The queue as handleRead() and cancelInLoop() rely on it: the indexes    *)
(* agree, no pointer in them dangles, and a timer that was cancelled is    *)
(* not put back, even by its own batch (TimerQueue.cc:172, :237).          *)
IndexesAreSound == IndexesAgree /\ NoDanglingTimer /\ CancelledIsGone

(* And as its callers do: what is in it will be looked at, the timerfd     *)
(* being set for the first timer (TimerQueue.cc:254).                      *)
TimersAreSound == IndexesAreSound /\ AlarmSet

(* What makes that inductive: the numbers of the living Timers are         *)
(* distinct and were given out; a timer that was cancelled is dead, or in  *)
(* the batch being run and noted in cancelingTimers_.                      *)
NumbersAreUnique ==
  /\ \A a \in Addresses : heap[a].sequence <= numCreated /\ (heap[a] = Free <=> heap[a].sequence = 0)
  /\ \A a, b \in Addresses : heap[a].sequence = heap[b].sequence /\ heap[a] # Free => a = b
CancelledIsNoted ==
  \A a \in Addresses :
    heap[a].sequence \in cancelled /\ heap[a] # Free =>
      /\ a \in At(batch)
      /\ <<a, heap[a].sequence>> \in cancelingTimers
QueueInv ==
  /\ IndexesAreSound /\ NumbersAreUnique /\ CancelledIsNoted
  /\ cancelled \subseteq 0..numCreated
  /\ batch # {} => calling

(* The inductive form of AlarmSet.  reset() leaves the timerfd alone when  *)
(* the first expiration is invalid (0): such a timer was added by a        *)
(* callback of the batch, and armed the timerfd itself.                    *)
AlarmInv ==
  (timers # {} /\ (~calling \/ First(timers)[1] = 0)) =>
     alarm # 0 /\ alarm <= Max(First(timers)[1], now + 1)

(* A cancel removes only the timer it names: what else waited before the   *)
(* step still waits after it (handleRead moves the due ones to the batch). *)
OnlyNamedTimerCancelled ==
  [][\A s \in Queued : (s \notin Queued' /\ s \notin cancelled')
                          => (~calling /\ calling')]_vars

(* Every timer that reaches the queue runs unless it is cancelled, however *)
(* the adds, cancels and batches interleave.                               *)
TimerRunsOrIsCancelled ==
  \A s \in 1..MaxCreated :
    (\E e \in timers : e[1] <= MaxTime /\ SeqAt(e) = s)
       ~> (s \in ran \cup cancelled)

(* addTimer() may be called from any thread: the Timer it reads its        *)
(* sequence number from is still alive.                                    *)
AddedTimerIsAlive ==
  \A t \in Threads :
    adding[t] # <<>> => heap[adding[t][1]].sequence = adding[t][2]
=============================================================================
