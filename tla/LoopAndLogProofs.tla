------------------------ MODULE LoopAndLogProofs -------------------------
(***************************************************************************)
(* Proofs about the two threads of muduo that every other thread hands     *)
(* work to: the thread of an EventLoop, which is queued functors, and the  *)
(* logging thread, which is given buffers of lines.                        *)
(*                                                                         *)
(* EventLoop, for any sets of threads, functors and channels: types, no    *)
(* lost wakeup, no lost quit, and that the loop implements SerialExecutor. *)
(***************************************************************************)
EXTENDS EventLoop, AsyncLogging, TLAPS

(* The provers of each step that names none, in this order. *)
USE SMTT(60), Z3T(60), ZenonT(60)


(* Pushing a functor adds it, and nothing else, to what a queue holds.     *)
LEMMA RangeAppend ==
  ASSUME NEW S, NEW s \in Seq(S), NEW e \in S
  PROVE  Range(Append(s, e)) = Range(s) \cup {e}
  <1>1. Append(s, e) \in Seq(S) /\ Len(Append(s, e)) = Len(s) + 1
    OBVIOUS
  <1>2. \A i \in 1..Len(s) : Append(s, e)[i] = s[i]
    OBVIOUS
  <1>3. Append(s, e)[Len(s) + 1] = e
    OBVIOUS
  <1>4. DOMAIN Append(s, e) = DOMAIN s \cup {Len(s) + 1}
    BY <1>1
  <1>5. QED
    BY <1>1, <1>2, <1>3, <1>4 DEF Range

-----------------------------------------------------------------------------
(* Type correctness: every action of the loop thread and of its callers    *)
(* keeps the types, and callingPendingFunctors_ tells exactly whether a    *)
(* batch is being run.                                                     *)
THEOREM TypeCorrect == Spec => []TypeOK
  <1> USE QuitBound DEF TypeOK, PCs
  <1>1. Init => TypeOK
    <2> SUFFICES ASSUME Init PROVE TypeOK
      OBVIOUS
    <2>1. ~calling /\ pc = "start" /\ functors = <<>>
      BY DEF Init
    <2>2. calling <=> pc \in {"functors", "functor"}
      BY <2>1
    <2>3. quit \in BOOLEAN /\ calling \in BOOLEAN /\ wakeupActive \in BOOLEAN
      BY ZenonT(60) DEF Init
    <2>4. QED
      BY <2>1, <2>2, <2>3 DEF Init
  <1>2. TypeOK /\ [Next]_vars => TypeOK'
    <2> SUFFICES ASSUME TypeOK, [Next]_vars PROVE TypeOK'
      OBVIOUS
    <2> USE DEF loopVars, pollVars
    <2>1. CASE loop  BY Zenon, <2>1 DEF loop
    <2>2. CASE whileNotQuit  BY <2>2 DEF whileNotQuit
    <2>3. CASE pollReturns  BY <2>3 DEF pollReturns
    <2>4. CASE pollTimesOut  BY <2>4 DEF pollTimesOut
    <2>5. CASE handleRead  BY Zenon, <2>5 DEF handleRead
    <2>6. ASSUME NEW c \in Channels, handleEvent(c)
          PROVE  TypeOK'
      BY <2>6 DEF handleEvent
    <2>7. CASE handlerReturns  BY <2>7 DEF handlerReturns
    <2>8. CASE doPendingFunctors
      BY <2>8 DEF doPendingFunctors, Batch, LeftBehind
    <2>9. CASE runFunctor  BY <2>9 DEF runFunctor
    <2>10. CASE functorReturns  BY <2>10 DEF functorReturns
    <2>11. CASE donePendingFunctors
      BY Zenon, <2>11 DEF donePendingFunctors, CallingAfter
    <2>12. ASSUME NEW f \in Functors, queueInLoopHere(f)
           PROVE  TypeOK'
      BY <2>12 DEF queueInLoopHere, WakesItself
    <2>13. ASSUME NEW f \in Functors, runInLoopHere(f)
           PROVE  TypeOK'
      BY <2>13 DEF runInLoopHere
    <2>14. CASE quitHere  BY <2>14 DEF quitHere
    <2>15. ASSUME NEW t \in Threads, NEW f \in Functors, queueInLoop(t, f)
           PROVE  TypeOK'
      BY <2>15 DEF queueInLoop
    <2>16. ASSUME NEW t \in Threads, quitFromThread(t)
           PROVE  TypeOK'
      BY <2>16 DEF quitFromThread, WakingAfterQuit
    <2>17. ASSUME NEW t \in Threads, wakeup(t)
           PROVE  TypeOK'
      BY <2>17 DEF wakeup
    <2>18. ASSUME NEW c \in Channels, eventArrives(c)
           PROVE  TypeOK'
      BY <2>18 DEF eventArrives
    <2>19. CASE UNCHANGED vars  BY <2>19 DEF vars
    <2> QED
      BY ZenonT(60), <2>1, <2>2, <2>3, <2>4, <2>5, <2>6, <2>7, <2>8, <2>9, <2>10, <2>11,
         <2>12, <2>13, <2>14, <2>15, <2>16, <2>17, <2>18, <2>19
         DEF Next, LoopStep, Callback, OtherThreads
  <1>3. QED
    BY <1>1, <1>2, PTL DEF Spec

-----------------------------------------------------------------------------
(* The inductive form of NoLostWakeup.  From the moment a batch has been   *)
(* taken (or before loop() is called) until poll() returns, a functor in   *)
(* pendingFunctors_ that the loop thread did not queue before loop() has a *)
(* wakeup in the eventfd or on its way.  While events are handled this may *)
(* fail: handleRead() resets the eventfd and a handler queues without      *)
(* waking; the batch is taken before the next poll().                      *)
WakeupPending ==
  pc \notin {"events", "handler", "exited"}
    /\ ~(Range(pendingFunctors) \subseteq early) => WillWake

(* No lost wakeup: while the loop is blocked in poll() with a functor in   *)
(* pendingFunctors_ that was not queued before loop(), the eventfd is set  *)
(* or a thread is about to write it (EventLoop::queueInLoop, wakeup).      *)
THEOREM NoWakeupIsLost == Spec => []NoLostWakeup
  <1>1. Init => WakeupPending
    BY DEF Init, WakeupPending, Range
  <1>2. TypeOK /\ WakeupPending /\ [Next]_vars => WakeupPending'
    <2> SUFFICES ASSUME TypeOK, WakeupPending, [Next]_vars
                 PROVE  WakeupPending'
      OBVIOUS
    <2> USE DEF WakeupPending, WillWake, loopVars, pollVars
    <2>1. CASE loop  BY <2>1 DEF loop
    <2>2. CASE whileNotQuit  BY <2>2 DEF whileNotQuit
    <2>3. CASE pollReturns  BY <2>3 DEF pollReturns
    <2>4. CASE pollTimesOut  BY <2>4 DEF pollTimesOut
    <2>5. CASE handleRead  BY <2>5 DEF handleRead
    <2>6. ASSUME NEW c \in Channels, handleEvent(c)
          PROVE  WakeupPending'
      BY <2>6 DEF handleEvent
    <2>7. CASE handlerReturns  BY <2>7 DEF handlerReturns
    <2>8. CASE doPendingFunctors
      <3>1. Range(pendingFunctors') = {}
        BY <2>8 DEF doPendingFunctors, LeftBehind, Range
      <3>2. QED
        BY <3>1
    <2>9. CASE runFunctor  BY <2>9 DEF runFunctor
    <2>10. CASE functorReturns  BY <2>10 DEF functorReturns
    <2>11. CASE donePendingFunctors  BY <2>11 DEF donePendingFunctors
    <2>12. ASSUME NEW f \in Functors, queueInLoopHere(f)
           PROVE  WakeupPending'
      <3>1. Range(pendingFunctors') = Range(pendingFunctors) \cup {f}
        BY <2>12, RangeAppend DEF queueInLoopHere, TypeOK
      <3>2. CASE pc = "start"
        BY <2>12, <3>1, <3>2 DEF queueInLoopHere, WakesItself, TypeOK
      <3>3. CASE pc = "functor"
        BY <2>12, <3>3 DEF queueInLoopHere, WakesItself, TypeOK
      <3>4. CASE pc = "handler"
        BY <2>12, <3>4 DEF queueInLoopHere
      <3>5. QED
        BY <2>12, <3>2, <3>3, <3>4 DEF queueInLoopHere, InCallback
    <2>13. ASSUME NEW f \in Functors, runInLoopHere(f)
           PROVE  WakeupPending'
      BY <2>13 DEF runInLoopHere
    <2>14. CASE quitHere  BY <2>14 DEF quitHere
    <2>15. ASSUME NEW t \in Threads, NEW f \in Functors, queueInLoop(t, f)
           PROVE  WakeupPending'
      BY <2>15 DEF queueInLoop
    <2>16. ASSUME NEW t \in Threads, quitFromThread(t)
           PROVE  WakeupPending'
      BY <2>16 DEF quitFromThread, WakingAfterQuit
    <2>17. ASSUME NEW t \in Threads, wakeup(t)
           PROVE  WakeupPending'
      BY <2>17 DEF wakeup, TypeOK
    <2>18. ASSUME NEW c \in Channels, eventArrives(c)
           PROVE  WakeupPending'
      BY <2>18 DEF eventArrives
    <2>19. CASE UNCHANGED vars  BY <2>19 DEF vars
    <2> QED
      BY <2>1, <2>2, <2>3, <2>4, <2>5, <2>6, <2>7, <2>8, <2>9, <2>10, <2>11,
         <2>12, <2>13, <2>14, <2>15, <2>16, <2>17, <2>18, <2>19
         DEF Next, LoopStep, Callback, OtherThreads
  <1>3. WakeupPending => NoLostWakeup
    BY DEF WakeupPending, NoLostWakeup
  <1>4. QED
    BY <1>1, <1>2, <1>3, TypeCorrect, PTL DEF Spec

(* No lost quit: while the loop is blocked in poll() with quit_ set, the   *)
(* eventfd is set or about to be (EventLoop::quit).  The loop only enters  *)
(* poll() with quit_ clear, so it was another thread that set it.          *)
THEOREM NoQuitIsLost == Spec => []NoLostQuit
  <1>1. Init => NoLostQuit
    BY DEF Init, NoLostQuit
  <1>2. TypeOK /\ NoLostQuit /\ [Next]_vars => NoLostQuit'
    <2> SUFFICES ASSUME TypeOK, NoLostQuit, [Next]_vars
                 PROVE  NoLostQuit'
      OBVIOUS
    <2> USE DEF NoLostQuit, WillWake, loopVars, pollVars
    <2>1. CASE LoopStep
      BY Zenon, <2>1 DEF LoopStep, loop, whileNotQuit, pollReturns, handleRead,
                  handleEvent, handlerReturns, doPendingFunctors, runFunctor,
                  functorReturns, donePendingFunctors
    <2>2. CASE pollTimesOut  BY <2>2 DEF pollTimesOut
    <2>3. CASE Callback
      BY Zenon, <2>3 DEF Callback, InCallback, queueInLoopHere, runInLoopHere, quitHere
    <2>4. ASSUME NEW t \in Threads,
                 \/ \E f \in Functors : queueInLoop(t, f)
                 \/ quitFromThread(t)
          PROVE  NoLostQuit'
      BY Zenon, <2>4 DEF queueInLoop, quitFromThread, WakingAfterQuit
    <2>7. ASSUME NEW t \in Threads, wakeup(t)
          PROVE  NoLostQuit'
      BY <2>7 DEF wakeup, TypeOK
    <2>5. ASSUME NEW c \in Channels, eventArrives(c)
          PROVE  NoLostQuit'
      BY <2>5 DEF eventArrives
    <2>6. CASE UNCHANGED vars  BY <2>6 DEF vars
    <2> QED
      BY <2>1, <2>2, <2>3, <2>4, <2>5, <2>6, <2>7 DEF Next, OtherThreads
  <1>3. QED
    BY <1>1, <1>2, TypeCorrect, PTL DEF Spec

-----------------------------------------------------------------------------
(* The queue of the executor is the batch with pendingFunctors_ behind it: *)
(* what it holds is what the two hold.                                     *)
LEMMA RangeConcat ==
  ASSUME NEW S, NEW s \in Seq(S), NEW t \in Seq(S)
  PROVE  Range(s \o t) = Range(s) \cup Range(t)
  <1>1. /\ s \o t \in Seq(S)
        /\ Len(s \o t) = Len(s) + Len(t)
        /\ \A i \in 1 .. Len(s) : (s \o t)[i] = s[i]
        /\ \A i \in 1 .. Len(t) : (s \o t)[Len(s) + i] = t[i]
    OBVIOUS
  <1>2. ASSUME NEW i \in 1 .. Len(s \o t)
        PROVE  (s \o t)[i] \in Range(s) \cup Range(t)
    <2>1. CASE i <= Len(s)
      BY <1>1, <2>1 DEF Range
    <2>2. CASE i > Len(s)
      <3>1. i - Len(s) \in 1 .. Len(t) /\ Len(s) + (i - Len(s)) = i
        BY <1>1, <2>2
      <3>2. (s \o t)[i] = t[i - Len(s)]
        BY <1>1, <3>1
      <3>3. QED
        BY <3>1, <3>2 DEF Range
    <2>3. QED
      BY <1>1, <2>1, <2>2
  <1>3. ASSUME NEW i \in 1 .. Len(s)
        PROVE  s[i] \in Range(s \o t)
    BY <1>1 DEF Range
  <1>4. ASSUME NEW i \in 1 .. Len(t)
        PROVE  t[i] \in Range(s \o t)
    <2>1. Len(s) + i \in 1 .. Len(s \o t)
      BY <1>1
    <2>2. QED
      BY <1>1, <2>1 DEF Range
  <1>5. /\ DOMAIN s = 1 .. Len(s)
        /\ DOMAIN t = 1 .. Len(t)
        /\ DOMAIN (s \o t) = 1 .. Len(s \o t)
    BY <1>1
  <1>6. Range(s \o t) \subseteq Range(s) \cup Range(t)
    <2>1. ASSUME NEW x \in Range(s \o t)
          PROVE  x \in Range(s) \cup Range(t)
      <3>1. PICK i \in 1 .. Len(s \o t) : x = (s \o t)[i]
        BY <1>5, Zenon DEF Range
      <3>2. QED
        BY <3>1, <1>2, Zenon
    <2>2. QED
      BY <2>1, Zenon
  <1>7. Range(s) \subseteq Range(s \o t) /\ Range(t) \subseteq Range(s \o t)
    <2>1. ASSUME NEW x \in Range(s)
          PROVE  x \in Range(s \o t)
      <3>1. PICK i \in 1 .. Len(s) : x = s[i]
        BY <1>5, Zenon DEF Range
      <3>2. QED
        BY <3>1, <1>3, Zenon
    <2>2. ASSUME NEW x \in Range(t)
          PROVE  x \in Range(s \o t)
      <3>1. PICK i \in 1 .. Len(t) : x = t[i]
        BY <1>5, Zenon DEF Range
      <3>2. QED
        BY <3>1, <1>4, Zenon
    <2>3. QED
      BY <2>1, <2>2, Zenon
  <1>8. QED
    BY <1>6, <1>7, Zenon

(* Pushing behind the batch is pushing at the end of the queue, and the    *)
(* first of the batch is the first of the queue.                           *)
LEMMA ConcatAppend ==
  ASSUME NEW S, NEW s \in Seq(S), NEW t \in Seq(S), NEW e \in S
  PROVE  s \o Append(t, e) = Append(s \o t, e)
  OBVIOUS

LEMMA ConcatHead ==
  ASSUME NEW S, NEW s \in Seq(S), NEW t \in Seq(S), s # <<>>
  PROVE  /\ s \o t # <<>>
         /\ Head(s \o t) = Head(s)
         /\ Tail(s \o t) = Tail(s) \o t
  OBVIOUS

LEMMA ConcatEmpty ==
  ASSUME NEW S, NEW s \in Seq(S)
  PROVE  <<>> \o s = s /\ s \o <<>> = s
  OBVIOUS

(* What was handed over is what the executor knows.                        *)
LEMMA HandedIsKnown == TypeOK => Handed = Executor!Known
  <1> SUFFICES ASSUME TypeOK PROVE Handed = Executor!Known
    OBVIOUS
  <1> functors \in Seq(Functors) /\ pendingFunctors \in Seq(Functors)
    BY Zenon DEF TypeOK
  <1>1. Range(functors \o pendingFunctors) = Range(functors) \cup Range(pendingFunctors)
    BY RangeConcat
  <1>2. /\ Executor!Range(functors \o pendingFunctors) = Range(functors \o pendingFunctors)
        /\ Executor!Range(ran) = Range(ran)
    BY Zenon DEF Range, Executor!Range
  <1>3. QED
    BY <1>1, <1>2, Zenon DEF Handed, Executor!Known

(* A step that leaves the queues and the log alone and does not leave      *)
(* loop() is no step of the executor.                                      *)
LEMMA ExecutorStutters ==
  ASSUME UNCHANGED <<pendingFunctors, functors, ran>>,
         (pc = "exited") <=> (pc' = "exited")
  PROVE  UNCHANGED Executor!vars
  BY ZenonT(60) DEF Executor!vars

(* The loop is a serial executor, whatever threads call it and from        *)
(* whichever callback: queueInLoop() puts a functor at the end of one      *)
(* queue, doPendingFunctors() (EventLoop.cc:275) moves it without changing *)
(* the order, a functor runs once, runInLoop() on the loop thread runs it  *)
(* at once, and nothing runs after loop() has returned.                    *)
THEOREM LoopIsExecutor == Spec => ImplementsExecutor
  <1>1. Init => Executor!Init
    <2> SUFFICES ASSUME Init PROVE Executor!Init
      OBVIOUS
    <2>1. functors \o pendingFunctors = <<>>
      BY ConcatEmpty DEF Init
    <2>2. (pc = "exited") = FALSE
      BY DEF Init
    <2>3. QED
      BY <2>1, <2>2, Zenon DEF Init, Executor!Init
  <1>2. TypeOK /\ [Next]_vars => [Executor!Next]_(Executor!vars)
    <2> SUFFICES ASSUME TypeOK, [Next]_vars
                 PROVE  Executor!Next \/ UNCHANGED Executor!vars
      BY Zenon
    <2> USE DEF loopVars, pollVars
    <2>1. CASE loop  BY <2>1, ExecutorStutters DEF loop
    <2>2. CASE whileNotQuit
      <3>1. UNCHANGED <<pendingFunctors, functors, ran>> /\ pc = "check"
        BY <2>2, Zenon DEF whileNotQuit
      <3>2. CASE quit
        <4>1. pc' = "exited"
          BY <2>2, <3>2, Zenon DEF whileNotQuit
        <4>2. (pc' = "exited") = TRUE /\ ~(pc = "exited")
          BY <4>1, <3>1
        <4>3. Executor!Stop
          BY <3>1, <4>2, Zenon DEF Executor!Stop
        <4>4. QED
          BY <4>3, Zenon DEF Executor!Next
      <3>3. CASE ~quit
        <4>1. pc' = "poll"
          BY <2>2, <3>3, Zenon DEF whileNotQuit
        <4>2. QED
          BY <3>1, <4>1, ExecutorStutters
      <3>4. QED
        BY <3>2, <3>3
    <2>3. CASE pollReturns  BY <2>3, ExecutorStutters DEF pollReturns
    <2>4. CASE pollTimesOut  BY <2>4, ExecutorStutters DEF pollTimesOut
    <2>5. CASE handleRead  BY <2>5, ExecutorStutters DEF handleRead
    <2>6. ASSUME NEW c \in Channels, handleEvent(c)
          PROVE  UNCHANGED Executor!vars
      BY <2>6, ExecutorStutters DEF handleEvent
    <2>7. CASE handlerReturns  BY <2>7, ExecutorStutters DEF handlerReturns
    <2>8. CASE doPendingFunctors
      <3>1. functors = <<>>
        BY <2>8 DEF doPendingFunctors, TypeOK
      <3>2. functors' = pendingFunctors /\ pendingFunctors' = <<>>
        BY <2>8, Zenon DEF doPendingFunctors, Batch, LeftBehind
      <3>3. functors' \o pendingFunctors' = functors \o pendingFunctors
        BY <3>1, <3>2, ConcatEmpty DEF TypeOK
      <3>4. (pc' = "exited") <=> (pc = "exited")
        BY <2>8 DEF doPendingFunctors
      <3>5. ran' = ran
        BY <2>8, Zenon DEF doPendingFunctors
      <3>6. QED
        BY <3>3, <3>4, <3>5, ZenonT(60) DEF Executor!vars
    <2>9. CASE runFunctor
      <3>1. /\ functors # <<>>
            /\ ran' = Append(ran, Head(functors))
            /\ functors' = Tail(functors)
            /\ UNCHANGED pendingFunctors
        BY <2>9, Zenon DEF runFunctor
      <3>2. ~(pc = "exited") /\ ~(pc' = "exited")
        BY <2>9 DEF runFunctor
      <3>3. /\ functors \o pendingFunctors # <<>>
            /\ Head(functors \o pendingFunctors) = Head(functors)
            /\ Tail(functors \o pendingFunctors) = Tail(functors) \o pendingFunctors
        BY <3>1, ConcatHead, Zenon DEF TypeOK
      <3>4. Executor!RunNext
        BY <3>1, <3>2, <3>3, ZenonT(60) DEF Executor!RunNext
      <3>5. QED
        BY <3>4, Zenon DEF Executor!Next
    <2>10. CASE functorReturns  BY <2>10, ExecutorStutters DEF functorReturns
    <2>11. CASE donePendingFunctors
      BY <2>11, ExecutorStutters DEF donePendingFunctors
    <2>12. ASSUME NEW f \in Functors,
                  f \notin Handed,
                  pendingFunctors' = Append(pendingFunctors, f),
                  UNCHANGED <<pc, functors, ran>>
           PROVE  Executor!Next
      <3>1. functors' \o pendingFunctors' = Append(functors \o pendingFunctors, f)
        BY <2>12, ConcatAppend DEF TypeOK
      <3>2. Executor!Queue(f)
        BY <2>12, <3>1, HandedIsKnown, ZenonT(60) DEF Executor!Queue
      <3>3. QED
        BY <3>2, Zenon DEF Executor!Next
    <2>13. ASSUME NEW f \in Functors, queueInLoopHere(f)
           PROVE  Executor!Next
      BY <2>13, <2>12, Zenon DEF queueInLoopHere
    <2>14. ASSUME NEW f \in Functors, runInLoopHere(f)
           PROVE  Executor!Next
      <3>1. ~(pc = "exited")
        BY <2>14 DEF runInLoopHere, InCallback
      <3>2. Executor!RunNow(f)
        BY <2>14, <3>1, HandedIsKnown, ZenonT(60) DEF runInLoopHere, Executor!RunNow
      <3>3. QED
        BY <3>2, Zenon DEF Executor!Next
    <2>15. CASE quitHere  BY <2>15, ExecutorStutters, Zenon DEF quitHere
    <2>16. ASSUME NEW t \in Threads, NEW f \in Functors, queueInLoop(t, f)
           PROVE  Executor!Next
      BY <2>16, <2>12, Zenon DEF queueInLoop
    <2>17. ASSUME NEW t \in Threads, quitFromThread(t)
           PROVE  UNCHANGED Executor!vars
      BY <2>17, ExecutorStutters, Zenon DEF quitFromThread
    <2>18. ASSUME NEW t \in Threads, wakeup(t)
           PROVE  UNCHANGED Executor!vars
      BY <2>18, ExecutorStutters, Zenon DEF wakeup
    <2>19. ASSUME NEW c \in Channels, eventArrives(c)
           PROVE  UNCHANGED Executor!vars
      BY <2>19, ExecutorStutters, Zenon DEF eventArrives
    <2>20. CASE UNCHANGED vars  BY <2>20, ExecutorStutters, Zenon DEF vars
    <2> QED
      BY <2>1, <2>2, <2>3, <2>4, <2>5, <2>6, <2>7, <2>8, <2>9, <2>10, <2>11, <2>13,
         <2>14, <2>15, <2>16, <2>17, <2>18, <2>19, <2>20, ZenonT(60)
         DEF Next, LoopStep, Callback, OtherThreads
  <1>3. QED
    BY <1>1, <1>2, TypeCorrect, PTL DEF Spec, ImplementsExecutor, Executor!Spec
-----------------------------------------------------------------------------
(***************************************************************************)
(* AsyncLogging and LogFile: the lines reach the file in the order of      *)
(* append(), each once but for those dropped; the spare buffers are back   *)
(* when the loop of threadFunc() begins; no file is opened twice.          *)
(* The lines of a sequence of buffers, and the state of a LogFile after a  *)
(* sequence of appends, are recursive functions; what is needed of them is *)
(* proved by induction, in the form that a set of numbers has a least one. *)
(***************************************************************************)
INSTANCE SequenceTheorems
INSTANCE WellFoundedInduction


(* The order of the natural numbers, as a relation. *)
Less == {p \in Nat \X Nat : p[1] < p[2]}

(* A set of natural numbers has a least one: what stands for induction here. *)
LEMMA LeastNat ==
  ASSUME NEW S \in SUBSET Nat, S # {}
  PROVE  \E n \in S : \A m \in S : n <= m
  <1>1. IsWellFoundedOn(Less, Nat)
    BY NatLessThanWellFounded, Zenon DEF OpToRel, Less
  <1>2. S \subseteq Nat
    BY Zenon
  <1>3. PICK n \in S : \A m \in S : ~(<<m, n>> \in Less)
    BY <1>1, <1>2, WFMin, Zenon
  <1>4. \A m, k \in Nat : <<m, k>> \in Less <=> m < k
    BY DEF Less
  <1>5. n \in Nat /\ \A m \in S : m \in Nat /\ ~(m < n)
    BY <1>2, <1>3, <1>4, Zenon
  <1>6. \A m \in S : n <= m
    BY <1>5
  <1>7. QED
    BY <1>6, Zenon

(* Induction: a set with 0 and with the successor of each of its members   *)
(* up to N has all numbers up to N.                                        *)
LEMMA Induction ==
  ASSUME NEW N \in Nat, NEW T, 0 \in T,
         \A n \in 0 .. N : n \in T /\ n < N => n + 1 \in T
  PROVE  \A n \in 0 .. N : n \in T
  <1> DEFINE Missing == {n \in 0 .. N : n \notin T}
  <1> SUFFICES ASSUME Missing # {} PROVE FALSE
    BY Zenon
  <1>1. Missing \in SUBSET Nat
    OBVIOUS
  <1>2. PICK n \in Missing : \A m \in Missing : n <= m
    BY <1>1, LeastNat, Zenon
  <1>3. n # 0
    BY <1>2, Zenon
  <1>4. n - 1 \in 0 .. N /\ n - 1 < N /\ (n - 1) + 1 = n /\ ~(n <= n - 1)
    BY <1>2, <1>3
  <1>5. n - 1 \in T
    BY <1>2, <1>4, Zenon
  <1>6. n \in T
    <2>1. (n - 1) + 1 \in T
      BY <1>4, <1>5, Zenon
    <2>2. QED
      BY <2>1, <1>4, Zenon
  <1>7. QED
    BY <1>2, <1>6, Zenon

-----------------------------------------------------------------------------
(* What Flatten() computes: the concatenation of the first i sequences. *)
Flats(bs) ==
  CHOOSE f : f = [n \in 0 .. Len(bs) |-> IF n = 0 THEN <<>> ELSE f[n - 1] \o bs[n]]

IsFlat(f, bs, n) ==
  \A i \in 0 .. n : f[i] = IF i = 0 THEN <<>> ELSE f[i - 1] \o bs[i]

SameUpTo(bs, cs, n) == \A i \in 1 .. n : bs[i] = cs[i]

(* There is one such function at most. *)
LEMMA FlatsAgree ==
  ASSUME NEW N \in Nat, NEW bs, NEW cs, SameUpTo(bs, cs, N),
         NEW f, NEW g, IsFlat(f, bs, N), IsFlat(g, cs, N)
  PROVE  \A i \in 0 .. N : f[i] = g[i]
  <1> DEFINE T == {n \in Nat : n \in 0 .. N => f[n] = g[n]}
  <1>1. 0 \in T
    <2>1. 0 \in 0 .. N /\ 0 \in Nat
      OBVIOUS
    <2>2. QED
      BY <2>1, Zenon DEF IsFlat
  <1>2. ASSUME NEW n \in 0 .. N, n \in T, n < N
        PROVE  n + 1 \in T
    <2>1. n + 1 \in 0 .. N /\ n + 1 \in 1 .. N /\ n + 1 \in Nat /\ (n + 1) - 1 = n /\ n + 1 # 0
      BY <1>2
    <2>2. /\ f[n + 1] = f[(n + 1) - 1] \o bs[n + 1]
          /\ g[n + 1] = g[(n + 1) - 1] \o cs[n + 1]
          /\ bs[n + 1] = cs[n + 1] /\ f[n] = g[n]
      BY <1>2, <2>1, Zenon DEF IsFlat, SameUpTo
    <2>3. f[n + 1] = g[n + 1]
      BY <2>1, <2>2, Zenon
    <2>4. QED
      BY <2>1, <2>3, Zenon
  <1>3. \A n \in 0 .. N : n \in T
    <2> HIDE DEF T
    <2>1. QED
      BY <1>1, <1>2, Induction, Zenon
  <1>4. QED
    BY <1>3, Zenon

(* There is such a function. *)
LEMMA FlatsExist ==
  ASSUME NEW S, NEW bs \in Seq(Seq(S))
  PROVE  /\ IsFlat(Flats(bs), bs, Len(bs))
         /\ \A i \in 0 .. Len(bs) : Flats(bs)[i] \in Seq(S)
  <1> DEFINE T == {n \in Nat : \E f \in [0 .. n -> Seq(S)] : IsFlat(f, bs, n)}
  <1> DEFINE N == Len(bs)
  <1>0. N \in Nat /\ N \in 0 .. N /\ \A i \in 1 .. N : bs[i] \in Seq(S)
    OBVIOUS
  <1>1. 0 \in T
    <2>1. 0 .. 0 = {0} /\ 0 \in Nat
      OBVIOUS
    <2>2. [i \in 0 .. 0 |-> <<>>] \in [0 .. 0 -> Seq(S)]
      BY EmptySeq, Zenon
    <2>3. IsFlat([i \in 0 .. 0 |-> <<>>], bs, 0)
      BY <2>1, Zenon DEF IsFlat
    <2>4. QED
      BY <2>1, <2>2, <2>3, Zenon
  <1>2. ASSUME NEW n \in 0 .. N, n \in T, n < N
        PROVE  n + 1 \in T
    <2>1. PICK f \in [0 .. n -> Seq(S)] : IsFlat(f, bs, n)
      BY <1>2
    <2> DEFINE g == [i \in 0 .. n + 1 |-> IF i <= n THEN f[i] ELSE f[i - 1] \o bs[i]]
    <2>2. /\ n + 1 \in Nat /\ n + 1 \in 1 .. N
          /\ \A i \in 0 .. n : i <= n /\ i \in 0 .. n + 1 /\ (i # 0 => i - 1 \in 0 .. n)
          /\ \A i \in 0 .. n + 1 : i \in 0 .. n \/ i = n + 1
          /\ (n + 1) - 1 = n /\ n \in 0 .. n /\ n + 1 # 0 /\ ~(n + 1 <= n) /\ n + 1 \in 0 .. n + 1
      <3>1. n < N /\ N \in Nat
        BY <1>0, <1>2, Zenon
      <3> HIDE DEF N, T
      <3>2. QED
        BY <3>1
    <2>3. \A i \in 0 .. n : g[i] = f[i]
      BY <2>2, Zenon
    <2>4. g[n + 1] = f[n] \o bs[n + 1]
      BY <2>2, Zenon
    <2>5. g = [i \in 0 .. n + 1 |-> g[i]]
      BY Zenon
    <2> HIDE DEF g
    <2>6. \A i \in 0 .. n + 1 : g[i] \in Seq(S)
      <3>1. g[n + 1] \in Seq(S)
        <4>1. f[n] \in Seq(S) /\ bs[n + 1] \in Seq(S)
          BY <1>0, <2>2, Zenon
        <4>2. QED
          BY ZenonT(60), <2>4, <4>1, ConcatProperties
      <3>2. QED
        BY <2>2, <2>3, <3>1, Zenon
    <2>7. IsFlat(g, bs, n + 1)
      <3> SUFFICES ASSUME NEW i \in 0 .. n + 1
                   PROVE  g[i] = IF i = 0 THEN <<>> ELSE g[i - 1] \o bs[i]
        BY Zenon DEF IsFlat
      <3>1. CASE i \in 0 .. n
        <4>1. g[i] = f[i] /\ (i # 0 => g[i - 1] = f[i - 1])
          BY <2>2, <2>3, <3>1, Zenon
        <4>2. f[i] = IF i = 0 THEN <<>> ELSE f[i - 1] \o bs[i]
          BY <2>1, <3>1, Zenon DEF IsFlat
        <4>3. QED
          BY <4>1, <4>2, Zenon
      <3>2. CASE i = n + 1
        BY <2>2, <2>3, <2>4, <3>2, Zenon
      <3>3. QED
        BY <2>2, <3>1, <3>2, Zenon
    <2>8. g \in [0 .. n + 1 -> Seq(S)]
      BY <2>5, <2>6, Zenon
    <2>9. QED
      BY <2>2, <2>7, <2>8, Zenon
  <1>3. N \in T
    <2> HIDE DEF T, N
    <2>1. \A n \in 0 .. N : n \in T
      BY <1>0, <1>1, <1>2, Induction, Zenon
    <2>2. QED
      BY <1>0, <2>1, Zenon
  <1>4. PICK f \in [0 .. N -> Seq(S)] : IsFlat(f, bs, N)
    BY <1>3, Zenon
  <1>5. f = [i \in 0 .. N |-> IF i = 0 THEN <<>> ELSE f[i - 1] \o bs[i]]
    BY <1>4, Zenon DEF IsFlat
  <1>6. Flats(bs) = [i \in 0 .. N |-> IF i = 0 THEN <<>> ELSE Flats(bs)[i - 1] \o bs[i]]
    BY <1>5, Zenon DEF Flats
  <1>7. IsFlat(Flats(bs), bs, N)
    BY <1>6, Zenon DEF IsFlat
  <1>8. \A i \in 0 .. N : Flats(bs)[i] = f[i]
    <2>1. SameUpTo(bs, bs, N)
      BY Zenon DEF SameUpTo
    <2> HIDE DEF N
    <2>2. QED
      BY <1>0, <1>4, <1>7, <2>1, FlatsAgree
  <1>9. QED
    BY <1>4, <1>7, <1>8, Zenon

(* The sequences one after the other, and one more at the end. *)
LEMMA FlattenIsLast ==
  ASSUME NEW bs
  PROVE  Flatten(bs) = Flats(bs)[Len(bs)]
  BY Zenon DEF Flatten, Flats

(* The lines of buffers are lines. *)
LEMMA FlattenType ==
  ASSUME NEW S, NEW bs \in Seq(Seq(S))
  PROVE  Flatten(bs) \in Seq(S)
  <1>1. Len(bs) \in 0 .. Len(bs)
    OBVIOUS
  <1>2. QED
    BY <1>1, FlattenIsLast, FlatsExist, Zenon

(* No buffers have no lines. *)
LEMMA FlattenEmpty ==
  Flatten(<<>>) = <<>>
  <1>1. <<>> \in Seq(Seq(Nat)) /\ Len(<<>>) = 0 /\ 0 \in 0 .. 0
    OBVIOUS
  <1>2. IsFlat(Flats(<<>>), <<>>, 0)
    <2>1. IsFlat(Flats(<<>>), <<>>, Len(<<>>))
      BY <1>1, FlatsExist, Zenon
    <2>2. QED
      BY <1>1, <2>1, Zenon
  <1>3. QED
    BY <1>1, <1>2, FlattenIsLast, Zenon DEF IsFlat

(* A buffer pushed back adds its lines at the end. *)
LEMMA FlattenAppend ==
  ASSUME NEW S, NEW bs \in Seq(Seq(S)), NEW b \in Seq(S)
  PROVE  Flatten(Append(bs, b)) = Flatten(bs) \o b
  <1> DEFINE cs == Append(bs, b)
  <1> DEFINE N == Len(bs)
  <1>1. /\ N \in Nat /\ N + 1 \in Nat /\ N + 1 # 0
        /\ cs \in Seq(Seq(S)) /\ Len(cs) = N + 1
        /\ cs[N + 1] = b /\ \A i \in 1 .. N : cs[i] = bs[i]
    OBVIOUS
  <1>2. Flatten(cs) = Flats(cs)[N + 1] /\ Flatten(bs) = Flats(bs)[N]
    BY <1>1, FlattenIsLast, Zenon
  <1>3. IsFlat(Flats(cs), cs, N + 1) /\ IsFlat(Flats(bs), bs, N)
    <2>1. IsFlat(Flats(cs), cs, Len(cs)) /\ IsFlat(Flats(bs), bs, Len(bs))
      BY <1>1, FlatsExist, Zenon
    <2>2. QED
      BY <1>1, <2>1, Zenon
  <1>4. N + 1 \in 0 .. N + 1 /\ (N + 1) - 1 = N /\ 0 .. N \subseteq 0 .. N + 1 /\ N \in 0 .. N
    BY <1>1
  <1>5. Flats(cs)[N + 1] = Flats(cs)[N] \o b
    BY <1>1, <1>3, <1>4, Zenon DEF IsFlat
  <1>6. IsFlat(Flats(cs), cs, N)
    BY <1>3, <1>4, Zenon DEF IsFlat
  <1>7. Flats(cs)[N] = Flats(bs)[N]
    <2> HIDE DEF N, cs
    <2>1. /\ N \in Nat /\ SameUpTo(cs, bs, N)
          /\ IsFlat(Flats(cs), cs, N) /\ IsFlat(Flats(bs), bs, N)
      BY <1>1, <1>3, <1>6, Zenon DEF SameUpTo
    <2>2. \A i \in 0 .. N : Flats(cs)[i] = Flats(bs)[i]
      BY <2>1, FlatsAgree
    <2>3. QED
      BY <1>4, <2>2, Zenon
  <1>8. QED
    BY <1>2, <1>5, <1>7, Zenon

(* The first k sequences, and what the others add. *)
LEMMA FlattenFirst ==
  ASSUME NEW S, NEW bs \in Seq(Seq(S)), NEW k \in 0 .. Len(bs)
  PROVE  \E q \in Seq(S) : /\ Flatten(bs) = Flatten(SubSeq(bs, 1, k)) \o q
                           /\ Range(q) = UNION {Range(bs[j]) : j \in k + 1 .. Len(bs)}
  <1> DEFINE First(n) == SubSeq(bs, 1, n)
             Others(n) == UNION {Range(bs[j]) : j \in k + 1 .. n}
             P(n, q) == Flatten(First(n)) = Flatten(First(k)) \o q /\ Range(q) = Others(n)
             N == Len(bs)
             T == {n \in Nat : k + n <= N => \E q \in Seq(S) : P(k + n, q)}
  <1>1. N \in Nat /\ k \in Nat /\ N - k \in Nat /\ k <= N
    OBVIOUS
  <1>2. \A n \in 0 .. N : First(n) \in Seq(Seq(S)) /\ Len(First(n)) = n
    OBVIOUS
  <1>3. \A n \in 0 .. N : Flatten(First(n)) \in Seq(S)
    BY <1>2, FlattenType, Zenon
  <1>4. 0 \in T
    <2>1. k + 0 = k /\ 0 \in Nat /\ k + 1 .. k = {} /\ k \in 0 .. N
      BY <1>1
    <2>2. Flatten(First(k)) = Flatten(First(k)) \o <<>>
      BY <1>3, <2>1, ConcatEmptySeq, Zenon
    <2>3. Range(<<>>) = {}
      BY DEF Range
    <2>4. Others(k) = {}
      BY <2>1, Zenon
    <2>5. <<>> \in Seq(S)
      BY EmptySeq, Zenon
    <2>6. QED
      BY <2>1, <2>2, <2>3, <2>4, <2>5, Zenon
  <1>5. ASSUME NEW n \in 0 .. N - k, n \in T, n < N - k
        PROVE  n + 1 \in T
    <2> DEFINE m == k + n
    <2>0. n < N - k
      BY <1>5, Zenon
    <2>1. /\ m \in 0 .. N /\ m <= N /\ m + 1 \in 1 .. N /\ k + (n + 1) = m + 1 /\ n + 1 \in Nat
          /\ k + 1 .. m + 1 = (k + 1 .. m) \cup {m + 1} /\ k \in 0 .. N
      <3> HIDE DEF N, T
      <3>1. /\ m \in 0 .. N /\ m <= N /\ m + 1 \in 1 .. N /\ k + (n + 1) = m + 1
            /\ n + 1 \in Nat /\ k \in 0 .. N /\ m \in Nat /\ k <= m
        BY <1>1, <2>0
      <3> HIDE DEF m
      <3>2. k + 1 .. m + 1 = (k + 1 .. m) \cup {m + 1}
        BY <1>1, <3>1
      <3>3. QED
        BY <3>1, <3>2, Zenon
    <2>2. PICK q \in Seq(S) : P(m, q)
      BY <1>5, <2>1, Zenon
    <2>3. bs[m + 1] \in Seq(S)
      BY <2>1
    <2>4. First(m + 1) = Append(First(m), bs[m + 1])
      BY <2>1
    <2>5. Flatten(First(m + 1)) = Flatten(First(m)) \o bs[m + 1]
      BY <1>2, <2>1, <2>3, <2>4, FlattenAppend, Zenon
    <2>6. Flatten(First(m + 1)) = Flatten(First(k)) \o (q \o bs[m + 1])
      <3>1. Flatten(First(k)) \in Seq(S)
        BY <1>3, <2>1, Zenon
      <3>2. (Flatten(First(k)) \o q) \o bs[m + 1] = Flatten(First(k)) \o (q \o bs[m + 1])
        <4> DEFINE x == Flatten(First(k))
                   z == bs[m + 1]
        <4>1. x \in Seq(S) /\ z \in Seq(S)
          BY <2>3, <3>1, Zenon
        <4> HIDE DEF x, z, P, T, N, m, First, Others
        <4>2. (x \o q) \o z = x \o (q \o z)
          BY <4>1
        <4>3. QED
          BY <4>2 DEF x, z
      <3>3. QED
        BY <2>2, <2>5, <3>2, Zenon
    <2>7. q \o bs[m + 1] \in Seq(S)
      BY <2>2, <2>3, ConcatProperties, Zenon
    <2>8. Range(q \o bs[m + 1]) = Range(q) \cup Range(bs[m + 1])
      BY <2>3, RangeConcatenation
    <2>9. Others(m + 1) = Others(m) \cup Range(bs[m + 1])
      BY <2>1, Zenon
    <2>10. P(m + 1, q \o bs[m + 1])
      BY <2>2, <2>6, <2>8, <2>9, Zenon
    <2>11. QED
      BY <2>1, <2>7, <2>10, Zenon
  <1>6. N - k \in T
    <2>1. N - k \in 0 .. N - k
      BY <1>1
    <2> HIDE DEF T
    <2>2. \A n \in 0 .. N - k : n \in T
      BY <1>1, <1>4, <1>5, Induction, Zenon
    <2>3. QED
      BY <2>1, <2>2, Zenon
  <1>7. k + (N - k) = N /\ N <= N
    BY <1>1
  <1>8. First(N) = bs
    BY SubSeqFull, Zenon
  <1>9. PICK q \in Seq(S) : P(N, q)
    BY <1>6, <1>7, Zenon
  <1>10. QED
    BY <1>8, <1>9, Zenon

-----------------------------------------------------------------------------
(* Sequences of numbers that increase. *)
LEMMA IncreasingAppend ==
  ASSUME NEW s \in Seq(Nat), NEW n \in Nat, Increasing(s), \A x \in Range(s) : x < n
  PROVE  Increasing(Append(s, n)) /\ Range(Append(s, n)) = Range(s) \cup {n}
  <1> DEFINE t == Append(s, n)
  <1>1. /\ DOMAIN s = 1 .. Len(s) /\ DOMAIN t = 1 .. Len(s) + 1 /\ Len(s) \in Nat
        /\ t[Len(s) + 1] = n /\ \A i \in 1 .. Len(s) : t[i] = s[i] /\ s[i] \in Nat
    OBVIOUS
  <1>2. \A i \in 1 .. Len(s) : s[i] < n
    BY <1>1, Zenon DEF Range
  <1> HIDE DEF t
  <1>3. Increasing(t)
    BY <1>1, <1>2 DEF Increasing
  <1>4. DOMAIN t = DOMAIN s \cup {Len(s) + 1}
    BY <1>1
  <1>5. Range(t) = Range(s) \cup {n}
    <2>1. \A i \in DOMAIN s : t[i] = s[i]
      BY <1>1, Zenon
    <2>2. t[Len(s) + 1] = n
      BY <1>1, Zenon
    <2>3. QED
      BY ZenonT(60), <1>4, <2>1, <2>2 DEF Range
  <1>6. QED
    BY <1>3, <1>5, Zenon DEF t

(* What is left when a part in the middle is cut out is in order. *)
LEMMA IncreasingCut ==
  ASSUME NEW a \in Seq(Nat), NEW q \in Seq(Nat), NEW b \in Seq(Nat), Increasing((a \o q) \o b)
  PROVE  Increasing(a \o b) /\ Range(a \o b) = Range((a \o q) \o b) \ Range(q)
  <1> DEFINE s == (a \o q) \o b
             t == a \o b
             A == Len(a)
             Q == Len(q)
             B == Len(b)
  <1>1. /\ A \in Nat /\ Q \in Nat /\ B \in Nat
        /\ DOMAIN a = 1 .. A /\ DOMAIN q = 1 .. Q /\ DOMAIN b = 1 .. B
        /\ DOMAIN s = 1 .. A + Q + B /\ DOMAIN t = 1 .. A + B
        /\ \A i \in 1 .. A + Q + B : s[i] \in Nat
        /\ \A i \in 1 .. A : s[i] = a[i] /\ t[i] = a[i] /\ a[i] \in Nat
        /\ \A i \in 1 .. Q : s[A + i] = q[i] /\ q[i] \in Nat
        /\ \A i \in 1 .. B : s[A + Q + i] = b[i] /\ t[A + i] = b[i] /\ b[i] \in Nat
    OBVIOUS
  <1>0. Increasing(s)
    BY Zenon
  <1> HIDE DEF s, t, A, Q, B
  <1> DEFINE At(i) == IF i <= A THEN i ELSE i + Q
  <1>2. \A i \in 1 .. A + B : /\ At(i) \in 1 .. A + Q + B /\ t[i] = s[At(i)]
                              /\ i <= A \/ i > A
    <2> SUFFICES ASSUME NEW i \in 1 .. A + B
                 PROVE  At(i) \in 1 .. A + Q + B /\ t[i] = s[At(i)] /\ (i <= A \/ i > A)
      BY Zenon
    <2>1. CASE i <= A
      BY <1>1, <2>1
    <2>2. CASE i > A
      <3>1. i - A \in 1 .. B /\ A + (i - A) = i /\ A + Q + (i - A) = i + Q /\ At(i) = i + Q
        BY <1>1, <2>2
      <3>2. t[i] = s[i + Q]
        <4>1. \A j \in 1 .. B : s[A + Q + j] = t[A + j]
          BY <1>1, Zenon
        <4>2. s[A + Q + (i - A)] = t[A + (i - A)]
          BY <3>1, <4>1, Zenon
        <4>3. QED
          BY <3>1, <4>2, Zenon
      <3>3. QED
        BY <1>1, <2>2, <3>1, <3>2
    <2>3. QED
      BY <1>1, <2>1, <2>2
  <1>3. \A i, j \in 1 .. A + B : i < j => At(i) < At(j)
    BY <1>1
  <1>4. Increasing(t)
    <2> SUFFICES ASSUME NEW i \in 1 .. A + B, NEW j \in 1 .. A + B, i < j
                 PROVE  t[i] < t[j]
      BY <1>1, Zenon DEF Increasing
    <2>1. At(i) < At(j) /\ At(i) \in DOMAIN s /\ At(j) \in DOMAIN s
      BY <1>1, <1>2, <1>3, Zenon
    <2> HIDE DEF At
    <2>2. s[At(i)] < s[At(j)]
      BY <1>0, <2>1, Zenon DEF Increasing
    <2>3. t[i] = s[At(i)] /\ t[j] = s[At(j)]
      BY <1>2, Zenon
    <2>4. QED
      BY <2>2, <2>3, Zenon
  <1>5. \A i \in 1 .. Q, j \in 1 .. A + B : At(j) # A + i
    BY <1>1
  <1>6. \A i, j \in 1 .. A + Q + B : s[i] = s[j] => i = j
    <2> SUFFICES ASSUME NEW i \in 1 .. A + Q + B, NEW j \in 1 .. A + Q + B, i < j
                 PROVE  s[i] # s[j]
      BY <1>1
    <2>1. s[i] < s[j]
      BY <1>0, <1>1, Zenon DEF Increasing
    <2>3. s[i] \in Nat /\ s[j] \in Nat
      BY <1>1, Zenon
    <2>4. QED
      BY <2>1, <2>3
  <1>7. \A k \in 1 .. A + Q + B : \/ \E i \in 1 .. Q : k = A + i
                                  \/ \E i \in 1 .. A + B : k = At(i)
    <2> SUFFICES ASSUME NEW k \in 1 .. A + Q + B
                 PROVE  (\E i \in 1 .. Q : k = A + i) \/ (\E i \in 1 .. A + B : k = At(i))
      BY Zenon
    <2>1. CASE k <= A
      <3>1. k \in 1 .. A + B /\ k = At(k)
        BY <1>1, <2>1
      <3>2. QED
        BY <3>1, Zenon
    <2>2. CASE k > A /\ k <= A + Q
      <3>1. k - A \in 1 .. Q /\ k = A + (k - A)
        BY <1>1, <2>2
      <3>2. QED
        BY <3>1, Zenon
    <2>3. CASE k > A + Q
      <3>1. k - Q \in 1 .. A + B /\ k = At(k - Q)
        BY <1>1, <2>3
      <3>2. QED
        BY <3>1, Zenon
    <2>4. QED
      BY <1>1, <2>1, <2>2, <2>3
  <1>8. \A i \in 1 .. Q : A + i \in 1 .. A + Q + B /\ s[A + i] = q[i]
    BY <1>1
  <1> HIDE DEF At
  <1>9. Range(t) \subseteq Range(s) \ Range(q)
    <2> SUFFICES ASSUME NEW i \in 1 .. A + B PROVE t[i] \in Range(s) \ Range(q)
      BY <1>1, Zenon DEF Range
    <2>1. t[i] \in Range(s)
      BY <1>1, <1>2, Zenon DEF Range
    <2>2. ASSUME NEW j \in 1 .. Q, t[i] = q[j] PROVE FALSE
      <3>1. s[At(i)] = s[A + j]
        BY <1>2, <1>8, <2>2, Zenon
      <3>2. At(i) \in 1 .. A + Q + B /\ A + j \in 1 .. A + Q + B
        BY <1>2, <1>8, Zenon
      <3>3. At(i) = A + j
        BY <1>6, <3>1, <3>2, Zenon
      <3>4. QED
        BY <1>5, <3>3, Zenon
    <2>3. QED
      BY <1>1, <2>1, <2>2, Zenon DEF Range
  <1>10. Range(s) \ Range(q) \subseteq Range(t)
    <2> SUFFICES ASSUME NEW k \in 1 .. A + Q + B, s[k] \notin Range(q) PROVE s[k] \in Range(t)
      BY ZenonT(60), <1>1 DEF Range
    <2>1. CASE \E i \in 1 .. Q : k = A + i
      <3>1. PICK i \in 1 .. Q : k = A + i
        BY <2>1
      <3>2. s[k] = q[i] /\ DOMAIN q = 1 .. Q
        BY <1>1, <1>8, <3>1, Zenon
      <3>3. s[k] \in Range(q)
        BY <3>2, Zenon DEF Range
      <3>4. QED
        BY <3>3, Zenon
    <2>2. CASE \E i \in 1 .. A + B : k = At(i)
      BY ZenonT(60), <1>1, <1>2, <2>2 DEF Range
    <2>3. QED
      BY <1>7, <2>1, <2>2, Zenon
  <1>11. QED
    BY <1>4, <1>9, <1>10, Zenon DEF s, t

-----------------------------------------------------------------------------
(* The log file. *)
Files == [name : Nat, writtenBytes : Nat, unflushed : Nat]
LogFiles == [count : Nat, startOfPeriod : Int, lastRoll : Nat, lastFlush : Nat,
             file : Files, closed : Seq(Nat)]

FileInv(f, t) ==
  /\ f \in LogFiles
  /\ f.file.name = f.lastRoll /\ f.lastRoll <= t
  /\ Increasing(Append(f.closed, f.file.name))

(* The period a second is in. *)
LEMMA PeriodType ==
  ASSUME NEW t \in Nat
  PROVE  Period(t) \in Int
  <1>1. t \div kRollPerSeconds \in Int /\ kRollPerSeconds \in Int
    BY LogAssumption
  <1>2. \A a, b \in Int : a * b \in Int
    OBVIOUS
  <1>3. QED
    BY <1>1, <1>2, Zenon DEF Period

(* The last of increasing numbers is the greatest. *)
LEMMA LastIsGreatest ==
  ASSUME NEW s \in Seq(Nat), NEW n \in Nat, Increasing(Append(s, n))
  PROVE  \A x \in Range(Append(s, n)) : x <= n
  <1> DEFINE t == Append(s, n)
             N == Len(s) + 1
  <1>1. N \in 1 .. N /\ DOMAIN t = 1 .. N /\ t[N] = n /\ \A i \in 1 .. N : t[i] \in Nat /\ i <= N
    OBVIOUS
  <1>0. Increasing(t)
    BY Zenon
  <1>4. \A i \in 1 .. N : i = N \/ i < N
    BY <1>1
  <1> HIDE DEF t, N
  <1>2. ASSUME NEW i \in 1 .. N PROVE t[i] <= n
    <2>1. CASE i = N
      BY <1>1, <2>1
    <2>2. CASE i < N
      <3>1. t[i] < t[N]
        BY <1>0, <1>1, <2>2, Zenon DEF Increasing
      <3>2. QED
        BY <1>1, <3>1
    <2>3. QED
      BY <1>4, <2>1, <2>2, Zenon
  <1>3. QED
    BY <1>1, <1>2, Zenon DEF Range, t

(* rollFile() opens a file with a name that no earlier one has. *)
LEMMA RollFile ==
  ASSUME NEW t \in Nat, NEW f, FileInv(f, t)
  PROVE  FileInv(rollFile(f, t), t)
  <1>1. CASE ~MayRoll(f, t)
    BY <1>1, Zenon DEF rollFile
  <1>2. CASE MayRoll(f, t)
    <2> DEFINE g == rollFile(f, t)
               names == Append(f.closed, f.file.name)
    <2>1. f \in LogFiles /\ f.file.name = f.lastRoll /\ Increasing(names)
      BY Zenon DEF FileInv
    <2>2. f.closed \in Seq(Nat) /\ f.file.name \in Nat /\ f.lastRoll \in Nat
      BY <2>1 DEF LogFiles, Files
    <2>3. names \in Seq(Nat)
      BY <2>2
    <2>4. f.file.name < t
      BY <1>2, <2>1, <2>2 DEF MayRoll
    <2>5. \A x \in Range(names) : x <= f.file.name
      BY <2>1, <2>2, LastIsGreatest, Zenon
    <2>6. Range(names) \subseteq Nat
      BY <2>3 DEF Range
    <2>7. \A x \in Range(names) : x < t
      BY <2>2, <2>4, <2>5, <2>6
    <2>8. Increasing(Append(names, t))
      BY <2>1, <2>3, <2>7, IncreasingAppend, Zenon
    <2>9. AppendFile(t) \in Files /\ AppendFile(t).name = t
      BY DEF AppendFile, Files, getLogFileName
    <2>10. Period(t) \in Int
      BY PeriodType
    <2>11. g = [f EXCEPT !.lastRoll = t, !.lastFlush = t, !.startOfPeriod = Period(t),
                         !.file = AppendFile(t), !.closed = names]
      BY <1>2, Zenon DEF rollFile
    <2> HIDE DEF names, g
    <2>16. g \in LogFiles
      BY <2>1, <2>3, <2>9, <2>10, <2>11, Zenon DEF LogFiles
    <2>12. g.lastRoll = t /\ g.file = AppendFile(t) /\ g.closed = names
      BY <2>1, <2>11, Zenon DEF LogFiles
    <2>13. t <= t
      OBVIOUS
    <2>14. FileInv(g, t)
      BY <2>8, <2>9, <2>12, <2>13, <2>16, Zenon DEF FileInv
    <2>15. QED
      BY <2>14, Zenon DEF g
  <1>3. QED
    BY <1>1, <1>2

(* The LogFile as it is constructed. *)
LEMMA NewLogFile ==
  ASSUME NEW t \in Nat
  PROVE  FileInv(LogFileCreated(t), t)
  <1> DEFINE f == LogFileCreated(t)
  <1>1. Period(t) \in Int /\ 0 \in Nat /\ t <= t
    BY PeriodType
  <1>2. AppendFile(t) \in Files /\ AppendFile(t).name = t
    BY DEF AppendFile, Files, getLogFileName
  <1>3. <<>> \in Seq(Nat)
    BY EmptySeq, Zenon
  <1>4. f \in LogFiles
    BY <1>1, <1>2, <1>3, Zenon DEF LogFileCreated, LogFiles
  <1>5. f.file.name = t /\ f.lastRoll = t /\ f.closed = <<>>
    BY <1>2, Zenon DEF LogFileCreated
  <1>6. Increasing(Append(<<>>, t))
    BY DEF Increasing
  <1>7. QED
    BY <1>1, <1>4, <1>5, <1>6, Zenon DEF FileInv

(* A change of the counters alone. *)
LEMMA SameFile ==
  ASSUME NEW t \in Nat, NEW f, FileInv(f, t), NEW g \in LogFiles,
         g.file.name = f.file.name, g.lastRoll = f.lastRoll, g.closed = f.closed
  PROVE  FileInv(g, t)
  BY Zenon DEF FileInv

(* flush() keeps the files. *)
LEMMA Flushed ==
  ASSUME NEW t \in Nat, NEW f, FileInv(f, t)
  PROVE  FileInv(flush(f), t)
  <1>1. f \in LogFiles
    BY DEF FileInv
  <1>2. /\ flush(f) \in LogFiles /\ flush(f).file.name = f.file.name
        /\ flush(f).lastRoll = f.lastRoll /\ flush(f).closed = f.closed
    <2> DEFINE a == [f.file EXCEPT !.unflushed = 0]
    <2>1. f.file \in Files /\ 0 \in Nat
      BY <1>1 DEF LogFiles
    <2>2. a \in Files /\ a.name = f.file.name
      BY <2>1, Zenon DEF Files
    <2>3. flush(f) = [f EXCEPT !.file = a]
      BY <1>1, Zenon DEF flush, LogFiles
    <2> HIDE DEF a
    <2>4. QED
      BY <1>1, <2>2, <2>3, Zenon DEF LogFiles
  <1>3. QED
    BY <1>2, SameFile, Zenon

(* append_unlocked() keeps the names of the files in order, whether it rolls or not. *)
LEMMA AppendUnlocked ==
  ASSUME NEW t \in Nat, NEW f, FileInv(f, t), NEW len \in Nat
  PROVE  FileInv(append_unlocked(f, len, t), t)
  <1> DEFINE g == [f EXCEPT !.file.writtenBytes = @ + len, !.file.unflushed = @ + len]
             n == g.count + 1
             c == [g EXCEPT !.count = n]
             h == [g EXCEPT !.count = 0]
             l == [h EXCEPT !.lastFlush = t]
  <1>1. f \in LogFiles
    BY DEF FileInv
  <1>2. /\ g \in LogFiles /\ g.file.name = f.file.name /\ g.lastRoll = f.lastRoll
        /\ g.closed = f.closed /\ g.count \in Nat
    <2> DEFINE a == [f.file EXCEPT !.writtenBytes = @ + len]
               b == [a EXCEPT !.unflushed = @ + len]
    <2>1. f.file \in Files /\ f.count \in Nat
      BY <1>1, Zenon DEF LogFiles
    <2>2. f.file.writtenBytes + len \in Nat /\ f.file.unflushed + len \in Nat
      BY <2>1 DEF Files
    <2>3. a \in Files /\ a.name = f.file.name /\ a.unflushed = f.file.unflushed
      BY <2>1, <2>2, Zenon DEF Files
    <2>4. b \in Files /\ b.name = f.file.name
      BY <2>2, <2>3, Zenon DEF Files
    <2>5. g = [f EXCEPT !.file = b]
      BY <1>1, Zenon DEF LogFiles
    <2> HIDE DEF a, b, g
    <2>6. g \in LogFiles
      BY <1>1, <2>4, <2>5, Zenon DEF LogFiles
    <2>7. g.file = b /\ g.lastRoll = f.lastRoll /\ g.closed = f.closed /\ g.count = f.count
      BY <1>1, <2>5, Zenon DEF LogFiles
    <2>8. QED
      BY <2>1, <2>4, <2>6, <2>7, Zenon
  <1>3. FileInv(g, t)
    BY <1>2, SameFile, Zenon
  <1>4. append_unlocked(f, len, t) =
          IF g.file.writtenBytes > rollSize THEN rollFile(g, t)
          ELSE IF n < checkEveryN THEN c
          ELSE IF Period(t) # h.startOfPeriod THEN rollFile(h, t)
          ELSE IF t - h.lastFlush > flushInterval THEN flush(l) ELSE h
    BY Zenon DEF append_unlocked
  <1> HIDE DEF g
  <1>5. n \in Nat
    BY <1>2
  <1>6. c \in LogFiles /\ c.file.name = g.file.name /\ c.lastRoll = g.lastRoll /\ c.closed = g.closed
    BY <1>2, <1>5, Zenon DEF LogFiles
  <1>7. h \in LogFiles /\ h.file.name = g.file.name /\ h.lastRoll = g.lastRoll /\ h.closed = g.closed
    <2>1. 0 \in Nat
      OBVIOUS
    <2>2. QED
      BY <1>2, <2>1, Zenon DEF LogFiles
  <1> HIDE DEF h, c
  <1>8. l \in LogFiles /\ l.file.name = h.file.name /\ l.lastRoll = h.lastRoll /\ l.closed = h.closed
    BY <1>7, Zenon DEF LogFiles
  <1> HIDE DEF l, n
  <1>9. FileInv(c, t) /\ FileInv(h, t)
    BY <1>3, <1>6, <1>7, SameFile, Zenon
  <1>10. FileInv(l, t)
    BY <1>8, <1>9, SameFile, Zenon
  <1>11. FileInv(flush(l), t) /\ FileInv(rollFile(h, t), t) /\ FileInv(rollFile(g, t), t)
    BY <1>3, <1>9, <1>10, Flushed, RollFile, Zenon
  <1>12. QED
    BY <1>4, <1>9, <1>11, Zenon

(* The states that append() of one buffer after the other goes through. *)
After(f, lens, t) ==
  CHOOSE a : a = [n \in 0 .. Len(lens) |->
                    IF n = 0 THEN f ELSE append_unlocked(a[n - 1], lens[n], t)]

(* So does append() of any number of buffers: by induction on them. *)
LEMMA AppendAll ==
  ASSUME NEW t \in Nat, NEW f, FileInv(f, t), NEW lens \in Seq(Nat)
  PROVE  FileInv(appendAll(f, lens, t), t)
  <1> DEFINE N == Len(lens)
             Goes(a, n) == a = [i \in 0 .. n |->
                                  IF i = 0 THEN f ELSE append_unlocked(a[i - 1], lens[i], t)]
             T == {n \in Nat : \E a : Goes(a, n)}
             A == After(f, lens, t)
             U == {n \in Nat : n \in 0 .. N => FileInv(A[n], t)}
  <1>1. N \in Nat /\ N \in 0 .. N /\ 0 \in 0 .. N /\ \A i \in 1 .. N : lens[i] \in Nat
    OBVIOUS
  <1>2. 0 \in T
    <2>1. 0 \in Nat /\ 0 .. 0 = {0}
      OBVIOUS
    <2> DEFINE g == [i \in 0 .. 0 |-> f]
    <2>2. Goes(g, 0)
      BY <2>1, Zenon
    <2>3. QED
      BY <2>1, <2>2, Zenon
  <1>3. ASSUME NEW n \in 0 .. N, n \in T, n < N
        PROVE  n + 1 \in T
    <2>1. /\ n + 1 \in Nat /\ n + 1 # 0 /\ (n + 1) - 1 = n /\ n \in 0 .. n
          /\ \A i \in 0 .. n + 1 : \/ i = n + 1 /\ ~(i <= n)
                                   \/ i <= n /\ i \in 0 .. n /\ (i # 0 => i - 1 \in 0 .. n)
          /\ \A i \in 0 .. n : i <= n /\ i \in 0 .. n + 1
      <3>1. n < N /\ N \in Nat
        BY <1>1, <1>3, Zenon
      <3> HIDE DEF N, T
      <3>2. QED
        BY <3>1
    <2>2. PICK a : Goes(a, n)
      BY <1>3, Zenon
    <2> DEFINE g == [i \in 0 .. n + 1 |->
                       IF i <= n THEN a[i] ELSE append_unlocked(a[i - 1], lens[i], t)]
    <2>3. \A i \in 0 .. n : g[i] = a[i]
      BY <2>1, Zenon
    <2>4. \A i \in 0 .. n + 1 :
            g[i] = IF i = 0 THEN f ELSE append_unlocked(g[i - 1], lens[i], t)
      <3> SUFFICES ASSUME NEW i \in 0 .. n + 1
                   PROVE  g[i] = IF i = 0 THEN f ELSE append_unlocked(g[i - 1], lens[i], t)
        BY Zenon
      <3>1. CASE i = n + 1 /\ ~(i <= n)
        <4>1. g[i] = append_unlocked(a[i - 1], lens[i], t)
          BY <3>1, Zenon
        <4>2. a[i - 1] = g[i - 1]
          BY <2>1, <2>3, <3>1, Zenon
        <4> HIDE DEF g
        <4>3. QED
          BY <2>1, <3>1, <4>1, <4>2, Zenon
      <3>2. CASE i <= n /\ i \in 0 .. n /\ (i # 0 => i - 1 \in 0 .. n)
        <4>1. g[i] = a[i] /\ (i # 0 => g[i - 1] = a[i - 1])
          BY <2>3, <3>2, Zenon
        <4>2. a[i] = IF i = 0 THEN f ELSE append_unlocked(a[i - 1], lens[i], t)
          BY <2>2, <3>2, Zenon
        <4> HIDE DEF g
        <4>3. QED
          BY <4>1, <4>2, Zenon
      <3>3. QED
        BY <2>1, <3>1, <3>2, Zenon
    <2>5. g = [i \in 0 .. n + 1 |-> g[i]]
      BY Zenon
    <2> HIDE DEF g
    <2>6. Goes(g, n + 1)
      BY <2>4, <2>5, Zenon
    <2>7. QED
      BY <2>1, <2>6, Zenon
  <1>4. N \in T
    <2> HIDE DEF T, N
    <2>1. \A n \in 0 .. N : n \in T
      BY <1>1, <1>2, <1>3, Induction, Zenon
    <2>2. QED
      BY <1>1, <2>1, Zenon
  <1>5. Goes(A, N)
    <2>1. \E a : Goes(a, N)
      BY <1>4, Zenon
    <2>2. QED
      BY <2>1, Zenon DEF After
  <1>6. A[0] = f /\ \A n \in 0 .. N : n # 0 => A[n] = append_unlocked(A[n - 1], lens[n], t)
    <2> HIDE DEF A
    <2>1. QED
      BY <1>1, <1>5, Zenon
  <1>7. appendAll(f, lens, t) = A[N]
    BY Zenon DEF appendAll, After
  <1> HIDE DEF A
  <1>8. 0 \in U
    <2>1. 0 \in Nat
      OBVIOUS
    <2>2. QED
      BY <1>6, <2>1, Zenon
  <1>9. ASSUME NEW n \in 0 .. N, n \in U, n < N
        PROVE  n + 1 \in U
    <2>1. n + 1 \in Nat /\ n + 1 # 0 /\ (n + 1) - 1 = n /\ n + 1 \in 1 .. N /\ n + 1 \in 0 .. N
      <3>1. n < N /\ N \in Nat
        BY <1>1, <1>9, Zenon
      <3> HIDE DEF N, U
      <3>2. QED
        BY <3>1
    <2>2. A[n + 1] = append_unlocked(A[n], lens[n + 1], t)
      BY <1>6, <2>1, Zenon
    <2>3. FileInv(A[n], t) /\ lens[n + 1] \in Nat
      BY <1>1, <1>9, <2>1, Zenon
    <2>4. FileInv(A[n + 1], t)
      BY ZenonT(60), <2>2, <2>3, AppendUnlocked
    <2>5. QED
      BY <2>1, <2>4, Zenon
  <1>10. N \in U
    <2> HIDE DEF U, N
    <2>1. \A n \in 0 .. N : n \in U
      BY <1>1, <1>8, <1>9, Induction, Zenon
    <2>2. QED
      BY <1>1, <2>1, Zenon
  <1>11. QED
    BY <1>1, <1>7, <1>10, Zenon

-----------------------------------------------------------------------------
(* The log. *)
LogTypes ==
  /\ logging \in BOOLEAN
  /\ logger \in {"start", "top", "waiting", "woken", "write", "end"}
  /\ current \in Seq(Nat) /\ written \in Seq(Nat)
  /\ buffers \in Seq(Seq(Nat)) /\ toWrite \in Seq(Seq(Nat))
  /\ next \in {Empty, NULL} /\ new1 \in {Empty, NULL} /\ new2 \in {Empty, NULL}
  /\ now \in Nat /\ appended \in Nat /\ dropped \in SUBSET Nat

(* All but the lines and the files. *)
Spares ==
  /\ logger # "write" => new1 = Empty /\ new2 = Empty /\ toWrite = <<>>
  /\ logger = "write" => Len(toWrite) >= (IF new2 = NULL THEN 2 ELSE 1)
  /\ next = NULL => buffers # <<>>

LogInvariant ==
  /\ LogTypes /\ Spares /\ FileInv(output, now)
  /\ WrittenInOrder /\ dropped \subseteq 1 .. appended

(* A buffer that was moved away is not an empty one. *)
LEMMA NullIsNoBuffer == NULL # Empty
  BY LogAssumption, EmptySeq, Zenon DEF Empty

(* The state the constructor leaves. *)
LEMMA LogInitially == LogInit => LogInvariant
  <1> SUFFICES ASSUME LogInit PROVE LogInvariant
    OBVIOUS
  <1>1. LogTypes
    BY DEF LogInit, LogTypes, Empty
  <1>2. Spares
    BY NullIsNoBuffer, Zenon DEF LogInit, Spares
  <1>3. FileInv(output, now)
    <2>1. FileInv(LogFileCreated(1), 1)
      BY NewLogFile
    <2>2. QED
      BY <2>1, Zenon DEF LogInit
  <1>4. WrittenInOrder /\ dropped \subseteq 1 .. appended
    <2>1. Lines = <<>>
      <3>1. <<>> \o <<>> = <<>>
        OBVIOUS
      <3>2. QED
        BY <3>1, FlattenEmpty, Zenon DEF Lines, LogInit, Empty
    <2>2. Increasing(<<>>) /\ Range(<<>>) = {} /\ 1 .. 0 = {}
      BY DEF Increasing, Range
    <2>3. QED
      BY <2>1, <2>2, Zenon DEF WrittenInOrder, LogInit
  <1>5. QED
    BY <1>1, <1>2, <1>3, <1>4 DEF LogInvariant

(* Concatenation as an operator whose definition the provers need not see. *)
Cat(a, b) == a \o b

(* Where the parentheses are does not matter. *)
LEMMA CatAssociative ==
  \A a, b, c \in Seq(Nat) : Cat(Cat(a, b), c) = Cat(a, Cat(b, c))
  <1> SUFFICES ASSUME NEW a \in Seq(Nat), NEW b \in Seq(Nat), NEW c \in Seq(Nat)
               PROVE  (a \o b) \o c = a \o (b \o c)
    BY ZenonT(60) DEF Cat
  <1>1. QED
    OBVIOUS

(* Lines one after the other are lines. *)
LEMMA CatType == \A a, b \in Seq(Nat) : Cat(a, b) \in Seq(Nat)
  BY DEF Cat

(* No lines are added by an empty buffer. *)
LEMMA CatEmpty == \A a \in Seq(Nat) : Cat(a, <<>>) = a
  BY DEF Cat

(* A line at the end of the last buffer is the last of all. *)
LEMMA CatAppend == \A a, b \in Seq(Nat), n \in Nat : Cat(a, Append(b, n)) = Append(Cat(a, b), n)
  BY DEF Cat

(* The lines of two buffers. *)
LEMMA RangeCat == \A a, b \in Seq(Nat) : Range(Cat(a, b)) = Range(a) \cup Range(b)
  BY RangeConcatenation DEF Cat

(* All lines that are not dropped, with the concatenation hidden. *)
LEMMA LinesAre ==
  /\ Lines = Cat(Cat(Cat(written, Flatten(toWrite)), Flatten(buffers)), current)
  /\ Lines' = Cat(Cat(Cat(written', Flatten(toWrite')), Flatten(buffers')), current')
  BY DEF Lines, Cat

(* They are line numbers. *)
LEMMA LinesType ==
  ASSUME LogTypes
  PROVE  /\ Flatten(toWrite) \in Seq(Nat) /\ Flatten(buffers) \in Seq(Nat)
         /\ Lines \in Seq(Nat)
  <1>1. Flatten(toWrite) \in Seq(Nat) /\ Flatten(buffers) \in Seq(Nat)
    BY FlattenType, Zenon DEF LogTypes
  <1>2. written \in Seq(Nat) /\ current \in Seq(Nat)
    BY DEF LogTypes
  <1>3. Lines \in Seq(Nat)
    BY <1>1, <1>2, ConcatProperties DEF Lines
  <1>4. QED
    BY <1>1, <1>3

(* A line is appended to the current buffer, or to a new one, or to none. *)
LEMMA AppendLines ==
  ASSUME LogInvariant, NEW len \in {1, kLargeBuffer}, append(len)
  PROVE  Lines' = IF len < kLargeBuffer THEN Append(Lines, appended + 1) ELSE Lines
  <1>1. /\ Flatten(toWrite) \in Seq(Nat) /\ Flatten(buffers) \in Seq(Nat)
        /\ written \in Seq(Nat) /\ current \in Seq(Nat) /\ appended + 1 \in Nat
        /\ buffers \in Seq(Seq(Nat))
    <2>1. appended \in Nat
      BY DEF LogInvariant, LogTypes
    <2>2. appended + 1 \in Nat
      BY <2>1
    <2>3. QED
      BY <2>2, LinesType, Zenon DEF LogInvariant, LogTypes
  <1> DEFINE n == appended + 1
             T == Flatten(toWrite)
             B == Flatten(buffers)
  <1>2. UNCHANGED <<written, toWrite>> /\ appended' = n
    BY DEF append
  <1>7. Lines = Cat(Cat(Cat(written, T), B), current)
    BY LinesAre
  <1>8. Lines' = Cat(Cat(Cat(written, T), Flatten(buffers')), current')
    BY <1>2, LinesAre, Zenon
  <1>9. T \in Seq(Nat) /\ B \in Seq(Nat) /\ n \in Nat
    BY <1>1, Zenon
  <1>10. Cat(written, T) \in Seq(Nat) /\ Cat(Cat(written, T), B) \in Seq(Nat)
    BY ZenonT(60), <1>1, <1>9, CatType
  <1>11. Cat(Cat(written, T), Cat(B, current)) = Cat(Cat(Cat(written, T), B), current)
    BY <1>1, <1>9, <1>10, CatAssociative
  <1>3. kLargeBuffer \in Nat /\ len \in Nat /\ Len(current) \in Nat /\ Len(<<>>) = 0
    BY <1>1, LogAssumption
  <1>4. CASE avail(current) > len
    <2>1. current' = Append(current, n) /\ buffers' = buffers
      BY <1>2, <1>4, Zenon DEF append, Line
    <2>2. len < kLargeBuffer
      BY <1>3, <1>4 DEF avail
    <2>3. Lines' = Append(Lines, n)
      <3>1. Lines' = Cat(Cat(Cat(written, T), B), Append(current, n))
        BY <1>8, <2>1, Zenon
      <3>2. QED
        BY ZenonT(60), <1>1, <1>7, <1>9, <1>10, <3>1, CatAppend
    <2>4. QED
      BY <2>2, <2>3, Zenon
  <1>5. CASE ~(avail(current) > len)
    <2>1. buffers' = Append(buffers, current) /\ current' = Appended(Empty, n, len)
      BY <1>1, <1>2, <1>5, Zenon DEF append, Line, Following, LogInvariant, LogTypes
    <2>2. Flatten(buffers') = Cat(B, current)
      BY <1>1, <2>1, FlattenAppend, Zenon DEF Cat
    <2>3. CASE len < kLargeBuffer
      <3>1. current' = Append(<<>>, n)
        <4>1. avail(Empty) > len
          BY <1>3, <2>3 DEF avail, Empty
        <4>2. QED
          BY <2>1, <4>1, Zenon DEF Appended, Empty
      <3>2. Append(<<>>, n) \in Seq(Nat) /\ Cat(Lines, Append(<<>>, n)) = Append(Lines, n)
        BY <1>1, LinesType DEF LogInvariant, Cat
      <3>3. Lines' = Cat(Lines, Append(<<>>, n))
        <4>1. Lines' = Cat(Cat(Cat(written, T), Cat(B, current)), Append(<<>>, n))
          BY <1>8, <2>2, <3>1, Zenon
        <4>2. QED
          BY <1>7, <1>11, <4>1, Zenon
      <3>4. QED
        BY <2>3, <3>2, <3>3, Zenon
    <2>4. CASE ~(len < kLargeBuffer)
      <3>1. current' = <<>>
        <4>1. ~(avail(Empty) > len)
          BY <1>3, <2>4 DEF avail, Empty
        <4>2. QED
          BY <2>1, <4>1, Zenon DEF Appended, Empty
      <3>2. <<>> \in Seq(Nat) /\ Cat(Lines, <<>>) = Lines
        BY <1>1, LinesType DEF LogInvariant, Cat
      <3>3. Lines' = Cat(Lines, <<>>)
        <4>1. Lines' = Cat(Cat(Cat(written, T), Cat(B, current)), <<>>)
          BY <1>8, <2>2, <3>1, Zenon
        <4>2. QED
          BY <1>7, <1>11, <4>1, Zenon
      <3>4. QED
        BY <2>4, <3>2, <3>3, Zenon
    <2>5. QED
      BY <2>3, <2>4
  <1>6. QED
    BY <1>4, <1>5

(* append() numbers a line after all others. *)
LEMMA AppendKeepsOrder ==
  ASSUME LogInvariant, NEW len \in {1, kLargeBuffer}, append(len)
  PROVE  WrittenInOrder' /\ (dropped \subseteq 1 .. appended)'
  <1> DEFINE n == appended + 1
  <1>1. /\ appended \in Nat /\ n \in Nat /\ dropped \subseteq 1 .. appended
        /\ Increasing(Lines) /\ Range(Lines) = (1 .. appended) \ dropped
    <2>1. appended \in Nat /\ dropped \subseteq 1 .. appended
          /\ Increasing(Lines) /\ Range(Lines) = (1 .. appended) \ dropped
      BY DEF LogInvariant, LogTypes, WrittenInOrder
    <2>2. QED
      BY <2>1
  <1>2. Lines \in Seq(Nat)
    BY LinesType DEF LogInvariant
  <1>3. 1 .. n = (1 .. appended) \cup {n} /\ n \notin 1 .. appended /\ \A x \in 1 .. appended : x < n
    BY <1>1
  <1>4. appended' = n /\ dropped' = IF len >= kLargeBuffer THEN dropped \cup {n} ELSE dropped
    BY Zenon DEF append
  <1>5. Lines' = IF len < kLargeBuffer THEN Append(Lines, n) ELSE Lines
    BY AppendLines
  <1>6. len < kLargeBuffer <=> ~(len >= kLargeBuffer)
    BY LogAssumption
  <1>7. Increasing(Append(Lines, n)) /\ Range(Append(Lines, n)) = Range(Lines) \cup {n}
    <2>1. \A x \in Range(Lines) : x < n
      BY <1>1, <1>3, Zenon
    <2>2. QED
      BY <1>1, <1>2, <2>1, IncreasingAppend, Zenon
  <1> HIDE DEF n
  <1>8. Increasing(Lines') /\ Range(Lines') = (1 .. n) \ dropped' /\ dropped' \subseteq 1 .. n
    <2>1. CASE len >= kLargeBuffer
      BY <1>1, <1>3, <1>4, <1>5, <1>6, <2>1, Zenon
    <2>2. CASE ~(len >= kLargeBuffer)
      BY <1>1, <1>3, <1>4, <1>5, <1>6, <1>7, <2>2, Zenon
    <2>3. QED
      BY <2>1, <2>2
  <1>9. WrittenInOrder' <=> Increasing(Lines') /\ Range(Lines') = (1 .. appended') \ dropped'
    BY Zenon DEF WrittenInOrder, Increasing, Range
  <1>10. QED
    BY <1>4, <1>8, <1>9, Zenon

(* The critical section of the logging thread leaves every line in its place. *)
LEMMA SwapKeepsOrder ==
  ASSUME LogInvariant, logger # "write", Swapped
  PROVE  Lines' = Lines /\ LogTypes' /\ Spares'
  <1> DEFINE B == Flatten(buffers)
  <1>1. /\ B \in Seq(Nat) /\ written \in Seq(Nat) /\ current \in Seq(Nat)
        /\ buffers \in Seq(Seq(Nat)) /\ toWrite = <<>> /\ new1 = <<>> /\ new2 = <<>>
    BY LinesType, Zenon DEF LogInvariant, LogTypes, Spares, Empty
  <1>2. /\ toWrite' = Append(buffers, current) /\ buffers' = <<>> /\ current' = <<>>
        /\ written' = written /\ new1' = NULL /\ logger' = "write"
        /\ UNCHANGED <<logging, now, appended, dropped>>
    BY <1>1, Zenon DEF Swapped, Collected
  <1>3. \/ next = NULL /\ next' = Empty /\ new2' = NULL
        \/ next # NULL /\ next' = next /\ new2' = Empty
    BY <1>1, Zenon DEF Swapped, Empty
  <1>4. Flatten(toWrite') = Cat(B, current)
    BY <1>1, <1>2, FlattenAppend, Zenon DEF Cat
  <1>5. Lines' = Lines
    <2>1. Lines' = Cat(Cat(Cat(written, Cat(B, current)), <<>>), <<>>)
      BY <1>2, <1>4, LinesAre, FlattenEmpty, Zenon
    <2>2. Lines = Cat(Cat(Cat(written, <<>>), B), current)
      BY <1>1, LinesAre, FlattenEmpty, Zenon
    <2> HIDE DEF B
    <2>3. Cat(B, current) \in Seq(Nat) /\ Cat(written, Cat(B, current)) \in Seq(Nat)
      BY <1>1, CatType, Zenon
    <2>4. Lines' = Cat(written, Cat(B, current)) /\ Lines = Cat(Cat(written, B), current)
      BY ZenonT(60), <1>1, <2>1, <2>2, <2>3, CatEmpty
    <2>5. QED
      BY <1>1, <2>4, CatAssociative
  <1>6. <<>> \in Seq(Nat) /\ <<>> \in Seq(Seq(Nat)) /\ Append(buffers, current) \in Seq(Seq(Nat))
    BY <1>1
  <1>7. LogTypes'
    <2>1. LogTypes
      BY DEF LogInvariant
    <2>2. QED
      BY <1>2, <1>3, <1>6, <2>1, Zenon DEF LogTypes
  <1>8. Spares'
    <2>1. Len(toWrite') >= 1 /\ (buffers # <<>> => Len(toWrite') >= 2)
      BY <1>1, <1>2
    <2>2. next = NULL => buffers # <<>>
      BY DEF LogInvariant, Spares
    <2>3. next' # NULL
      BY <1>3, NullIsNoBuffer, Zenon
    <2>4. QED
      BY <1>2, <1>3, <2>1, <2>2, <2>3, NullIsNoBuffer, Zenon DEF Spares
  <1>9. QED
    BY <1>5, <1>7, <1>8

(* All lines: those written so far and of the buffers that are kept, those *)
(* of the buffers that are erased, and the later ones.                     *)
LEMMA LinesSplit ==
  ASSUME LogInvariant
  PROVE  /\ Flatten(ToWrite) \in Seq(Nat)
         /\ \E q \in Seq(Nat) :
              /\ Range(q) = Erased
              /\ Lines = Cat(Cat(Cat(written, Flatten(ToWrite)), q), Cat(Flatten(buffers), current))
  <1> DEFINE B == Flatten(buffers)
             P == Flatten(ToWrite)
             k == Len(ToWrite)
  <1>1. /\ written \in Seq(Nat) /\ current \in Seq(Nat) /\ B \in Seq(Nat)
        /\ toWrite \in Seq(Seq(Nat))
    BY LinesType, Zenon DEF LogInvariant, LogTypes
  <1>2. ToWrite \in Seq(Seq(Nat)) /\ k \in 0 .. Len(toWrite) /\ ToWrite = SubSeq(toWrite, 1, k)
    <2>1. CASE TooMany
      <3>1. ToWrite = SubSeq(toWrite, 1, 2)
        BY <2>1, Zenon DEF ToWrite
      <3>2. Len(toWrite) >= 2
        BY <1>1, <2>1, LogAssumption DEF TooMany
      <3>3. SubSeq(toWrite, 1, 2) \in Seq(Seq(Nat)) /\ Len(SubSeq(toWrite, 1, 2)) = 2
        BY <1>1, <3>2
      <3>4. k = 2 /\ 2 \in 0 .. Len(toWrite)
        BY <1>1, <3>1, <3>2, <3>3
      <3>5. QED
        BY <3>1, <3>3, <3>4, Zenon
    <2>2. CASE ~TooMany
      <3>1. ToWrite = toWrite
        BY <2>2, Zenon DEF ToWrite
      <3>2. Len(toWrite) \in 0 .. Len(toWrite) /\ SubSeq(toWrite, 1, Len(toWrite)) = toWrite
        BY <1>1
      <3>3. QED
        BY <1>1, <3>1, <3>2, Zenon
    <2>3. QED
      BY <2>1, <2>2
  <1>3. P \in Seq(Nat)
    BY <1>2, FlattenType, Zenon
  <1>4. PICK q \in Seq(Nat) : Flatten(toWrite) = Cat(P, q) /\ Range(q) = Erased
    <2>1. \E q \in Seq(Nat) :
            /\ Flatten(toWrite) = Flatten(SubSeq(toWrite, 1, k)) \o q
            /\ Range(q) = UNION {Range(toWrite[j]) : j \in k + 1 .. Len(toWrite)}
      BY <1>1, <1>2, FlattenFirst, Zenon
    <2>2. QED
      BY <1>2, <2>1, Zenon DEF Erased, Cat
  <1> DEFINE a == Cat(written, P)
             b == Cat(B, current)
  <1>6. a \in Seq(Nat) /\ b \in Seq(Nat) /\ Cat(a, q) \in Seq(Nat)
    BY <1>1, <1>3, CatType, Zenon
  <1>7. Lines = Cat(Cat(a, q), b)
    <2>1. Lines = Cat(Cat(Cat(written, Cat(P, q)), B), current)
      BY <1>4, LinesAre, Zenon
    <2>2. Cat(written, Cat(P, q)) = Cat(a, q)
      BY <1>1, <1>3, CatAssociative
    <2> HIDE DEF a, B
    <2>3. Cat(Cat(Cat(a, q), B), current) = Cat(Cat(a, q), b)
      BY <1>1, <1>6, CatAssociative
    <2>4. QED
      BY <2>1, <2>2, <2>3, Zenon
  <1>8. QED
    BY <1>3, <1>4, <1>7, Zenon

(* In an increasing sequence what comes first is less.                     *)
LEMMA FirstIsLess ==
  ASSUME NEW a \in Seq(Nat), NEW q \in Seq(Nat), NEW b \in Seq(Nat), Increasing((a \o q) \o b)
  PROVE  \A m \in Range(a), n \in Range(q) : m < n
  <1> DEFINE s == (a \o q) \o b
             A == Len(a)
             Q == Len(q)
             B == Len(b)
  <1>1. /\ A \in Nat /\ Q \in Nat /\ B \in Nat
        /\ DOMAIN a = 1 .. A /\ DOMAIN q = 1 .. Q /\ DOMAIN s = 1 .. A + Q + B
        /\ \A i \in 1 .. A : s[i] = a[i]
        /\ \A i \in 1 .. Q : s[A + i] = q[i]
    OBVIOUS
  <1>2. \A i, j \in DOMAIN s : i < j => s[i] < s[j]
    BY Zenon DEF Increasing
  <1> HIDE DEF s, A, Q, B
  <1>3. SUFFICES ASSUME NEW i \in 1 .. A, NEW j \in 1 .. Q PROVE a[i] < q[j]
    BY <1>1, Zenon DEF Range
  <1>4. i \in 1 .. A + Q + B /\ A + j \in 1 .. A + Q + B /\ i < A + j
    BY <1>1
  <1>5. s[i] < s[A + j]
    BY <1>1, <1>2, <1>4, Zenon
  <1>6. QED
    BY <1>1, <1>5, Zenon

(* The lines that are kept are older than those that are erased.           *)
LEMMA KeptAreOldest ==
  ASSUME LogInvariant
  PROVE  OldestAreKept
  <1> DEFINE P == Flatten(ToWrite)
             a == Cat(written, P)
             b == Cat(Flatten(buffers), current)
  <1>1. PICK q \in Seq(Nat) : Range(q) = Erased /\ Lines = Cat(Cat(a, q), b)
    BY LinesSplit, Zenon
  <1>2. /\ written \in Seq(Nat) /\ P \in Seq(Nat) /\ Flatten(buffers) \in Seq(Nat)
        /\ current \in Seq(Nat) /\ Increasing(Lines)
    BY LinesType, LinesSplit, Zenon DEF LogInvariant, LogTypes, WrittenInOrder
  <1>3. a \in Seq(Nat) /\ b \in Seq(Nat) /\ Range(P) \subseteq Range(a)
    BY <1>2, CatType, RangeCat, Zenon
  <1> HIDE DEF a, b, P
  <1>4. Increasing((a \o q) \o b)
    BY <1>1, <1>2 DEF Cat
  <1>5. \A m \in Range(a), n \in Range(q) : m < n
    BY <1>3, <1>4, FirstIsLess
  <1>6. QED
    BY <1>1, <1>3, <1>5, Zenon DEF OldestAreKept, P

(* The lines of the buffers that are written, and those of the erased ones. *)
LEMMA WriteKeepsOrder ==
  ASSUME LogInvariant, threadWrite
  PROVE  WrittenInOrder' /\ (dropped \subseteq 1 .. appended)'
  <1> DEFINE B == Flatten(buffers)
             P == Flatten(ToWrite)
  <1>1. /\ written \in Seq(Nat) /\ current \in Seq(Nat) /\ B \in Seq(Nat)
        /\ toWrite \in Seq(Seq(Nat)) /\ Increasing(Lines)
        /\ Range(Lines) = (1 .. appended) \ dropped /\ dropped \subseteq 1 .. appended
    BY LinesType, Zenon DEF LogInvariant, LogTypes, WrittenInOrder
  <1>3. P \in Seq(Nat)
    BY LinesSplit, Zenon
  <1> DEFINE a == Cat(written, P)
             b == Cat(B, current)
  <1>4. PICK q \in Seq(Nat) : Range(q) = Erased /\ Lines = Cat(Cat(a, q), b)
    BY LinesSplit, Zenon
  <1>5. /\ written' = Cat(written, P) /\ toWrite' = <<>> /\ dropped' = dropped \cup Erased
        /\ UNCHANGED <<buffers, current, appended>>
    BY Zenon DEF threadWrite, Cat
  <1>6. a \in Seq(Nat) /\ b \in Seq(Nat) /\ Cat(a, q) \in Seq(Nat)
    BY <1>1, <1>3, CatType, Zenon
  <1>8. Lines' = Cat(a, b)
    <2>1. Lines' = Cat(Cat(Cat(a, <<>>), B), current)
      BY <1>5, LinesAre, FlattenEmpty, Zenon
    <2> HIDE DEF a, B
    <2>2. Cat(a, <<>>) = a
      BY <1>6, CatEmpty, Zenon
    <2>3. Cat(Cat(a, B), current) = Cat(a, b)
      BY <1>1, <1>6, CatAssociative
    <2>4. QED
      BY <2>1, <2>2, <2>3, Zenon
  <1> HIDE DEF a, b
  <1>9. Increasing(Lines') /\ Range(Lines') = Range(Lines) \ Erased
    <2>1. Increasing((a \o q) \o b)
      BY <1>1, <1>4 DEF Cat
    <2>2. Increasing(a \o b) /\ Range(a \o b) = Range((a \o q) \o b) \ Range(q)
      BY <1>6, <2>1, IncreasingCut
    <2>3. Lines' = a \o b /\ Lines = (a \o q) \o b
      BY <1>4, <1>8 DEF Cat
    <2>4. QED
      BY <1>4, <2>2, <2>3
  <1>10. Erased \subseteq Range(Lines)
    <2>1. Range(Cat(a, q)) = Range(a) \cup Range(q)
      BY <1>6, RangeCat, Zenon
    <2>2. Range(Cat(Cat(a, q), b)) = Range(Cat(a, q)) \cup Range(b)
      BY <1>6, RangeCat, Zenon
    <2>3. QED
      BY <1>4, <2>1, <2>2, Zenon
  <1>11. WrittenInOrder' <=> Increasing(Lines') /\ Range(Lines') = (1 .. appended') \ dropped'
    BY Zenon DEF WrittenInOrder, Increasing, Range
  <1>12. QED
    BY <1>1, <1>5, <1>9, <1>10, <1>11, Zenon

(* resize(2) leaves at most two buffers. *)
LEMMA KeptIsTwo ==
  ASSUME NEW bs \in Seq(Seq(Nat)), Len(bs) >= 2
  PROVE  Kept(bs) \in Seq(Seq(Nat)) /\ Len(Kept(bs)) = 2
  <1>1. CASE Len(bs) > 2
    <2>1. SubSeq(bs, 1, 2) \in Seq(Seq(Nat)) /\ Len(SubSeq(bs, 1, 2)) = 2
      BY <1>1
    <2>2. QED
      BY <1>1, <2>1, Zenon DEF Kept
  <1>2. CASE ~(Len(bs) > 2)
    <2> DEFINE N == Len(bs)
    <2>3. N \in Nat /\ N >= 2 /\ ~(N > 2)
      BY <1>2, LenProperties, Zenon
    <2> HIDE DEF N
    <2>4. N = 2
      BY <2>3
    <2>1. Len(bs) = 2
      BY <2>4 DEF N
    <2>2. QED
      BY <1>2, <2>1, Zenon DEF Kept
  <1>3. QED
    BY <1>1, <1>2

(* What append() of the LogFile is given are lengths. *)
LEMMA LengthsType ==
  ASSUME NEW bs \in Seq(Seq(Nat))
  PROVE  [i \in DOMAIN bs |-> Len(bs[i])] \in Seq(Nat)
  <1>1. DOMAIN bs = 1 .. Len(bs) /\ Len(bs) \in Nat /\ \A i \in 1 .. Len(bs) : bs[i] \in Seq(Nat)
    OBVIOUS
  <1>2. \A b \in Seq(Nat) : Len(b) \in Nat
    OBVIOUS
  <1>3. \A i \in 1 .. Len(bs) : Len(bs[i]) \in Nat
    BY <1>1, <1>2, Zenon
  <1>4. QED
    BY <1>1, <1>3

(* The spares after buffers were written: two were swapped out when both   *)
(* spares were given away.                                                 *)
LEMMA WriteKeepsSpares ==
  ASSUME LogInvariant, threadWrite
  PROVE  LogTypes' /\ Spares'
  <1>1. /\ LogTypes /\ toWrite \in Seq(Seq(Nat)) /\ new2 \in {Empty, NULL}
        /\ Len(toWrite) >= (IF new2 = NULL THEN 2 ELSE 1)
    BY Zenon DEF LogInvariant, LogTypes, Spares, threadWrite
  <1>2. ASSUME new2 = NULL PROVE Left # <<>>
    <2>1. Len(toWrite) >= 2 /\ Len(toWrite) \in Nat
      BY <1>1, <1>2
    <2>2. ToWrite \in Seq(Seq(Nat)) /\ Len(ToWrite) >= 2
      BY <1>1, <2>1 DEF ToWrite
    <2>3. Kept(ToWrite) \in Seq(Seq(Nat)) /\ Len(Kept(ToWrite)) = 2
      BY <2>2, KeptIsTwo, Zenon
    <2>4. Len(SubSeq(Kept(ToWrite), 1, Len(Kept(ToWrite)) - 1)) = 1
      BY <2>3
    <2>5. Len(Left) = 1 \/ Len(Left) = 2
      BY <2>3, <2>4, Zenon DEF Left
    <2>6. Len(<<>>) # 1 /\ Len(<<>>) # 2
      OBVIOUS
    <2>7. QED
      BY <2>5, <2>6, Zenon
  <1>3. new2' = Empty /\ new1' = Empty /\ toWrite' = <<>> /\ logger' = "top"
        /\ UNCHANGED <<logging, current, next, buffers, now, appended>>
    BY <1>2, Zenon DEF threadWrite
  <1>4. written' \in Seq(Nat) /\ dropped' \in SUBSET Nat
    <2>1. ToWrite \in Seq(Seq(Nat))
      BY <1>1, LogAssumption DEF ToWrite, TooMany
    <2>2. Flatten(ToWrite) \in Seq(Nat)
      BY <2>1, FlattenType, Zenon
    <2>3. written' = Cat(written, Flatten(ToWrite)) /\ dropped' = dropped \cup Erased
      BY Zenon DEF threadWrite, Cat
    <2>4. \A j \in 1 .. Len(toWrite) : toWrite[j] \in Seq(Nat)
      BY <1>1
    <2>5. (Len(ToWrite) + 1) .. Len(toWrite) \subseteq 1 .. Len(toWrite)
      BY <1>1, <2>1
    <2>6. \A b \in Seq(Nat) : Range(b) \subseteq Nat
      BY DEF Range
    <2>7. Erased \subseteq Nat
      BY <2>4, <2>5, <2>6, Zenon DEF Erased
    <2>8. written \in Seq(Nat) /\ dropped \in SUBSET Nat
      BY <1>1 DEF LogTypes
    <2>9. written' \in Seq(Nat)
      BY <2>2, <2>3, <2>8, CatType, Zenon
    <2>10. QED
      BY ZenonT(60), <2>3, <2>7, <2>8, <2>9
  <1>5. <<>> \in Seq(Seq(Nat))
    OBVIOUS
  <1>6. LogTypes'
    BY <1>1, <1>3, <1>4, <1>5, Zenon DEF LogTypes
  <1>7. Spares'
    <2>1. next = NULL => buffers # <<>>
      BY DEF LogInvariant, Spares
    <2>2. QED
      BY <1>3, <2>1, Zenon DEF Spares
  <1>8. QED
    BY <1>6, <1>7

(* The files after buffers were written. *)
LEMMA WriteKeepsFiles ==
  ASSUME LogInvariant, threadWrite
  PROVE  FileInv(output', now')
  <1>1. FileInv(output, now) /\ now \in Nat /\ toWrite \in Seq(Seq(Nat))
    BY DEF LogInvariant, LogTypes
  <1>2. Lengths \in Seq(Nat)
    <2>1. ToWrite \in Seq(Seq(Nat))
      BY <1>1, LogAssumption DEF ToWrite, TooMany
    <2>2. [i \in DOMAIN ToWrite |-> Len(ToWrite[i])] \in Seq(Nat)
      BY <2>1, LengthsType, Zenon
    <2>3. <<NoticeLength>> \in Seq(Nat) /\ <<>> \in Seq(Nat)
      BY DEF NoticeLength
    <2>4. (IF TooMany THEN <<NoticeLength>> ELSE <<>>) \in Seq(Nat)
      BY <2>3, Zenon
    <2>5. QED
      BY <2>2, <2>4, ConcatProperties, Zenon DEF Lengths
  <1>3. FileInv(flush(appendAll(output, Lengths, now)), now)
    BY <1>1, <1>2, AppendAll, Flushed, Zenon
  <1>4. QED
    BY <1>3, Zenon DEF threadWrite

(* A step that leaves the buffers, the spares and the lines alone. *)
LEMMA LinesStay ==
  ASSUME LogInvariant, LogTypes', Spares', Lines' = Lines, UNCHANGED <<appended, dropped>>,
         FileInv(output', now')
  PROVE  LogInvariant'
  <1>1. WrittenInOrder' <=> Increasing(Lines') /\ Range(Lines') = (1 .. appended') \ dropped'
    BY Zenon DEF WrittenInOrder, Increasing, Range
  <1>2. WrittenInOrder'
    BY <1>1, Zenon DEF LogInvariant, WrittenInOrder
  <1>3. FileInv(output, now)'
    BY Zenon DEF FileInv, Increasing
  <1>4. QED
    BY <1>2, <1>3, Zenon DEF LogInvariant

(* append() gives nextBuffer_ away only for a buffer it has filled. *)
LEMMA AppendKeepsSpares ==
  ASSUME LogInvariant, NEW len \in {1, kLargeBuffer}, append(len)
  PROVE  LogTypes' /\ Spares'
  <1>1. /\ LogTypes /\ Spares /\ appended \in Nat /\ current \in Seq(Nat)
        /\ buffers \in Seq(Seq(Nat)) /\ dropped \in SUBSET Nat
    BY DEF LogInvariant, LogTypes
  <1>2. /\ UNCHANGED <<logging, new1, new2, toWrite, output, now, written>>
        /\ appended' = appended + 1
        /\ dropped' = dropped \/ dropped' = dropped \cup {appended + 1}
    BY Zenon DEF append
  <1>3. /\ appended + 1 \in Nat /\ <<>> \in Seq(Nat) /\ Append(<<>>, appended + 1) \in Seq(Nat)
        /\ Append(current, appended + 1) \in Seq(Nat)
        /\ Append(buffers, current) \in Seq(Seq(Nat)) /\ Append(buffers, current) # <<>>
    <2>1. appended + 1 \in Nat
      BY <1>1
    <2>2. <<>> \in Seq(Nat)
      BY EmptySeq, Zenon
    <2>3. Append(<<>>, appended + 1) \in Seq(Nat) /\ Append(current, appended + 1) \in Seq(Nat)
      BY <1>1, <2>1, <2>2, AppendProperties, Zenon
    <2>4. Append(buffers, current) \in Seq(Seq(Nat)) /\ Append(buffers, current) # <<>>
      <3>1. buffers \in Seq(Seq(Nat)) /\ current \in Seq(Nat)
        BY <1>1
      <3>2. QED
        BY <3>1, AppendProperties
    <2>5. QED
      BY <2>1, <2>2, <2>3, <2>4
  <1>4. /\ current' \in Seq(Nat) /\ buffers' \in Seq(Seq(Nat))
        /\ \/ UNCHANGED <<buffers, next, logger>>
           \/ buffers' # <<>> /\ next' = NULL
        /\ logger' = logger \/ (logger = "waiting" /\ logger' = "woken")
    <2>1. CASE avail(current) > len
      BY <1>1, <1>2, <1>3, <2>1, Zenon DEF append, Line
    <2>2. CASE ~(avail(current) > len)
      <3>1. buffers' = Append(buffers, current) /\ next' = NULL
            /\ current' = Appended(Empty, appended + 1, len)
            /\ logger' = IF logger = "waiting" THEN "woken" ELSE logger
        BY <1>1, <1>2, <2>2, Zenon DEF append, Line, Following, LogTypes
      <3>2. current' \in Seq(Nat)
        BY <1>3, <3>1, Zenon DEF Appended, Empty
      <3>3. QED
        BY <1>3, <3>1, <3>2, Zenon
    <2>3. QED
      BY <2>1, <2>2
  <1>5. LogTypes'
    BY <1>1, <1>2, <1>3, <1>4, Zenon DEF LogTypes
  <1>6. Spares'
    BY <1>1, <1>2, <1>4, Zenon DEF Spares
  <1>7. QED
    BY <1>5, <1>6

(* Every step of the threads keeps the invariant. *)
LEMMA LogStep == LogInvariant /\ [LogNext]_logVars => LogInvariant'
  <1> SUFFICES ASSUME LogInvariant, [LogNext]_logVars PROVE LogInvariant'
    OBVIOUS
  <1>0. LogTypes /\ Spares /\ FileInv(output, now) /\ now \in Nat
    BY DEF LogInvariant, LogTypes
  <1>1. ASSUME NEW len \in {1, kLargeBuffer}, append(len) PROVE LogInvariant'
    <2>1. UNCHANGED <<output, now>>
      BY <1>1, Zenon DEF append
    <2>2. FileInv(output, now)'
      BY <1>0, <2>1, Zenon DEF FileInv, Increasing
    <2>3. QED
      BY <1>1, <2>2, AppendKeepsOrder, AppendKeepsSpares, Zenon DEF LogInvariant
  <1>2. CASE logging_stop \/ logging_stopNotifies
    <2>1. /\ UNCHANGED <<current, next, buffers, new1, new2, toWrite, output, now, appended, dropped, written>>
          /\ logging' \in BOOLEAN /\ (logger' = logger \/ (logger = "waiting" /\ logger' = "woken"))
      BY <1>0, <1>2, Zenon DEF logging_stop, logging_stopNotifies, LogTypes
    <2>2. LogTypes' /\ Spares'
      BY <1>0, <2>1, Zenon DEF LogTypes, Spares
    <2>3. Lines' = Lines
      BY <2>1, LinesAre, Zenon
    <2>4. QED
      BY <1>0, <2>1, <2>2, <2>3, LinesStay, Zenon
  <1>3. CASE threadStart
    <2>1. /\ UNCHANGED <<logging, current, next, buffers, new1, new2, toWrite, now, appended, dropped, written>>
          /\ logger = "start" /\ logger' = "top" /\ output' = LogFileCreated(now)
      BY <1>3, Zenon DEF threadStart
    <2>2. LogTypes' /\ Spares'
      BY <1>0, <2>1, Zenon DEF LogTypes, Spares
    <2>3. Lines' = Lines
      BY <2>1, LinesAre, Zenon
    <2>4. FileInv(output', now')
      BY <1>0, <2>1, NewLogFile, Zenon
    <2>5. QED
      BY <2>1, <2>2, <2>3, <2>4, LinesStay, Zenon
  <1>4. ASSUME logger # "write", Swapped PROVE LogInvariant'
    <2>1. UNCHANGED <<output, now, appended, dropped>>
      BY <1>4, Zenon DEF Swapped
    <2>2. Lines' = Lines /\ LogTypes' /\ Spares'
      BY <1>4, SwapKeepsOrder, Zenon
    <2>3. QED
      BY <1>0, <2>1, <2>2, LinesStay, Zenon
  <1>5. CASE threadTop
    <2>1. CASE buffers = <<>>
      <3>1. /\ UNCHANGED <<logging, current, next, buffers, new1, new2, toWrite, output, now, appended, dropped, written>>
            /\ logger = "top" /\ logger' = "waiting"
        BY <1>5, <2>1, Zenon DEF threadTop
      <3>2. LogTypes' /\ Spares'
        BY <1>0, <3>1, Zenon DEF LogTypes, Spares
      <3>3. Lines' = Lines
        BY <3>1, LinesAre, Zenon
      <3>4. QED
        BY <1>0, <3>1, <3>2, <3>3, LinesStay, Zenon
    <2>2. CASE buffers # <<>>
      BY <1>4, <1>5, <2>2, Zenon DEF threadTop
    <2>3. QED
      BY <2>1, <2>2
  <1>6. CASE threadWoken
    BY <1>4, <1>6, Zenon DEF threadWoken, WaitReturns
  <1>7. CASE threadWrite
    <2>1. FileInv(output, now)'
      BY <1>7, WriteKeepsFiles, Zenon DEF FileInv, Increasing
    <2>2. QED
      BY <1>7, <2>1, WriteKeepsOrder, WriteKeepsSpares, Zenon DEF LogInvariant
  <1>8. CASE threadEnd
    <2>1. /\ UNCHANGED <<logging, current, next, buffers, new1, new2, toWrite, now, appended, dropped, written>>
          /\ logger = "top" /\ logger' = "end" /\ output' = flush(output)
      BY <1>8, Zenon DEF threadEnd
    <2>2. LogTypes' /\ Spares'
      BY <1>0, <2>1, Zenon DEF LogTypes, Spares
    <2>3. Lines' = Lines
      BY <2>1, LinesAre, Zenon
    <2>4. FileInv(output', now')
      BY <1>0, <2>1, Flushed, Zenon
    <2>5. QED
      BY <2>1, <2>2, <2>3, <2>4, LinesStay, Zenon
  <1>9. CASE tick
    <2>1. /\ UNCHANGED <<logging, current, next, buffers, logger, new1, new2, toWrite, output, appended, dropped, written>>
          /\ now' = now + 1
      BY <1>9, Zenon DEF tick
    <2>2. now' \in Nat
      BY <1>0, <2>1
    <2>3. LogTypes' /\ Spares'
      BY <1>0, <2>1, <2>2, Zenon DEF LogTypes, Spares
    <2>4. Lines' = Lines
      BY <2>1, LinesAre, Zenon
    <2>5. FileInv(output', now')
      <3>1. output \in LogFiles /\ output.lastRoll <= now
        BY <1>0 DEF FileInv
      <3>2. output.lastRoll \in Nat
        BY <3>1, Zenon DEF LogFiles
      <3>3. output.lastRoll <= now + 1
        BY <1>0, <3>1, <3>2
      <3>4. FileInv(output, now + 1)
        BY <1>0, <3>3, Zenon DEF FileInv
      <3>5. QED
        BY <2>1, <3>4, Zenon
    <2>6. QED
      BY <2>1, <2>3, <2>4, <2>5, LinesStay, Zenon
  <1>10. CASE UNCHANGED logVars
    <2>1. UNCHANGED <<logging, current, next, buffers, logger, new1, new2, toWrite, output, now, appended, dropped, written>>
      BY <1>10, Zenon DEF logVars
    <2>2. LogTypes' /\ Spares'
      BY <1>0, <2>1, Zenon DEF LogTypes, Spares
    <2>3. Lines' = Lines
      BY <2>1, LinesAre, Zenon
    <2>4. QED
      BY <1>0, <2>1, <2>2, <2>3, LinesStay, Zenon
  <1>11. QED
    BY <1>1, <1>2, <1>3, <1>5, <1>6, <1>7, <1>8, <1>9, <1>10, Zenon DEF LogNext,
       logging_threadFunc

(* Whatever threads append and however the logging thread is scheduled:    *)
(* lines are written once and in order but for those that were dropped,    *)
(* which are the youngest of those that were to be written, the two spare  *)
(* buffers are back when the loop of threadFunc() begins                   *)
(* (AsyncLogging.cc:66), and no log file is opened twice (LogFile.cc:96).  *)
THEOREM LogKeepsOrder == LogSpec => []LogIsInOrder
  <1>1. LogInvariant => LogIsInOrder
    <2> SUFFICES ASSUME LogInvariant PROVE LogIsInOrder
      OBVIOUS
    <2>1. SparesAreBack
      <3>1. current # NULL
        BY LogAssumption, Zenon DEF LogInvariant, LogTypes
      <3>2. QED
        BY <3>1, Zenon DEF LogInvariant, Spares, SparesAreBack
    <2>2. FilesAreNew
      BY Zenon DEF LogInvariant, FileInv, FilesAreNew
    <2>3. LogInv
      BY Zenon DEF LogInvariant, FileInv, Spares, LogInv
    <2>4. QED
      BY <2>1, <2>2, <2>3, KeptAreOldest, Zenon DEF LogInvariant, LogIsInOrder
  <1>2. QED
    BY LogInitially, LogStep, <1>1, PTL DEF LogSpec

=============================================================================
