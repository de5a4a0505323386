--------------------------- MODULE SerialExecutor ---------------------------
(***************************************************************************)
(* What EventLoop promises the callers of runInLoop and queueInLoop: a     *)
(* functor queued from anywhere runs once, on one thread, in the order in  *)
(* which it was queued; a functor passed to runInLoop on the loop's own    *)
(* thread runs at once, ahead of the queue; after the loop has stopped     *)
(* nothing runs any more and what is left in the queue is dropped.         *)
(***************************************************************************)
EXTENDS Sequences

CONSTANT Functors

VARIABLES queue,    \* functors queued and not yet run, oldest first
          ran,      \* functors in the order in which they ran
          stopped   \* the loop has returned for good

vars == <<queue, ran, stopped>>

Range(s) == {s[i] : i \in DOMAIN s}

Known == Range(queue) \cup Range(ran)

Init == queue = <<>> /\ ran = <<>> /\ stopped = FALSE

Queue(f) ==
  /\ f \notin Known
  /\ queue' = Append(queue, f)
  /\ UNCHANGED <<ran, stopped>>

RunNow(f) ==
  /\ f \notin Known
  /\ ~stopped
  /\ ran' = Append(ran, f)
  /\ UNCHANGED <<queue, stopped>>

RunNext ==
  /\ queue # <<>>
  /\ ~stopped
  /\ ran' = Append(ran, Head(queue))
  /\ queue' = Tail(queue)
  /\ UNCHANGED stopped

Stop ==
  /\ ~stopped
  /\ stopped' = TRUE
  /\ UNCHANGED <<queue, ran>>

Next ==
  \/ \E f \in Functors : Queue(f) \/ RunNow(f)
  \/ RunNext
  \/ Stop

Spec == Init /\ [][Next]_vars
=============================================================================
