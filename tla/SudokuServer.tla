---------------------------- MODULE SudokuServer ----------------------------
(***************************************************************************)
(* The five sudoku servers (examples/sudoku) with one connection: what     *)
(* becomes of a request line that module Streams has cut out.  basic       *)
(* and multiloop solve on the loop's thread; threadpool, hybrid and prod   *)
(* hand the puzzle to a ThreadPool whose threads send the answer; prod     *)
(* also refuses requests while its output is above a high-water mark.      *)
(* A request is [n, id]: its number, and whether it carries an id.         *)
(***************************************************************************)
EXTENDS Integers, Sequences, FiniteSets, SequencesExt, FiniteSetsExt

CONSTANTS
  Kinds,          \* the servers: basic, multiloop, threadpool, hybrid, prod
  Workers,        \* threads of the pool
  HighMark,       \* 5 MB in the code, counted in replies here
  MaxQueue,       \* prod's limit on the pool's queue, 1000 * 1000 in the code
  MaxRequests     \* bound: requests in a behaviour

VARIABLES
  kind,           \* which server this is
  numThreads,     \* numThreads_
  asked,          \* number of request lines so far
  queue,          \* the pool's queue
  working,        \* worker -> <<request>> it is solving, or <<>>
  functors,       \* the loop's pending functors
  out,            \* the replies given to the connection, [n, id, what]
  unsent,         \* how many of them the kernel has not taken
  down,           \* shutdown() was called
  closed,         \* shutdownInLoop() has closed the write side
  throttle,       \* the connection's context (prod)
  mark,           \* the high-water mark that is set
  wcSet,          \* whether a write-complete callback is set
  total, responses, bad, dropped     \* the counters of SudokuStat

conn == <<functors, out, unsent, down, closed, throttle, mark, wcSet>>
stat == <<total, responses, bad, dropped>>
vars == <<kind, numThreads, asked, queue, working, conn, stat>>

Pooled == {"threadpool", "hybrid", "prod"}
Counted == {"hybrid", "prod"}     \* the servers with a SudokuStat
NoMark == 2 * MaxRequests         \* no callback is set: never reached

Init ==
  /\ kind \in Kinds
  /\ numThreads \in 0 .. Cardinality(Workers)
  /\ kind \notin Pooled => numThreads = 0
  /\ asked = 0 /\ queue = <<>> /\ working = [w \in Workers |-> <<>>]
  /\ functors = <<>> /\ out = <<>> /\ unsent = 0 /\ down = FALSE /\ closed = FALSE /\ throttle = FALSE
  /\ mark = (IF kind = "prod" THEN HighMark ELSE NoMark) /\ wcSet = FALSE
  /\ total = 0 /\ responses = 0 /\ bad = 0 /\ dropped = 0

-----------------------------------------------------------------------------
Functor(do, n, id) == [do |-> do, n |-> n, id |-> id]

\* sendInLoop() as module TcpConnection has it, for a reply of size one, run
\* when fs are the pending functors.  What the kernel takes at once is not queued.
SendInLoop(fs, r, taken) ==
  LET direct == unsent = 0 /\ taken
      n      == IF direct THEN 0 ELSE unsent + 1
  IN  IF closed THEN functors' = fs /\ UNCHANGED <<out, unsent>>
      ELSE /\ out' = Append(out, r)
           /\ unsent' = n
           /\ functors' = fs \o (IF direct /\ wcSet THEN <<Functor("writeComplete", 0, FALSE)>> ELSE <<>>)
                            \o (IF n >= mark /\ unsent < mark THEN <<Functor("highWaterMark", n, FALSE)>> ELSE <<>>)

Reply(n, id, what) == [n |-> n, id |-> id, what |-> what]

\* send() on the loop's thread, and shutdown().
Send(fs, r, taken) ==
  IF down THEN functors' = fs /\ UNCHANGED <<out, unsent>> ELSE SendInLoop(fs, r, taken)

Shutdown ==
  /\ down' = TRUE
  /\ closed' = (closed \/ (~down /\ unsent' = 0))

\* A line that processRequest() refuses.
BadRequest(n, id, taken) ==
  /\ Send(functors, Reply(n, id, "bad"), taken)
  /\ Shutdown
  /\ bad' = IF kind \in Counted THEN bad + 1 ELSE bad
  /\ UNCHANGED <<queue, responses, dropped>>

Solved(n, id, taken) ==
  /\ Send(functors, Reply(n, id, "solved"), taken)
  /\ responses' = IF kind \in Counted THEN responses + 1 ELSE responses
  /\ UNCHANGED <<queue, bad, dropped, down, closed>>

InPool(n, id) ==
  /\ queue' = Append(queue, [n |-> n, id |-> id])
  /\ UNCHANGED <<functors, out, unsent, down, closed, responses, bad, dropped>>

\* ThreadPool::run() runs the task at once when the pool has no threads.
RunTask(n, id, taken) == IF numThreads = 0 THEN Solved(n, id, taken) ELSE InPool(n, id)

IdMissing_Never(id) == FALSE
IdMissing(id) == numThreads > 1 /\ ~id

\* onMessage() and processRequest() of each server, for request number n.
basic_processRequest(n, id, good, taken) ==
  IF good THEN Solved(n, id, taken) ELSE BadRequest(n, id, taken)

multiloop_processRequest(n, id, good, taken) ==
  IF good THEN Solved(n, id, taken) ELSE BadRequest(n, id, taken)

threadpool_processRequest(n, id, good, taken) ==
  IF good THEN RunTask(n, id, taken) ELSE BadRequest(n, id, taken)

hybrid_processRequest(n, id, good, taken) ==
  IF good /\ ~IdMissing(id) THEN RunTask(n, id, taken) ELSE BadRequest(n, id, taken)

prod_processRequest(n, id, good, taken) ==
  CASE ~good \/ IdMissing(id) -> BadRequest(n, id, taken)
    [] good /\ ~IdMissing(id) /\ Len(queue) < MaxQueue /\ ~throttle -> RunTask(n, id, taken)
    [] OTHER -> /\ Send(functors, Reply(n, id, "busy"), taken)
                /\ dropped' = dropped + 1
                /\ UNCHANGED <<queue, responses, bad, down, closed>>

Request ==
  \E id, good, taken \in BOOLEAN :
    LET n == asked + 1
    IN  /\ asked < MaxRequests
        /\ asked' = n
        /\ total' = IF kind \in Counted THEN total + 1 ELSE total
        /\ CASE kind = "basic" -> basic_processRequest(n, id, good, taken)
             [] kind = "multiloop" -> multiloop_processRequest(n, id, good, taken)
             [] kind = "threadpool" -> threadpool_processRequest(n, id, good, taken)
             [] kind = "hybrid" -> hybrid_processRequest(n, id, good, taken)
             [] kind = "prod" -> prod_processRequest(n, id, good, taken)
        /\ UNCHANGED <<kind, numThreads, working, throttle, mark, wcSet>>

\* "Id too long!": nothing was cut out, so no request is counted.
idTooLong ==
  \E taken \in BOOLEAN :
    /\ ~down /\ BadRequest(0, FALSE, taken)
    /\ UNCHANGED <<kind, numThreads, asked, working, total, throttle, mark, wcSet>>

-----------------------------------------------------------------------------
\* The pool's threads: ThreadPool::take(), and solve(), whose send() becomes a
\* functor of the loop unless the connection is already shut down.
take(w) ==
  /\ working[w] = <<>> /\ queue # <<>>
  /\ numThreads > Cardinality({v \in Workers : working[v] # <<>>})
  /\ working' = [working EXCEPT ![w] = <<Head(queue)>>]
  /\ queue' = Tail(queue)
  /\ UNCHANGED <<kind, numThreads, asked, conn, stat>>

Answer(w) ==
  /\ working[w] # <<>>
  /\ functors' = IF down THEN functors
                 ELSE Append(functors, Functor("send", working[w][1].n, working[w][1].id))
  /\ working' = [working EXCEPT ![w] = <<>>]
  /\ UNCHANGED <<kind, numThreads, asked, queue, out, unsent, down, closed, throttle, mark, wcSet,
                 total, bad, dropped>>

threadpool_solve(w) == kind = "threadpool" /\ Answer(w) /\ UNCHANGED responses
hybrid_solve(w) == kind = "hybrid" /\ Answer(w) /\ responses' = responses + 1
prod_solve(w) == kind = "prod" /\ Answer(w) /\ responses' = responses + 1

\* The callbacks of prod.
highWaterMark(rest, tosend) ==
  IF tosend < 2 * HighMark
  THEN /\ functors' = rest
       /\ mark' = 2 * HighMark /\ wcSet' = TRUE /\ throttle' = TRUE
       /\ UNCHANGED <<out, unsent, down, closed, bad>>
  ELSE /\ \E taken \in BOOLEAN : Send(rest, Reply(0, FALSE, "bad"), taken)
       /\ Shutdown /\ bad' = bad + 1
       /\ UNCHANGED <<throttle, mark, wcSet>>

writeComplete(rest) ==
  /\ functors' = rest
  /\ mark' = HighMark /\ wcSet' = FALSE /\ throttle' = FALSE
  /\ UNCHANGED <<out, unsent, down, closed, bad>>

\* The loop runs its first functor.  A functor that sends may queue others.
runFunctor ==
  /\ functors # <<>>
  /\ LET f == Head(functors)
     IN  \/ /\ f.do = "send"
            /\ \E taken \in BOOLEAN :
                 SendInLoop(Tail(functors), Reply(f.n, f.id, "solved"), taken)
            /\ UNCHANGED <<down, closed, throttle, mark, wcSet, bad>>
         \/ f.do = "writeComplete" /\ writeComplete(Tail(functors))
         \/ f.do = "highWaterMark" /\ highWaterMark(Tail(functors), f.n)
  /\ UNCHANGED <<kind, numThreads, asked, queue, working, total, responses, dropped>>

\* The peer reads and handleWrite() empties the output buffer, or part of it.
handleWrite ==
  \E left \in 0 .. unsent :
    /\ left < unsent
    /\ unsent' = left
    /\ functors' = IF left = 0 /\ wcSet
                     THEN Append(functors, Functor("writeComplete", 0, FALSE)) ELSE functors
    /\ closed' = (closed \/ (down /\ left = 0))
    /\ UNCHANGED <<kind, numThreads, asked, queue, working, out, down, throttle, mark, wcSet, stat>>

Next ==
  \/ Request \/ idTooLong \/ runFunctor \/ handleWrite
  \/ \E w \in Workers : take(w) \/ threadpool_solve(w) \/ hybrid_solve(w) \/ prod_solve(w)

Spec == Init /\ [][Next]_vars

-----------------------------------------------------------------------------
Answered == {out[i].n : i \in DOMAIN out} \ {0}

InWork ==
  {queue[i].n : i \in DOMAIN queue} \cup {working[w][1].n : w \in {v \in Workers : working[v] # <<>>}}
  \cup {functors[i].n : i \in {j \in DOMAIN functors : functors[j].do = "send"}}

\* No request is answered twice, and none is lost before the connection is shut
\* down: it is answered or in work.  Solutions without an id come in the order of
\* the requests, so that the client can match them, in every server but threadpool,
\* which does not insist on an id (server_hybrid.cc:127).
AnsweredOnceInOrder ==
  /\ \A i, j \in DOMAIN out : i # j /\ out[i].n # 0 => out[i].n # out[j].n
  /\ ~down => Answered \cup InWork = 1 .. asked
  /\ Answered \cap InWork = {}
  /\ kind # "threadpool" \/ numThreads <= 1 =>
       \A i, j \in {k \in DOMAIN out : out[k].what = "solved" /\ ~out[k].id} :
         i < j => out[i].n < out[j].n
-----------------------------------------------------------------------------
(***************************************************************************)
(* stat.h and percentile.h: responses counted per second over a sliding    *)
(* window, as clocks that jump report them, and nearest-rank percentiles.  *)
(* Every method holds the mutex, so a method is a step.                    *)
(***************************************************************************)
CONSTANTS
  kSeconds,       \* 60 in the code
  Seconds,        \* bound: the seconds a response may fall in
  Latencies,      \* bound: latencies; a negative one is a clock that stepped back
  MaxResponses    \* bound: responses in a behaviour

VARIABLES
  lastSecond, requests, latencies,          \* the window
  totalResponses, totalLatency, badLatency, \* totals
  history                                   \* the responses since the last reset

statVars == <<lastSecond, requests, latencies, totalResponses, totalLatency, badLatency, history>>

StatInit ==
  /\ lastSecond = 0 /\ requests = <<>> /\ latencies = <<>>
  /\ totalResponses = 0 /\ totalLatency = 0 /\ badLatency = 0
  /\ history = <<>>

\* push_back() of a circular_buffer of capacity kSeconds.
push_back(q, x) == IF Len(q) = kSeconds THEN Append(Tail(q), x) ELSE Append(q, x)

RECURSIVE PushZeros(_, _)
PushZeros(q, n) == IF n = 0 THEN q ELSE PushZeros(push_back(q, 0), n - 1)

AddAt(q, i, x) == [q EXCEPT ![i] = @ + x]

\* The second whose counts the front of the window holds.
firstSecond == lastSecond - Len(requests) + 1

\* Jumping ahead by kSeconds or more forgets the window.
StillInside(second) == second < lastSecond + kSeconds

\* The window after second has become its last one: requests and latencies.
Advance_NoGap(second) ==
  IF lastSecond + 1 = second \/ lastSecond = 0 \/ StillInside(second)
  THEN <<push_back(requests, 0), push_back(latencies, 0)>> ELSE <<<<0>>, <<0>>>>

Advance(second) ==
  IF lastSecond + 1 = second \/ lastSecond = 0 THEN <<push_back(requests, 0), push_back(latencies, 0)>>
  ELSE IF StillInside(second)
       THEN <<PushZeros(requests, second - lastSecond), PushZeros(latencies, second - lastSecond)>>
       ELSE <<<<0>>, <<0>>>>

recordResponse(second, elapsed) ==
  /\ Len(history) < MaxResponses
  /\ history' = Append(history, [second |-> second, elapsed |-> elapsed])
  /\ totalResponses' = totalResponses + 1
  /\ IF elapsed < 0
     THEN badLatency' = badLatency + 1 /\ UNCHANGED <<lastSecond, requests, latencies, totalLatency>>
     ELSE /\ totalLatency' = totalLatency + elapsed
          /\ UNCHANGED badLatency
          /\ CASE second = lastSecond \/ (lastSecond # 0 /\ second < lastSecond /\ second >= firstSecond) ->
                    LET i == second - firstSecond + 1
                    IN  /\ requests' = AddAt(requests, i, 1)
                        /\ latencies' = AddAt(latencies, i, elapsed)
                        /\ UNCHANGED lastSecond
               [] second > lastSecond ->
                    LET w == Advance(second)
                    IN  /\ requests' = AddAt(w[1], Len(w[1]), 1)
                        /\ latencies' = AddAt(w[2], Len(w[2]), elapsed)
                        /\ lastSecond' = second
               [] OTHER -> UNCHANGED <<lastSecond, requests, latencies>>

reset ==
  /\ lastSecond' = 0 /\ requests' = <<>> /\ latencies' = <<>>
  /\ totalResponses' = 0 /\ totalLatency' = 0 /\ badLatency' = 0
  /\ history' = <<>>

\* report(): the sums over the window, and the averages.
report ==
  LET r == FoldLeft(LAMBDA a, b : a + b, 0, requests)
      l == FoldLeft(LAMBDA a, b : a + b, 0, latencies)
  IN  [requests_60s |-> r, latency_us_60s |-> IF r = 0 THEN 0 ELSE l \div r,
       latency_us_avg |-> IF totalResponses = 0 THEN 0 ELSE totalLatency \div totalResponses]

\* Percentile::getPercentile() of sorted latencies.
getPercentile_RoundsDown(sorted, percent) ==
  sorted[1 + (Len(sorted) * percent) \div 100]
getPercentile(sorted, percent) ==
  sorted[1 + (IF percent > 0 THEN (Len(sorted) * percent + 99) \div 100 - 1 ELSE 0)]

\* Percentile::save(): buckets of kInterval from the sorted latencies, [low, count].
kInterval == 5
RECURSIVE Buckets(_, _, _)
Buckets(sorted, low, count) ==
  IF sorted = <<>> THEN <<[low |-> low, count |-> count]>>
  ELSE IF Head(sorted) < low + kInterval THEN Buckets(Tail(sorted), low, count + 1)
  ELSE <<[low |-> low, count |-> count]>>
         \o Buckets(Tail(sorted), (Head(sorted) \div kInterval) * kInterval, 1)
save(sorted) == Buckets(sorted, (Head(sorted) \div kInterval) * kInterval, 0)

StatNext == reset \/ \E s \in Seconds, e \in Latencies : recordResponse(s, e)
StatSpec == StatInit /\ [][StatNext]_statVars

-----------------------------------------------------------------------------
Valid == SelectSeq(history, LAMBDA r : r.elapsed >= 0)
In(second) == SelectSeq(Valid, LAMBDA r : r.second = second)
SumOf(rs) == FoldLeft(LAMBDA a, r : a + r.elapsed, 0, rs)

\* However the clock jumps, the window's last entry is for lastSecond_ and its i-th
\* for the second that far back, and each holds exactly the responses of its second
\* since the last reset (stat.h:182); the window never outgrows kSeconds; and the
\* totals agree with what was recorded.
WindowIsHistory ==
  /\ Len(requests) = Len(latencies) /\ Len(requests) <= kSeconds
  /\ lastSecond > 0 <=> requests # <<>>
  /\ \A i \in DOMAIN requests :
       LET rs == In(firstSecond + i - 1)
       IN  requests[i] = Len(rs) /\ latencies[i] = SumOf(rs)
  /\ \A i \in DOMAIN Valid : Valid[i].second <= lastSecond
  /\ report.requests_60s <= totalResponses - badLatency
  /\ totalLatency = SumOf(Valid)

\* The nearest-rank percentile is the least value that at least that share of the
\* sample does not exceed, and the buckets partition the sample (percentile.h:86).
PercentileIsNearestRank ==
  LET s == SortSeq([i \in DOMAIN Valid |-> 4 * Valid[i].elapsed + Valid[i].second], <)
  IN  s # <<>> =>
        /\ \A p \in {50, 90, 99} :
             LET v == getPercentile(s, p)
                 atMost(x) == Cardinality({i \in DOMAIN s : s[i] <= x})
             IN  /\ atMost(v) * 100 >= p * Len(s)
                 /\ \A i \in DOMAIN s : s[i] < v => atMost(s[i]) * 100 < p * Len(s)
        /\ \A i \in DOMAIN save(s) :
             LET b == save(s)[i]
             IN  b.count = Cardinality({j \in DOMAIN s : s[j] >= b.low /\ s[j] < b.low + kInterval})
=============================================================================
