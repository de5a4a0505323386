---------------------------- MODULE AsyncLogging ----------------------------
(***************************************************************************)
(* muduo/base/AsyncLogging: threads append lines to currentBuffer_ under a *)
(* mutex; the logging thread swaps the filled buffers out, writes them to  *)
(* its LogFile and keeps two of them as spares.  A buffer is the sequence  *)
(* of its lines; lines are numbered, and each has length 1 or is too long  *)
(* for any buffer.  A buffer that is not there is NULL.                    *)
(***************************************************************************)
EXTENDS Naturals, Sequences, Functions

(***************************************************************************)
(* muduo/base/LogFile: a log that goes on in a new file when the current   *)
(* one is too long or a new period begins, which is looked at after every  *)
(* checkEveryN appends.  A file is named by the second it is opened in.    *)
(* The operators take the state f of a LogFile and the time.               *)
(***************************************************************************)
CONSTANTS
  rollSize,
  checkEveryN,
  flushInterval,
  kRollPerSeconds   \* seconds in a period

\* AppendFile: the name and length of the file, and what is not yet flushed.
getLogFileName(now) == now
AppendFile(now) == [name |-> getLogFileName(now), writtenBytes |-> 0, unflushed |-> 0]
flush(f) == [f EXCEPT !.file.unflushed = 0]

Period(now) == (now \div kRollPerSeconds) * kRollPerSeconds

\* rollFile(): at most one file a second.
MayRoll_Always(f, now) == TRUE
MayRoll(f, now) == now > f.lastRoll

rollFile(f, now) ==
  IF MayRoll(f, now)
  THEN [f EXCEPT !.lastRoll = now, !.lastFlush = now, !.startOfPeriod = Period(now),
                 !.file = AppendFile(now), !.closed = Append(f.closed, f.file.name)]
  ELSE f

LogFileCreated(now) ==
  [count |-> 0, startOfPeriod |-> Period(now), lastRoll |-> now, lastFlush |-> now,
   file |-> AppendFile(now), closed |-> <<>>]

append_unlocked(f, len, now) ==
  LET g == [f EXCEPT !.file.writtenBytes = @ + len, !.file.unflushed = @ + len]
      n == g.count + 1
  IN  IF g.file.writtenBytes > rollSize THEN rollFile(g, now)
      ELSE IF n < checkEveryN THEN [g EXCEPT !.count = n]
      ELSE LET h == [g EXCEPT !.count = 0]
           IN  IF Period(now) # h.startOfPeriod THEN rollFile(h, now)
               ELSE IF now - h.lastFlush > flushInterval
               THEN flush([h EXCEPT !.lastFlush = now])
               ELSE h

\* append() of several buffers, in order.
appendAll(f, lens, now) ==
  LET after[n \in 0 .. Len(lens)] ==
        IF n = 0 THEN f ELSE append_unlocked(after[n - 1], lens[n], now)
  IN  after[Len(lens)]

-----------------------------------------------------------------------------
(* The logging thread and those that append.                              *)
CONSTANTS
  kLargeBuffer,      \* the size of a buffer
  kTooMany,          \* more buffers than this are dropped (25)
  NULL,
  MaxLines,          \* bound: lines appended
  MaxTime            \* bound: seconds that pass

ASSUME LogAssumption ==
  /\ rollSize \in Nat /\ checkEveryN \in Nat /\ flushInterval \in Nat
  /\ kRollPerSeconds \in Nat \ {0}
  /\ kLargeBuffer \in Nat /\ kTooMany \in Nat \ {0}
  /\ NULL \notin Seq(Nat)

VARIABLES
  logging,           \* running_
  stopNotified,          \* stop() has called notify()
  current,           \* currentBuffer_
  next,              \* nextBuffer_
  buffers,           \* buffers_
  logger,            \* the logging thread: start, top, waiting, woken, write, end
  new1, new2,        \* newBuffer1, newBuffer2
  toWrite,           \* buffersToWrite
  output,            \* the LogFile
  now,
  appended,          \* lines appended so far
  dropped,           \* lines dropped, with a notice or because they are too long
  written            \* the lines given to the LogFile, in order

logVars == <<logging, stopNotified, current, next, buffers, logger, new1, new2, toWrite, output, now, appended, dropped, written>>

Line(n) == n
Empty == <<>>

LogInit ==
  /\ logging = TRUE /\ stopNotified = FALSE /\ current = Empty /\ next = Empty /\ buffers = <<>>
  /\ logger = "start" /\ new1 = Empty /\ new2 = Empty /\ toWrite = <<>>
  /\ now = 1 /\ output = LogFileCreated(1)
  /\ appended = 0 /\ dropped = {} /\ written = <<>>

-----------------------------------------------------------------------------
\* FixedBuffer::append(), and AsyncLogging::append() on any thread.
avail(b) == kLargeBuffer - Len(b)
Appended(b, line, len) == IF avail(b) > len THEN Append(b, line) ELSE b

\* The buffer that follows the full one: nextBuffer_, or a new one.
Following == IF next = NULL THEN Empty ELSE next

append(len) ==
  /\ appended < MaxLines
  /\ appended' = appended + 1
  /\ dropped' = IF len >= kLargeBuffer THEN dropped \cup {appended'} ELSE dropped
  /\ IF avail(current) > len
     THEN /\ current' = Append(current, Line(appended'))
          /\ UNCHANGED <<buffers, next, logger>>
     ELSE /\ buffers' = Append(buffers, current)
          /\ current' = Appended(Following, Line(appended'), len)
          /\ next' = NULL
          /\ logger' = IF logger = "waiting" THEN "woken" ELSE logger
  /\ UNCHANGED <<logging, stopNotified, new1, new2, toWrite, output, now, written>>

\* stop(), without the mutex: running_ first, then notify(), which a thread that does not
\* wait yet misses.
logging_stop ==
  /\ logging /\ logger # "start" /\ logging' = FALSE
  /\ UNCHANGED <<stopNotified, logger, current, next, buffers, new1, new2, toWrite, output, now, appended, dropped, written>>

logging_stopNotifies ==
  /\ ~logging /\ ~stopNotified /\ stopNotified' = TRUE
  /\ logger' = IF logger = "waiting" THEN "woken" ELSE logger
  /\ UNCHANGED <<logging, current, next, buffers, new1, new2, toWrite, output, now, appended, dropped, written>>

-----------------------------------------------------------------------------
\* threadFunc(): the latch, the LogFile.
threadStart ==
  /\ logger = "start"
  /\ logger' = "top" /\ output' = LogFileCreated(now)
  /\ UNCHANGED <<logging, stopNotified, current, next, buffers, new1, new2, toWrite, now, appended, dropped, written>>

\* The critical section, from the moment the thread need not wait (any longer).
Collected_CurrentFirst == <<current>> \o buffers
Collected == Append(buffers, current)
Swapped ==
  /\ toWrite' = Collected
  /\ buffers' = <<>>
  /\ current' = new1 /\ new1' = NULL
  /\ IF next = NULL THEN next' = new2 /\ new2' = NULL ELSE UNCHANGED <<next, new2>>
  /\ logger' = "write"
  /\ UNCHANGED <<logging, stopNotified, output, now, appended, dropped, written>>

threadTop ==
  /\ logger = "top" /\ logging
  /\ IF buffers = <<>>
     THEN /\ logger' = "waiting"
          /\ UNCHANGED <<logging, stopNotified, current, next, buffers, new1, new2, toWrite, output, now, appended, dropped, written>>
     ELSE Swapped

\* waitForSeconds() returns, stopNotified or timed out.
WaitReturns_OnNotify == logger = "woken"
WaitReturns == logger \in {"waiting", "woken"}
threadWoken == WaitReturns /\ Swapped

\* The lines of several buffers, one after the other.
Flatten(bs) ==
  LET lines[n \in 0 .. Len(bs)] == IF n = 0 THEN <<>> ELSE lines[n - 1] \o bs[n]
  IN  lines[Len(bs)]

\* The buffers that are written, after erase() when they are too many.
TooMany == Len(toWrite) > kTooMany
ToWrite_Last == IF TooMany THEN SubSeq(toWrite, Len(toWrite) - 1, Len(toWrite)) ELSE toWrite
ToWrite == IF TooMany THEN SubSeq(toWrite, 1, 2) ELSE toWrite
NoticeLength == 1
Lengths == (IF TooMany THEN <<NoticeLength>> ELSE <<>>)
             \o [i \in DOMAIN ToWrite |-> Len(ToWrite[i])]
Erased == UNION {Range(toWrite[j]) : j \in (Len(ToWrite) + 1) .. Len(toWrite)}

\* What is left of them after resize(), and after newBuffer1 was taken from its end.
Kept_First(bs) == IF Len(bs) > 2 THEN SubSeq(bs, 1, 1) ELSE bs
Kept(bs) == IF Len(bs) > 2 THEN SubSeq(bs, 1, 2) ELSE bs
Left == IF new1 = NULL THEN SubSeq(Kept(ToWrite), 1, Len(Kept(ToWrite)) - 1) ELSE Kept(ToWrite)

threadWrite ==
  /\ logger = "write"
  /\ written' = written \o Flatten(ToWrite)
  /\ dropped' = dropped \cup Erased
  /\ output' = flush(appendAll(output, Lengths, now))
  /\ new1' = Empty
  /\ new2' = IF new2 # NULL \/ Left # <<>> THEN Empty ELSE NULL
  /\ toWrite' = <<>>
  /\ logger' = "top"
  /\ UNCHANGED <<logging, stopNotified, current, next, buffers, now, appended>>

threadEnd ==
  /\ logger = "top" /\ ~logging
  /\ logger' = "end" /\ output' = flush(output)
  /\ UNCHANGED <<logging, stopNotified, current, next, buffers, new1, new2, toWrite, now, appended, dropped, written>>

tick ==
  /\ now < MaxTime /\ now' = now + 1
  /\ UNCHANGED <<logging, stopNotified, current, next, buffers, logger, new1, new2, toWrite, output, appended, dropped, written>>

logging_threadFunc == threadStart \/ threadTop \/ threadWoken \/ threadWrite \/ threadEnd
LogNext ==
  \/ \E len \in {1, kLargeBuffer} : append(len)
  \/ logging_stop \/ logging_stopNotifies \/ logging_threadFunc \/ tick

\* The logging thread goes on, its wait being bounded by flushInterval_.
LogSpec == LogInit /\ [][LogNext]_logVars /\ WF_logVars(logging_threadFunc)

-----------------------------------------------------------------------------
Increasing(s) == \A i, j \in DOMAIN s : i < j => s[i] < s[j]

\* The lines written, to be written, filled and current are those appended without
\* the dropped ones, each once and in the order of append().
Lines == written \o Flatten(toWrite) \o Flatten(buffers) \o current
WrittenInOrder ==
  /\ Increasing(Lines)
  /\ Range(Lines) = (1 .. appended) \ dropped

\* The assertions of threadFunc(): at the head of its loop it has two empty spares,
\* and what it swapped out is enough to replace those it gave away
\* (AsyncLogging.cc:66, :67, :112, :119).
SparesAreBack ==
  /\ logger = "top" => new1 = Empty /\ new2 = Empty /\ toWrite = <<>>
  /\ logger = "write" => Len(toWrite) >= (IF new2 = NULL THEN 2 ELSE 1)
  /\ current # NULL

\* When there are too many buffers, the lines that are kept are older than those that are
\* erased (AsyncLogging.cc:95).
OldestAreKept == \A m \in Range(Flatten(ToWrite)), n \in Erased : m < n

\* No file is opened twice, though two rolls may be due within a second and the name
\* has no finer time (LogFile.cc:96): the names of the files follow one another.
FilesAreNew == Increasing(Append(output.closed, output.file.name))

\* What these rest on: the spares are away only while buffers are written, nextBuffer_
\* is given away only for a buffer that is filled, only what was appended is dropped, and
\* the open file is that of the last roll.
LogInv ==
  /\ logger # "write" => new1 = Empty /\ new2 = Empty /\ toWrite = <<>>
  /\ next = NULL => buffers # <<>>
  /\ dropped \subseteq 1 .. appended
  /\ output.file.name = output.lastRoll /\ output.lastRoll <= now

\* Lines are written once and in order but for those dropped, the youngest of those that
\* were to be written, the assertions about the spare buffers hold, and no log file is
\* opened twice (AsyncLogging.cc:66, :95, LogFile.cc:96).
LogIsInOrder == WrittenInOrder /\ OldestAreKept /\ SparesAreBack /\ FilesAreNew /\ LogInv

\* Line n is in its file or was dropped, or stop() was called: a line appended after the
\* last swap is lost by stop().
InFile(n) == ~logging \/ n \in dropped \/ \E i \in DOMAIN written : written[i] = n
=============================================================================
