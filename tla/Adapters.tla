------------------------------ MODULE Adapters ------------------------------
(***************************************************************************)
(* Two C libraries bound to an EventLoop: libcurl (examples/curl) and      *)
(* c-ares (examples/cdns), each with the program that is built on it.      *)
(*                                                                         *)
(* The binding of libcurl's multi interface (Curl.cc), and the downloader  *)
(* that is built on it (download.cc), which asks for the header first and  *)
(* then for the file, in kConcurrent pieces or in one.  A request is a     *)
(* number: 0 for the header, 1 .. kConcurrent for the pieces, of which 1   *)
(* is also req2_.  libcurl is external: it starts the handles it has when  *)
(* it is called, takes data as the server sends it, and leaves a message   *)
(* for a handle that is done.                                              *)
(***************************************************************************)
EXTENDS Integers, Sequences, FiniteSets, SequencesExt

CONSTANTS
  kConcurrent,
  kPieceMin,     \* 4096
  FileLengths    \* lengths of what the server sends

VARIABLES
  status200,     \* the server has the file; else what it sends is an error page
  length,        \* Content-Length of what the server sends
  ranges,        \* the server accepts ranges
  handle,        \* request -> none, added, running, finished, freed: its CURL
  channel,       \* request -> none, reading, writing (and reading): channel_
  msgs,          \* libcurl's messages, of the handles that are done
  timers,        \* timers of timerCallback() that have not fired
  runningHandles, prevRunningHandles,
  want,          \* request -> the bytes, or for 0 the header, still to come
  out,           \* request -> the bytes written to its file
  concurrent,    \* concurrent_
  done,          \* request -> how often its doneCb_ has been called
  failed,        \* a transfer ended in an error, or an output could not be opened
  quit           \* the loop has been told to quit

curlVars == <<status200, length, ranges, handle, channel, msgs, timers, runningHandles, prevRunningHandles, want, out,
          concurrent, done, failed, quit>>

Requests == 0 .. kConcurrent
Bytes(a, b) == [i \in 1 .. b - a + 1 |-> a + i - 1]

\* The header: its first line, then the others.
Header == <<0, 1>>

\* Downloader::Downloader(): getUrl() for the header.
CurlInit ==
  /\ status200 \in BOOLEAN /\ length \in FileLengths /\ ranges \in BOOLEAN
  /\ handle = [r \in Requests |-> IF r = 0 THEN "added" ELSE "none"]
  /\ channel = [r \in Requests |-> "none"] /\ msgs = <<>> /\ timers = 1
  /\ runningHandles = 0 /\ prevRunningHandles = 0
  /\ want = [r \in Requests |-> IF r = 0 THEN Header ELSE <<>>] /\ out = [r \in Requests |-> <<>>]
  /\ concurrent = 0 /\ done = [r \in Requests |-> 0] /\ failed = FALSE /\ quit = FALSE

-----------------------------------------------------------------------------
(* The downloader's callbacks, on d = [handle, want, timers, concurrent,   *)
(* quit, failed].                                                          *)

\* getUrl() and ~Request().
getUrl(d, r, bytes) == [d EXCEPT !.handle[r] = "added", !.want[r] = bytes, !.timers = 1]
Free(d, r) == [d EXCEPT !.handle[r] = "freed"]

\* concurrentDownload(): the range of piece i, from 0; an output that cannot be opened
\* leaves its piece out and quits.
PieceEnd_Cut(i, len) == (i + 1) * (len \div kConcurrent) - 1
PieceEnd(i, len) == IF i < kConcurrent - 1 THEN (i + 1) * (len \div kConcurrent) - 1 ELSE len - 1
concurrentDownload(d, opened) ==
  LET piece(i) == Bytes((i - 1) * (length \div kConcurrent), PieceEnd(i - 1, length))
  IN  [d EXCEPT !.handle = [r \in Requests |-> IF r \in opened THEN "added" ELSE d.handle[r]],
                !.want = [r \in Requests |-> IF r \in opened THEN piece(r) ELSE d.want[r]],
                !.timers = 1, !.concurrent = kConcurrent,
                !.quit = (opened # 1 .. kConcurrent), !.failed = (opened # 1 .. kConcurrent)]

\* What onHeader() has found in the lines that have come: the file; and that it is to be
\* downloaded in pieces, for which nobody asks whether there is a file.
found(d) == status200 /\ Len(d.want[0]) < Len(Header)
InPieces(d) == d.want[0] = <<>> /\ ranges /\ length >= kConcurrent * kPieceMin

\* onHeaderDone()
onHeaderDone(d) ==
  CASE InPieces(d) ->
         {concurrentDownload(d, o) : o \in {1 .. kConcurrent, 2 .. kConcurrent}}
    [] ~InPieces(d) /\ found(d) ->
         {[getUrl(Free(d, 0), 1, Bytes(0, length - 1)) EXCEPT !.concurrent = 1],
          [d EXCEPT !.quit = TRUE, !.failed = TRUE]}
    [] ~InPieces(d) /\ ~found(d) -> {[d EXCEPT !.quit = TRUE]}

\* onDownloadDone(), of req2_; and of a piece, whose request goes first.
onDownloadDone(d) == [d EXCEPT !.concurrent = @ - 1, !.quit = (d.concurrent - 1 <= 0)]
Piece_onDone(d, r) == onDownloadDone(Free(d, r))

\* Request::done()
doneCallback(d, r) ==
  CASE r = 0 -> onHeaderDone(d)
    [] r # 0 /\ InPieces(d) -> {Piece_onDone(d, r)}
    [] r # 0 /\ ~InPieces(d) -> {onDownloadDone(d)}

-----------------------------------------------------------------------------
(* Curl.                                                                   *)

\* socketCallback(): a new channel for a handle that starts, waiting to write; the
\* channel of one that is done is removed.
socketCallback(ch, started, finished) ==
  [r \in Requests |-> IF r \in finished THEN "none" ELSE IF r \in started THEN "writing" ELSE ch[r]]

\* checkFinish(): the messages are read, and done() called for each, unless the number of
\* handles that run has not gone down.
Checks_Fewer(prev, now) == prev > now
Checks(prev, now) == prev > now \/ now = 0

DoneAll(ds, ms) ==
  FoldLeft(LAMBDA before, r : UNION {doneCallback(d, r) : d \in before}, ds, ms)

\* A call of curl_multi_socket_action(), which starts the handles `started', gets the next
\* bytes, or the end, of the handles `served'; and checkFinish().
Acts(started, served, ending, t) ==
  LET h1 == [r \in Requests |-> IF r \in started THEN "running" ELSE IF r \in ending THEN "finished" ELSE handle[r]]
      now == Cardinality({r \in Requests : h1[r] \in {"added", "running"}})
      m == msgs \o SetToSeq(ending)
      d == [handle |-> h1, want |-> want, timers |-> t, concurrent |-> concurrent, quit |-> quit, failed |-> failed]
      checked == Checks(prevRunningHandles, now)
  IN  /\ channel' = socketCallback(channel, started, ending)
      /\ runningHandles' = now /\ prevRunningHandles' = now
      /\ msgs' = IF checked THEN <<>> ELSE m
      /\ done' = [r \in Requests |-> IF checked /\ r \in Range(m) THEN done[r] + 1 ELSE done[r]]
      /\ \E e \in IF checked THEN DoneAll({d}, m) ELSE {d} :
           /\ handle' = e.handle /\ timers' = e.timers /\ concurrent' = e.concurrent /\ quit' = e.quit
           /\ failed' = (e.failed \/ \E r \in ending : want[r] # <<>>)
           /\ want' = [r \in Requests |-> IF r \in served THEN Tail(e.want[r]) ELSE e.want[r]]
      /\ out' = [r \in Requests |-> IF r \in served THEN Append(out[r], Head(want[r])) ELSE out[r]]
      /\ UNCHANGED <<status200, length, ranges>>

Added == {r \in Requests : handle[r] = "added"}

\* onTimer(): all handles that were added start, or one of them fails at once.
curl_onTimer ==
  /\ ~quit /\ timers > 0
  /\ \E failing \in {{}} \cup {{r} : r \in Added} : Acts(Added \ failing, {}, failing, 0)

\* onRead() and onWrite() for the socket of r: a byte, or the end, which is early when the
\* transfer fails; libcurl may start what was added in the same call.
onEvent(r) ==
  /\ ~quit /\ handle[r] = "running" /\ channel[r] # "none"
  /\ \E started \in {{}, Added} :
       \/ want[r] # <<>> /\ Acts(started, {r}, {}, timers)
       \/ Acts(started, {}, {r}, timers)

CurlNext == curl_onTimer \/ \E r \in Requests : onEvent(r)

\* Timers fire, and a transfer comes to its end.
CurlSpec == CurlInit /\ [][CurlNext]_curlVars /\ WF_curlVars(CurlNext)

-----------------------------------------------------------------------------
\* A download of a file that there is, quitting without an error, has the whole file, the
\* bytes of all its outputs in order, and nothing twice; every request has been done once,
\* and no channel is left when a request is destroyed.
DownloadIsWhole ==
  /\ \A r \in Requests : done[r] <= 1 /\ (handle[r] = "freed" => channel[r] = "none")
  /\ quit /\ ~failed /\ status200 =>
       FlattenSeq([i \in 1 .. kConcurrent |-> out[i]]) = Bytes(0, length - 1)

\* The program has ended, as it does once its transfers have, though checkFinish() passes
\* over a message when the number of running handles has not gone down (Curl.cc:252).
Downloaded == quit
-----------------------------------------------------------------------------
(***************************************************************************)
(* The binding of c-ares (Resolver.cc) and the program that resolves a     *)
(* list of names with it (dns.cc).  c-ares is external: it has one socket  *)
(* to its server, which stays open unless it fails, sends a query again    *)
(* when it has waited too long, and calls back once per query: with an     *)
(* answer, or when it has given up.                                        *)
(***************************************************************************)
CONSTANTS
  Names,         \* the names to resolve
  Local,         \* those of them that the hosts file has
  MaxTries,      \* how often c-ares sends a query
  NoName

VARIABLES
  todo,          \* names that main() has yet to resolve
  tries,         \* names that c-ares is working on -> tries left (0: not asked)
  sockets,       \* c-ares' sockets
  channels,      \* channels_
  timerActive,   \* timerActive_
  timer,         \* timers of onTimer() in the loop, each the query it was set for
  called,        \* name -> number of calls of resolveCallback()
  count,         \* count
  running,       \* loop() has not been told to quit
  destroyedInUse \* a channel was destroyed by its own callback

cdnsVars == <<todo, tries, sockets, channels, timerActive, timer, called, count, running, destroyedInUse>>

ResolverInit ==
  /\ todo = Names /\ tries = [n \in Names |-> 0] /\ sockets = {} /\ channels = {}
  /\ timerActive = FALSE /\ timer = <<>> /\ called = [n \in Names |-> 0] /\ count = 0
  /\ running = TRUE /\ destroyedInUse = FALSE

Outstanding(t) == {n \in Names : t[n] > 0}

\* onQueryResult() and resolveCallback() for the names ns.
onQueryResult(ns) ==
  /\ called' = [n \in Names |-> IF n \in ns THEN called[n] + 1 ELSE called[n]]
  /\ count' = count + Cardinality(ns)
  /\ running' = (running /\ ~\E k \in count + 1 .. count + Cardinality(ns) : k = Cardinality(Names))

\* The query that ares_timeout() has the timer set for; none, and the timeout is -1, when
\* nothing is outstanding.
Earliest(t) == IF Outstanding(t) = {} THEN {NoName} ELSE Outstanding(t)

\* resolve(): the first query opens the socket (onSockCreate()).
SetsTimer_Always(active) == TRUE
SetsTimer(active) == ~active
resolve(n) ==
  /\ n \in todo /\ todo' = todo \ {n}
  /\ IF n \in Local
     THEN onQueryResult({n}) /\ UNCHANGED <<tries, sockets, channels>>
     ELSE /\ tries' = [tries EXCEPT ![n] = MaxTries]
          /\ sockets' = {1} /\ channels' = {1} /\ UNCHANGED <<called, count, running>>
  /\ \E e \in Earliest(tries') : timer' = IF SetsTimer(timerActive) THEN Append(timer, e) ELSE timer
  /\ timerActive' = TRUE /\ UNCHANGED destroyedInUse

\* The queries of ns are sent again, those that have been sent often enough are given up.
Expire(ns) ==
  /\ tries' = [n \in Names |-> IF n \in ns THEN tries[n] - 1 ELSE tries[n]]
  /\ onQueryResult({n \in ns : tries[n] = 1})

\* onTimer(): ares_process_fd() finds the query that the timer was set for, if it still
\* waits, to have expired, and perhaps others.
Rearms_Never(t) == FALSE
Rearms(t) == Outstanding(t) # {}
cdns_onTimer ==
  /\ running /\ todo = {} /\ timer # <<>>
  /\ \E ns \in SUBSET Outstanding(tries) : (Head(timer) \in Outstanding(tries) => Head(timer) \in ns) /\ Expire(ns)
  /\ IF Rearms(tries')
     THEN \E e \in Earliest(tries') : timer' = Append(Tail(timer), e) /\ UNCHANGED timerActive
     ELSE timer' = Tail(timer) /\ timerActive' = FALSE
  /\ UNCHANGED <<todo, sockets, channels, destroyedInUse>>

\* onRead(): an answer, or a failure of the socket, which c-ares closes
\* (onSockStateChange()) and opens again to send its queries once more.
Closes_Not(fd) == channels
Closes(fd) == channels \ {fd}
onRead(fd) ==
  /\ running /\ todo = {} /\ fd \in channels /\ UNCHANGED <<todo, timer, timerActive>>
  /\ \/ \E n \in Outstanding(tries) :
          tries' = [tries EXCEPT ![n] = 0] /\ onQueryResult({n}) /\ UNCHANGED <<sockets, channels, destroyedInUse>>
     \/ /\ Expire(Outstanding(tries)) /\ destroyedInUse' = TRUE
        /\ sockets' = IF Outstanding(tries') = {} THEN {} ELSE {fd}
        /\ channels' = Closes(fd) \cup sockets'

\* quit(), ten seconds after the start.
cdns_quit == running /\ todo = {} /\ running' = FALSE /\ UNCHANGED <<todo, tries, sockets, channels, timerActive, timer, called, count, destroyedInUse>>

ResolverNext == cdns_onTimer \/ cdns_quit \/ (\E n \in Names : resolve(n)) \/ \E fd \in {1} : onRead(fd)
ResolverProgress == cdns_onTimer \/ \E n \in Names : resolve(n)
ResolverSpec == ResolverInit /\ [][ResolverNext]_cdnsVars /\ WF_cdnsVars(ResolverProgress)

-----------------------------------------------------------------------------
\* While c-ares has queries there is a timer for them in the loop, and only one, so that a
\* lost datagram is noticed; channels_ has a channel per socket; and no query calls back
\* twice.
QueriesAreTimed ==
  /\ Len(timer) = (IF timerActive THEN 1 ELSE 0)
  /\ Outstanding(tries) # {} => timerActive
  /\ channels = sockets
  /\ \A n \in Names : called[n] <= 1

\* Every name that was asked for has been called back, answered or not, unless quit() has
\* ended the program first.
Resolved == \A n \in Names : called[n] = 1 \/ ~running
=============================================================================
