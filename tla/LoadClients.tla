----------------------------- MODULE LoadClients ----------------------------
(***************************************************************************)
(* The load generators of the examples: sudoku's loadtest, pipeline and    *)
(* batch, memcached's bench (memcache), rpcbench, pingpong and the chat    *)
(* loadtest.  Each makes connections, keeps requests in flight on them and *)
(* reports when all of them are through.  The server answers the requests  *)
(* of a connection in any order; connections come up in any order, and may *)
(* break.                                                                  *)
(***************************************************************************)
EXTENDS Integers, FiniteSets, FiniteSetsExt, Sequences, SequencesExt

CONSTANTS
  ClientKinds,  \* loadtest, pipeline, batch, memcache, rpcbench, pingpong, chat
  Clients,
  Requests,     \* requests_, kRequests, and the size of the input
  pipelines,    \* pipelines_
  Insoluble,    \* the puzzles of the input, 0..Requests-1, that have no solution
  MaxShort,     \* NoSolution responses that together are shorter than kCells + 2
  rps, kHz,     \* the rate of the loadtest and of its ticks
  MaxCount,     \* bound: requests of a client that never ends
  MaxTicks,     \* bound: ticks of the loadtest
  MaxFaults     \* bound: connections the server breaks

VARIABLES
  kind,
  conn,         \* client -> new, up, shut (its own shutdown()), down
  count,        \* client -> requests sent (count_, sent_), from 0
  acked,        \* client -> responses counted
  wire,         \* client -> ids of the requests in flight
  unread,       \* client -> the responses in its input buffer
  sendTime,     \* client -> keys of sendTime_
  connected,    \* the latch, or counter, of connections
  finished,     \* the latch, or counter, of clients that are through
  main,         \* main(): wait, started, ended; or timeout, for pingpong
  last,         \* chat: the client that connected last, whose timer sends
  ticks, sofar, \* ticks_ and sofar_
  reports,      \* final reports made
  crashed,      \* a NULL conn_ was followed
  early,        \* pingpong's timeout came before every session was connected
  faults

vars == <<kind, conn, count, acked, wire, unread, sendTime, connected, finished, main, last, ticks,
          sofar, reports, crashed, early, faults>>

N == Cardinality(Clients)
Latched == {"memcache", "rpcbench"}

\* What main() and the constructors set up: clients that connect, and counters, or
\* latches of one count for each client.
Counters(n) == connected = n /\ finished = n
loadtest_runClient == Counters(0)
pipeline_runClient == Counters(0)
batch_runClient == Counters(0)
memcache_main == Counters(N)
rpcbench_main == Counters(N)
pingpong_Client == Counters(0)
chat_main == Counters(0)

Init ==
  /\ kind \in ClientKinds
  /\ conn = [c \in Clients |-> "new"] /\ count = [c \in Clients |-> 0] /\ acked = [c \in Clients |-> 0]
  /\ wire = [c \in Clients |-> {}] /\ unread = [c \in Clients |-> <<>>] /\ sendTime = [c \in Clients |-> {}]
  /\ CASE kind = "loadtest" -> loadtest_runClient
       [] kind = "pipeline" -> pipeline_runClient
       [] kind = "batch" -> batch_runClient
       [] kind = "memcache" -> memcache_main
       [] kind = "rpcbench" -> rpcbench_main
       [] kind = "pingpong" -> pingpong_Client
       [] kind = "chat" -> chat_main
  /\ main = "wait" /\ last = 0 /\ ticks = 0 /\ sofar = 0
  /\ reports = 0 /\ crashed = FALSE /\ early = FALSE /\ faults = 0

-----------------------------------------------------------------------------
\* send() of n requests by client c.
Send(c, n) ==
  LET ids == count[c] .. count[c] + n - 1
  IN  /\ count' = [count EXCEPT ![c] = @ + n]
      /\ wire' = [wire EXCEPT ![c] = @ \cup ids]
      /\ sendTime' = IF kind \in {"loadtest", "pipeline"} THEN [sendTime EXCEPT ![c] = @ \cup ids] ELSE sendTime

\* onConnection(), connected.
pipeline_onConnection(c) == Send(c, pipelines) /\ UNCHANGED connected
batch_onConnection(c) == Send(c, Requests) /\ UNCHANGED connected
loadtest_onConnection(c) == UNCHANGED <<count, wire, sendTime, connected>>
latch_onConnection(c) == connected' = connected - 1 /\ UNCHANGED <<count, wire, sendTime>>
pingpong_onConnection(c) == Send(c, 1) /\ connected' = connected + 1
\* The client that connects last sends, ten seconds later.
chat_onConnection(c) == connected' = connected + 1 /\ UNCHANGED <<count, wire, sendTime>>

Connected(c) ==
  /\ conn[c] = "new"
  /\ conn' = [conn EXCEPT ![c] = "up"]
  /\ CASE kind = "pipeline" -> pipeline_onConnection(c)
       [] kind = "batch" -> batch_onConnection(c)
       [] kind = "loadtest" -> loadtest_onConnection(c)
       [] kind \in Latched -> latch_onConnection(c)
       [] kind = "pingpong" -> pingpong_onConnection(c)
       [] kind = "chat" -> chat_onConnection(c)
  /\ main' = IF kind = "chat" /\ connected' = N THEN "armed" ELSE main
  /\ last' = IF kind = "chat" THEN c ELSE last
  /\ UNCHANGED <<kind, acked, unread, finished, ticks, sofar, reports, crashed, early, faults>>

\* onConnection(), disconnected.
Finishes_Not(c) == UNCHANGED finished
Finishes(c) == finished' = finished - 1
pingpong_onDisconnect ==
  /\ connected' = connected - 1
  /\ reports' = IF connected' = 0 THEN reports + 1 ELSE reports
  /\ UNCHANGED finished

Disconnected(c) ==
  /\ conn[c] \in {"up", "shut"}
  /\ IF conn[c] = "shut" THEN UNCHANGED faults ELSE faults < MaxFaults /\ faults' = faults + 1
  /\ conn' = [conn EXCEPT ![c] = "down"] /\ wire' = [wire EXCEPT ![c] = {}]
  /\ CASE kind = "memcache" -> Finishes(c) /\ UNCHANGED <<connected, reports>>
       [] kind = "pingpong" -> pingpong_onDisconnect
       [] OTHER -> UNCHANGED <<connected, finished, reports>>
  /\ UNCHANGED <<kind, count, acked, unread, sendTime, main, last, ticks, sofar, crashed, early>>

-----------------------------------------------------------------------------
\* onMessage() for the response to request i, with verify() or replied(); Shut is
\* shutdown() in c's own callback.
Answered(c, i) == [wire EXCEPT ![c] = @ \ {i}]
Ack(c) == acked' = [acked EXCEPT ![c] = @ + 1]

\* The three sudoku clients look at their buffer while it holds kCells + 2 bytes: a
\* solution has as many, and takes with it what lies in front of it; a short response,
\* NoSolution, waits until there are more than MaxShort.
Sudoku == {"loadtest", "pipeline", "batch"}
Taken(c, i) ==
  LET buf == Append(unread[c], i)
  IN  IF i % Requests \notin Insoluble THEN buf
      ELSE IF Len(buf) > MaxShort THEN SubSeq(buf, 1, 1) ELSE <<>>
Reads(c, i) ==
  LET n == Len(Taken(c, i))
  IN  /\ acked' = [acked EXCEPT ![c] = @ + n]
      /\ unread' = [unread EXCEPT ![c] = SubSeq(Append(@, i), n + 1, Len(@) + 1)]

pipeline_onMessage(c, i) ==
  LET taken == Taken(c, i)
      ids == count[c] .. count[c] + Len(taken) - 1
  IN  /\ count[c] + Len(taken) <= MaxCount
      /\ Reads(c, i) /\ count' = [count EXCEPT ![c] = @ + Len(taken)]
      /\ wire' = [wire EXCEPT ![c] = (@ \ {i}) \cup ids]
      /\ sendTime' = [sendTime EXCEPT ![c] = (@ \cup ids) \ ToSet(taken)]
      /\ UNCHANGED <<conn, finished, reports>>

loadtest_onMessage(c, i) ==
  /\ Reads(c, i) /\ wire' = Answered(c, i)
  /\ sendTime' = [sendTime EXCEPT ![c] = @ \ ToSet(Taken(c, i))]
  /\ UNCHANGED <<conn, count, finished, reports>>

\* batch: cb_ is done(), which ends the run for the last client.
batch_done == /\ finished' = finished + 1
              /\ reports' = IF finished' = N THEN reports + 1 ELSE reports
batch_onMessage(c, i) ==
  /\ Reads(c, i) /\ wire' = Answered(c, i)
  /\ IF acked'[c] = Requests
     THEN batch_done /\ conn' = [conn EXCEPT ![c] = "shut"]
     ELSE UNCHANGED <<finished, reports, conn>>
  /\ UNCHANGED <<count, sendTime>>

SendsMore_OneTooMany(n) == n <= Requests
SendsMore(n) == n < Requests
memcache_onMessage(c, i) ==
  /\ Ack(c)
  /\ IF SendsMore(count[c])
     THEN /\ count' = [count EXCEPT ![c] = @ + 1]
          /\ wire' = [wire EXCEPT ![c] = (@ \ {i}) \cup {count[c]}]
     ELSE wire' = Answered(c, i) /\ UNCHANGED count
  /\ conn' = IF acked'[c] = Requests THEN [conn EXCEPT ![c] = "shut"] ELSE conn
  /\ UNCHANGED <<sendTime, finished, reports>>

rpcbench_replied(c, i) ==
  /\ Ack(c)
  /\ IF acked'[c] < Requests
     THEN /\ count' = [count EXCEPT ![c] = @ + 1]
          /\ wire' = [wire EXCEPT ![c] = (@ \ {i}) \cup {count[c]}]
          /\ UNCHANGED finished
     ELSE Finishes(c) /\ wire' = Answered(c, i) /\ UNCHANGED count
  /\ UNCHANGED <<conn, sendTime, reports>>

\* The block goes back as it came.
pingpong_onMessage(c) == UNCHANGED <<conn, count, acked, wire, sendTime, finished, reports>>

LastReceived_Any(n) == n >= 1
LastReceived(n) == n = N
chat_onStringMessage(c, i) ==
  /\ Ack(c) /\ wire' = Answered(c, i)
  /\ finished' = finished + 1
  /\ reports' = IF LastReceived(finished') THEN reports + 1 ELSE reports
  /\ UNCHANGED <<conn, count, sendTime>>

Message(c) ==
  \E i \in wire[c] :
    /\ conn[c] \in {"up", "shut"}
    /\ CASE kind = "pipeline" -> pipeline_onMessage(c, i)
         [] kind = "loadtest" -> loadtest_onMessage(c, i)
         [] kind = "batch" -> batch_onMessage(c, i)
         [] kind = "memcache" -> memcache_onMessage(c, i)
         [] kind = "rpcbench" -> rpcbench_replied(c, i)
         [] kind = "pingpong" -> pingpong_onMessage(c)
         [] kind = "chat" -> chat_onStringMessage(c, i)
    /\ kind \notin Sudoku => UNCHANGED unread
    /\ UNCHANGED <<kind, connected, main, last, ticks, sofar, crashed, early, faults>>

-----------------------------------------------------------------------------
\* main() of the two that have latches: connected.wait(), a first request from every
\* client, finished.wait().
sendRequest ==
  /\ count' = [c \in Clients |-> count[c] + 1]
  /\ wire' = [c \in Clients |-> IF conn[c] = "up" THEN {0} ELSE {}]
\* conn_ of a client whose connection broke is NULL.
memcache_mainSends == sendRequest /\ crashed' = (\E c \in Clients : conn[c] = "down")
rpcbench_mainSends == sendRequest /\ UNCHANGED crashed

mainSends ==
  /\ kind \in Latched /\ main = "wait" /\ connected = 0
  /\ main' = "started"
  /\ IF kind = "memcache" THEN memcache_mainSends ELSE rpcbench_mainSends
  /\ UNCHANGED <<kind, unread, conn, acked, sendTime, connected, finished, last, ticks, sofar, reports, early, faults>>

mainEnds ==
  /\ kind \in Latched /\ main = "started" /\ finished = 0
  /\ main' = "ended" /\ reports' = reports + 1
  /\ UNCHANGED <<kind, unread, conn, count, acked, wire, sendTime, connected, finished, last, ticks, sofar, crashed, early, faults>>

\* The chat loadtest's timer: every connection gets the message.
chat_send ==
  /\ kind = "chat" /\ main = "armed"
  /\ main' = "started"
  /\ crashed' = (conn[last] = "down")
  /\ wire' = [c \in Clients |-> IF conn[c] = "up" /\ ~crashed' THEN {0} ELSE {}]
  /\ UNCHANGED <<kind, unread, conn, count, acked, sendTime, connected, finished, last, ticks, sofar, reports, early, faults>>

\* handleTimeout() of pingpong: disconnect() does nothing to a session that is not up.
handleTimeout ==
  /\ kind = "pingpong" /\ main = "wait"
  /\ main' = "timeout" /\ early' = (\E c \in Clients : conn[c] = "new")
  /\ conn' = [c \in Clients |-> IF conn[c] = "up" THEN "shut" ELSE conn[c]]
  /\ UNCHANGED <<kind, unread, count, acked, wire, sendTime, connected, finished, last, ticks, sofar, reports, crashed, faults>>

\* SudokuLoadtest::tick(): as many requests as are due, on every connection that is up.
Due == (rps * (ticks + 1)) \div kHz - sofar
tick ==
  /\ kind = "loadtest" /\ ticks < MaxTicks
  /\ ticks' = ticks + 1 /\ sofar' = sofar + Due
  /\ LET up(c) == Due > 0 /\ conn[c] = "up"
         ids(c) == IF up(c) THEN count[c] .. count[c] + Due - 1 ELSE {}
     IN  /\ count' = [c \in Clients |-> count[c] + Cardinality(ids(c))]
         /\ wire' = [c \in Clients |-> wire[c] \cup ids(c)]
         /\ sendTime' = [c \in Clients |-> sendTime[c] \cup ids(c)]
  /\ UNCHANGED <<kind, unread, conn, acked, connected, finished, main, last, reports, crashed, early, faults>>

Next ==
  \/ \E c \in Clients : Connected(c) \/ Disconnected(c) \/ Message(c)
  \/ mainSends \/ mainEnds \/ chat_send \/ handleTimeout \/ tick

\* Connections come up, requests are answered, a shut connection closes, timers fire.
Progress ==
  \/ \E c \in Clients : Connected(c) \/ Message(c) \/ (conn[c] = "shut" /\ Disconnected(c))
  \/ mainSends \/ mainEnds \/ chat_send \/ handleTimeout

Spec == Init /\ [][Next]_vars /\ WF_vars(Progress)

-----------------------------------------------------------------------------
\* What a client has in flight is what its program keeps there: the whole pipeline,
\* one request at a time, or what it has sent and not got back; it never makes more
\* requests than it is to make, and the loadtest is on its rate at every tick.
WindowIsKept ==
  /\ \A c \in Clients : conn[c] \in {"up", "shut"} =>
       LET inFly == wire[c] \cup ToSet(unread[c])
       IN
       CASE kind = "pipeline" -> Cardinality(inFly) = pipelines /\ sendTime[c] = inFly
         [] kind = "loadtest" -> sendTime[c] = inFly /\ count[c] = acked[c] + Cardinality(inFly)
         [] kind \in Latched -> Cardinality(wire[c]) <= 1 /\ count[c] <= Requests
         [] OTHER -> TRUE
  /\ kind = "loadtest" => sofar = (rps * ticks) \div kHz

\* The final report is made once and is about all clients: every one of them has had
\* its responses or, where the end of a connection counts, its connection is gone.
ReportIsComplete ==
  reports > 0 =>
    CASE kind \in {"batch", "rpcbench"} -> reports = 1 /\ \A c \in Clients : acked[c] = Requests
      [] kind = "chat" -> reports = 1 /\ \A c \in Clients : acked[c] = 1
      [] kind = "memcache" -> reports = 1 /\ \A c \in Clients : conn[c] = "down"
      [] kind = "pingpong" -> \A c \in Clients : conn[c] = "up" => early \/ faults > 0
      [] OTHER -> FALSE

\* A generator that ends by itself has made its report; unless the server broke a
\* connection, or pingpong's timeout came before its sessions were connected, or the last
\* responses of a batch say NoSolution: too short to be looked at (batch.cc:114), they
\* stay in the buffer and the batch waits for ever.
Stuck(c) == kind = "batch" /\ wire[c] = {} /\ acked[c] + Len(unread[c]) = Requests
            /\ Len(unread[c]) \in 1..MaxShort
Ended ==
  kind \in {"batch", "memcache", "rpcbench", "chat", "pingpong"} =>
    reports > 0 \/ faults > 0 \/ early \/ \E c \in Clients : Stuck(c)
=============================================================================
