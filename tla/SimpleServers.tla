---------------------------- MODULE SimpleServers ---------------------------
(***************************************************************************)
(* The small servers of the examples, on one connection: the three file    *)
(* servers (examples/filetransfer), chargen, daytime, time, echo and       *)
(* discard (examples/simple), and the echo and discard servers of          *)
(* examples/netty.  A turn of the loop is one event and then the functors  *)
(* queued by then; a functor queued by a functor waits for the next turn.  *)
(* The write-complete callback is such a functor.  What a server is to     *)
(* send is numbered, unit after unit.                                      *)
(***************************************************************************)
EXTENDS Integers, Sequences, SequencesExt

CONSTANTS
  ServerKinds,  \* download, download2, download3, chargen, daytime, time, echo, discard,
                \* netty_echo, netty_echo2, netty_discard
  FileSizes,    \* sizes of the file that is to be sent
  kBufSize,     \* what is read of it at once
  kMessage,     \* the length of chargen's message_, and of the time
  MaxIn,        \* bound: units the client sends
  MaxOut,       \* bound: units chargen sends
  MaxReports    \* bound: runs of printThroughput()

VARIABLES
  kind, exists, size,   \* the server, and its file, of size 0 where there is none
  conn,         \* new, up, disconnecting, down
  sock,         \* [out: the output buffer, got: what the client's socket has, fin, pend]
  phase,        \* poll or functors
  batch,        \* write-complete callbacks still to be run in this turn
  pos,          \* units taken from the file, or made up, so far
  fp,           \* the FILE of the connection: none, open, closed, null
  misused,      \* a FILE was read or closed after fclose()
  late,         \* the connection went down with a callback queued
  arrived,      \* units that have come from the client
  transferred,  \* transferred_, transferredBytes_
  oldCounter,   \* oldCounter_
  reported,     \* what the reports add up to
  reports

vars == <<kind, exists, size, conn, sock, phase, batch, pos, fp, misused, late, arrived, transferred,
          oldCounter, reported, reports>>

Files == {"download", "download2", "download3"}
Once == {"daytime", "time"}
Echoes == {"echo", "netty_echo", "netty_echo2"}
Discards == {"discard", "netty_discard"}

Init ==
  /\ kind \in ServerKinds
  /\ exists \in IF kind \in Files THEN BOOLEAN ELSE {FALSE}
  /\ size \in IF exists THEN FileSizes ELSE {0}
  /\ conn = "new" /\ sock = [out |-> <<>>, got |-> <<>>, fin |-> FALSE, pend |-> 0]
  /\ phase = "poll" /\ batch = 0 /\ pos = 0 /\ fp = "none" /\ misused = FALSE /\ late = FALSE
  /\ arrived = 0 /\ transferred = 0 /\ oldCounter = 0 /\ reported = 0 /\ reports = 0

Units(n) == [i \in 1 .. n |-> pos + i]
Least(a, b) == IF a < b THEN a ELSE b

-----------------------------------------------------------------------------
\* sendInLoop() of data on socket s: as much as the socket takes, the rest is buffered.
SendInLoop(s, data) ==
  IF s.out # <<>> THEN {[s EXCEPT !.out = @ \o data]}
  ELSE {[s EXCEPT !.out = SubSeq(data, n + 1, Len(data)), !.got = @ \o SubSeq(data, 1, n),
                  !.pend = IF n = Len(data) THEN @ + 1 ELSE @] : n \in 0 .. Len(data)}

\* shutdownInLoop(): not before everything is written.
ShutdownInLoop_AtOnce(s) == [s EXCEPT !.fin = TRUE]
ShutdownInLoop(s) == [s EXCEPT !.fin = (s.out = <<>>)]

\* send() and shutdown() by a callback, in a turn that goes on with its functors.
Sends(s, data) == sock' \in SendInLoop(s, data) /\ pos' = pos + Len(data)
SendsLast(s, data) ==
  /\ sock' \in {ShutdownInLoop(t) : t \in SendInLoop(s, data)} /\ pos' = pos + Len(data)
  /\ conn' = "disconnecting"

\* The end of an event: the loop turns to the functors it has, those the event queued
\* among them.
Turn == phase' = "functors" /\ batch' = sock'.pend
Idle == phase = "poll"

-----------------------------------------------------------------------------
\* onConnection(), connected.
chunk == Least(kBufSize, size - pos)
download_onConnection == SendsLast(sock, Units(size)) /\ UNCHANGED fp
OpenAndSend ==
  IF exists THEN Sends(sock, Units(chunk)) /\ conn' = "up" /\ fp' = "open"
  ELSE sock' = ShutdownInLoop(sock) /\ conn' = "disconnecting" /\ UNCHANGED <<pos, fp>>
download2_onConnection == OpenAndSend
download3_onConnection == OpenAndSend
chargen_onConnection == Sends(sock, Units(kMessage)) /\ conn' = "up" /\ UNCHANGED fp
daytime_onConnection == SendsLast(sock, Units(kMessage)) /\ UNCHANGED fp
time_onConnection == SendsLast(sock, Units(kMessage)) /\ UNCHANGED fp
other_onConnection == conn' = "up" /\ UNCHANGED <<sock, pos, fp>>

connected ==
  /\ Idle /\ conn = "new"
  /\ CASE kind = "download" -> download_onConnection
       [] kind = "download2" -> download2_onConnection
       [] kind = "download3" -> download3_onConnection
       [] kind = "chargen" -> chargen_onConnection
       [] kind = "daytime" -> daytime_onConnection
       [] kind = "time" -> time_onConnection
       [] kind \in Echoes \cup Discards -> other_onConnection
  /\ Turn
  /\ UNCHANGED <<kind, exists, size, misused, late, arrived, transferred, oldCounter, reported, reports>>

\* onConnection(), disconnected: the first version with a FILE closes it, and keeps the
\* pointer; the shared pointer of the second goes with the connection.
download2_onDisconnected ==
  /\ fp' = IF fp = "open" THEN "closed" ELSE fp
  /\ misused' = (misused \/ fp = "closed")
disconnected ==
  /\ Idle /\ conn \in {"up", "disconnecting"}
  /\ conn' = "down" /\ late' = (sock.pend > 0) /\ sock' = [sock EXCEPT !.out = <<>>]
  /\ IF kind = "download2" THEN download2_onDisconnected ELSE UNCHANGED <<fp, misused>>
  /\ Turn
  /\ UNCHANGED <<kind, exists, size, pos, arrived, transferred, oldCounter, reported, reports>>

\* onMessage(): n units from the client.
echo_onMessage(data) == Sends(sock, data) /\ UNCHANGED transferred
netty_echo_onMessage(data) == Sends(sock, data) /\ transferred' = transferred + Len(data)
netty_echo2_onMessage(data) == Sends(sock, data) /\ transferred' = transferred + Len(data)
netty_discard_onMessage(data) == transferred' = transferred + Len(data) /\ UNCHANGED <<sock, pos>>
discard_onMessage(data) == UNCHANGED <<sock, pos, transferred>>

message ==
  /\ Idle /\ conn = "up" /\ kind \in Echoes \cup Discards
  /\ \E n \in 1 .. MaxIn - arrived :
       /\ arrived' = arrived + n
       /\ LET data == [i \in 1 .. n |-> arrived + i]
          IN  CASE kind = "echo" -> echo_onMessage(data)
                [] kind = "netty_echo" -> netty_echo_onMessage(data)
                [] kind = "netty_echo2" -> netty_echo2_onMessage(data)
                [] kind = "netty_discard" -> netty_discard_onMessage(data)
                [] kind = "discard" -> discard_onMessage(data)
  /\ Turn
  /\ UNCHANGED <<kind, exists, size, conn, fp, misused, late, oldCounter, reported, reports>>

\* handleWrite().
handleWrite ==
  /\ Idle /\ conn \in {"up", "disconnecting"} /\ sock.out # <<>>
  /\ \E n \in 1 .. Len(sock.out) :
       LET s == [sock EXCEPT !.out = SubSeq(@, n + 1, Len(@)), !.got = @ \o SubSeq(sock.out, 1, n)]
       IN  sock' = IF s.out # <<>> THEN s
                   ELSE [s EXCEPT !.pend = @ + 1, !.fin = (conn = "disconnecting")]
  /\ Turn
  /\ UNCHANGED <<kind, exists, size, conn, pos, fp, misused, late, arrived, transferred, oldCounter, reported, reports>>

\* Nothing but the wakeup for a functor.
wakeup ==
  /\ Idle /\ sock.pend > 0 /\ UNCHANGED sock /\ Turn
  /\ UNCHANGED <<kind, exists, size, conn, pos, fp, misused, late, arrived, transferred, oldCounter, reported, reports>>

\* printThroughput() of those that have one: counters that are reset, and one that grows.
Since_Start == transferred
Since == transferred - oldCounter
chargen_print == reported' = reported + transferred /\ transferred' = 0 /\ UNCHANGED oldCounter
netty_echo2_print == reported' = reported + transferred /\ transferred' = 0 /\ UNCHANGED oldCounter
netty_echo_print == reported' = reported + Since /\ oldCounter' = transferred /\ UNCHANGED transferred
netty_discard_print == reported' = reported + Since /\ oldCounter' = transferred /\ UNCHANGED transferred

printThroughput ==
  /\ Idle /\ kind \in {"chargen", "netty_echo", "netty_echo2", "netty_discard"} /\ reports < MaxReports
  /\ reports' = reports + 1
  /\ CASE kind = "chargen" -> chargen_print
       [] kind = "netty_echo" -> netty_echo_print
       [] kind = "netty_echo2" -> netty_echo2_print
       [] kind = "netty_discard" -> netty_discard_print
  /\ UNCHANGED sock /\ Turn
  /\ UNCHANGED <<kind, exists, size, conn, pos, fp, misused, late, arrived>>

-----------------------------------------------------------------------------
\* onWriteComplete(): the next chunk, or the end.  send() and shutdown() do nothing to a
\* connection that is down.
NextChunk(s) ==
  IF conn = "up" THEN Sends(s, Units(chunk)) ELSE sock' = s /\ pos' = pos + chunk
LastChunk(s) ==
  IF conn = "up" THEN sock' = ShutdownInLoop(s) /\ conn' = "disconnecting" /\ UNCHANGED pos
  ELSE sock' = s /\ UNCHANGED <<conn, pos>>

Forgotten_Not == "closed"
Forgotten == "null"
download2_onWriteComplete(s) ==
  /\ misused' = (misused \/ fp # "open")
  /\ IF chunk > 0 THEN NextChunk(s) /\ UNCHANGED <<fp, conn>> ELSE fp' = Forgotten /\ LastChunk(s)
  /\ UNCHANGED transferred
download3_onWriteComplete(s) ==
  /\ IF chunk > 0 THEN NextChunk(s) /\ UNCHANGED conn ELSE LastChunk(s)
  /\ UNCHANGED <<fp, misused, transferred>>
chargen_onWriteComplete(s) ==
  /\ transferred' = transferred + kMessage
  /\ IF conn = "up" /\ pos + kMessage <= MaxOut THEN Sends(s, Units(kMessage)) ELSE sock' = s /\ UNCHANGED pos
  /\ UNCHANGED <<conn, fp, misused>>

runFunctor ==
  /\ phase = "functors" /\ batch > 0
  /\ LET s == [sock EXCEPT !.pend = @ - 1]
     IN  CASE kind = "download2" -> download2_onWriteComplete(s)
           [] kind = "download3" -> download3_onWriteComplete(s)
           [] kind = "chargen" -> chargen_onWriteComplete(s)
           [] OTHER -> sock' = s /\ UNCHANGED <<conn, pos, fp, misused, transferred>>
  /\ batch' = batch - 1
  /\ UNCHANGED <<kind, exists, size, phase, late, arrived, oldCounter, reported, reports>>

nextTurn ==
  /\ phase = "functors" /\ batch = 0 /\ phase' = "poll"
  /\ UNCHANGED <<kind, exists, size, conn, sock, batch, pos, fp, misused, late, arrived, transferred, oldCounter, reported, reports>>

Next == connected \/ disconnected \/ message \/ handleWrite \/ wakeup \/ printThroughput \/ runFunctor \/ nextTurn

Progress == connected \/ handleWrite \/ wakeup \/ runFunctor \/ nextTurn
Spec == Init /\ [][Next]_vars /\ WF_vars(Progress)

-----------------------------------------------------------------------------
Whole == CASE kind \in Files -> size [] kind \in Once -> kMessage [] OTHER -> arrived

\* The client gets what it is to get in order, each unit once: the file, the time, or its
\* own bytes.  A server that shuts the connection down has sent the whole of it.
ReceivedInOrder ==
  /\ sock.got = [i \in 1 .. Len(sock.got) |-> i]
  /\ kind # "chargen" => Len(sock.got) <= Whole
  /\ sock.fin => Len(sock.got) = Whole

\* The reports and the counter add up to the bytes that have come, or, for chargen, to no
\* more than the client's socket has taken.
CountedOnce ==
  LET counted == reported + transferred - oldCounter
  IN  /\ kind \in {"netty_echo", "netty_echo2", "netty_discard"} => counted = arrived
      /\ kind = "chargen" => counted <= Len(sock.got)

\* A FILE is not used after fclose(), except by a write-complete callback that was queued
\* when the connection went down, in the second server (download2.cc:59).
FileIsOpen == misused => kind = "download2" /\ late /\ conn = "down"

\* A client that stays has got the whole file, or the time, and the end of it.
Ended == kind \in Files \cup Once => sock.fin \/ conn = "down"

-----------------------------------------------------------------------------
(***************************************************************************)
(* examples/ace/ttcp/ttcp.cc: the transmitter sends a session message and  *)
(* `number' messages of `length', each after the acknowledgement of the    *)
(* one before; the receiver acknowledges with the length.  A unit of the   *)
(* streams is a 32-bit word, or a byte of payload (-1); the network        *)
(* delivers them in pieces.                                                *)
(***************************************************************************)
CONSTANTS Numbers, Lengths   \* opt.number and opt.length

VARIABLES
  opt,       \* [number, length]
  tx, rx,    \* the ends: [up, shut, count, bytes, session]
  there,     \* units on their way to the receiver, in tx's socket
  back,      \* to the transmitter
  rxBuf, txBuf  \* input buffers

ttcpVars == <<opt, tx, rx, there, back, rxBuf, txBuf>>

payload == [i \in 1 .. opt.length |-> -1]
ttcpMessage == <<opt.length>> \o payload

\* onConnection() at both ends: the transmitter's Context is filled, and the session
\* message and the first message are sent.
trans_onConnection(o) == [up |-> TRUE, shut |-> FALSE, count |-> 1, bytes |-> o.length, session |-> o]
receiving_onConnection == [up |-> TRUE, shut |-> FALSE, count |-> 0, bytes |-> 0, session |-> [number |-> 0, length |-> 0]]

TtcpInit ==
  /\ opt \in [number : Numbers, length : Lengths]
  /\ tx = trans_onConnection(opt) /\ rx = receiving_onConnection
  /\ there = <<opt.number, opt.length>> \o ttcpMessage /\ back = <<>>
  /\ rxBuf = <<>> /\ txBuf = <<>>

-----------------------------------------------------------------------------
\* The state of an end in its onMessage(): what is left of the buffer, and what is sent.
\* send() does nothing once shutdown() has been called.
State(end, buf) == [end |-> end, buf |-> buf, out |-> <<>>]
Sent(s, data) == IF s.end.shut THEN s ELSE [s EXCEPT !.out = @ \o data]
Shut(s) == [s EXCEPT !.end.shut = TRUE]
Consume(s, n) == [s EXCEPT !.buf = SubSeq(@, n + 1, Len(@))]

MoreToSend_One(e) == e.count <= e.session.number
MoreToSend(e) == e.count < e.session.number
RECURSIVE trans_onMessage(_)
trans_onMessage(s) ==
  IF s.buf = <<>> THEN s
  ELSE LET t == Consume(s, 1)
       IN  IF s.buf[1] = s.end.session.length /\ MoreToSend(s.end)
           THEN trans_onMessage([Sent(t, ttcpMessage) EXCEPT !.end.count = @ + 1, !.end.bytes = @ + s.buf[1]])
           ELSE Shut(t)

\* The check of the count, after a message has been acknowledged.
LastOne(e) == e.count >= e.session.number

\* What the receiver waits for: the rest of the session message, or of a message.
Waits(s) ==
  \/ s.buf = <<>>
  \/ s.end.session = [number |-> 0, length |-> 0] /\ Len(s.buf) < 2
  \/ /\ s.end.session # [number |-> 0, length |-> 0]
     /\ s.buf[1] = s.end.session.length /\ Len(s.buf) < s.end.session.length + 1

RECURSIVE receiving_onMessage(_)
receiving_onMessage(s) ==
  IF Waits(s) THEN s
  ELSE IF s.end.session = [number |-> 0, length |-> 0]
  THEN receiving_onMessage([Consume(s, 2) EXCEPT !.end.session = [number |-> s.buf[1], length |-> s.buf[2]]])
  ELSE IF s.buf[1] # s.end.session.length THEN Shut(s)
  ELSE LET t == [Sent(Consume(s, s.end.session.length + 1), <<s.end.session.length>>)
                   EXCEPT !.end.count = @ + 1, !.end.bytes = @ + s.buf[1]]
       IN  IF LastOne(t.end) THEN Shut(t) ELSE receiving_onMessage(t)

-----------------------------------------------------------------------------
\* A piece of the stream arrives; the end of it, once the peer has shut it down, closes
\* the connection and ends the program.
receive ==
  /\ rx.up /\ there # <<>>
  /\ \E n \in 1 .. Len(there) :
       LET s == receiving_onMessage(State(rx, rxBuf \o SubSeq(there, 1, n)))
       IN  /\ rx' = s.end /\ rxBuf' = s.buf /\ back' = back \o s.out
           /\ there' = SubSeq(there, n + 1, Len(there))
  /\ UNCHANGED <<opt, tx, txBuf>>

transmit ==
  /\ tx.up /\ back # <<>>
  /\ \E n \in 1 .. Len(back) :
       LET s == trans_onMessage(State(tx, txBuf \o SubSeq(back, 1, n)))
       IN  /\ tx' = s.end /\ txBuf' = s.buf /\ there' = there \o s.out
           /\ back' = SubSeq(back, n + 1, Len(back))
  /\ UNCHANGED <<opt, rx, rxBuf>>

rxCloses ==
  /\ rx.up /\ there = <<>> /\ (tx.shut \/ ~tx.up) /\ rx' = [rx EXCEPT !.up = FALSE, !.shut = TRUE]
  /\ UNCHANGED <<opt, tx, there, back, rxBuf, txBuf>>
txCloses ==
  /\ tx.up /\ back = <<>> /\ rx.shut /\ tx' = [tx EXCEPT !.up = FALSE, !.shut = TRUE]
  /\ UNCHANGED <<opt, rx, there, back, rxBuf, txBuf>>

TtcpNext == receive \/ transmit \/ rxCloses \/ txCloses
TtcpSpec == TtcpInit /\ [][TtcpNext]_ttcpVars /\ WF_ttcpVars(TtcpNext)

-----------------------------------------------------------------------------
\* The transmitter is never more than one message ahead, and when both ends are down they
\* have counted the same messages and bytes, all that were to be sent (one at least).
BothCountTheSame ==
  /\ tx.count - rx.count \in {0, 1}
  /\ ~tx.up /\ ~rx.up =>
       /\ tx.count = rx.count /\ tx.bytes = rx.bytes
       /\ tx.count = IF opt.number > 0 THEN opt.number ELSE 1
       /\ tx.bytes = tx.count * opt.length

\* A transfer has come to its end at both ends, unless both options are 0: the receiver
\* then takes the session message for none (ttcp.cc:155) and waits for another.
Transferred == opt.number > 0 \/ opt.length > 0 => ~tx.up /\ ~rx.up
=============================================================================
