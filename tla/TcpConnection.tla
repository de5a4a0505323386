---------------------------- MODULE TcpConnection ----------------------------
(***************************************************************************)
(* muduo::net::TcpConnection (muduo/net/TcpConnection.cc) with the part of *)
(* TcpServer that owns it: one connection, from its entry in the server's  *)
(* connection map to the destructor.                                       *)
(*                                                                         *)
(* Four actors: the I/O loop's thread, which handles the channel's events  *)
(* and runs functors in batches; the server's loop, which is another       *)
(* thread unless the server has no I/O threads; user code on the I/O       *)
(* thread (inside callbacks or in other handlers of that loop); and user   *)
(* code on a foreign thread, whose calls are a test of state_, perhaps an  *)
(* assignment to it, and a functor for the loop.                           *)
(*                                                                         *)
(* The object is counted by shared_ptr: it lives as long as the map, the   *)
(* program, a running call or a functor that was bound to a shared_ptr     *)
(* holds it.  Functors bound to a raw this do not count.                   *)
(***************************************************************************)
EXTENDS Naturals, Sequences, Functions, Channel

CONSTANTS Messages,        \* what may be sent, each at most once
          Size,            \* chunks per message; a write may take only some
          HighWaterMark,   \* highWaterMark_, in chunks
          MaxCalls,        \* bound: calls that close, or start or stop reading
          Uses             \* uses outside the ordinary that the program makes

ASSUME SizeAssumption == Size \in Nat \ {0}

(* The calls a program may make although the code does not cope with them: *)
(* closing while reading is stopped; startRead() after the close; dropping *)
(* the last TcpConnectionPtr right after a send() on another thread;       *)
(* ~TcpServer() while the connection is being shut down.                   *)
ASSUME UsesAssumption ==
  Uses \subseteq {"paused close", "late read", "early drop", "early destruct"}

VARIABLES
  conn,       \* state_, reading_, channel and output side of the connection
  wire,       \* chunks handed to the kernel, in order
  taken,      \* history: messages sendInLoop wrote or buffered, in order
  pending,    \* the I/O loop's queue
  batch,      \* functors of the batch still to run
  phase,      \* where the loop is in its iteration
  held,       \* functors already run hold a shared_ptr until the batch ends
  todo,       \* callbacks the current handleEvent() has still to make
  cb,         \* the connection callback being run, if any
  inMap,      \* TcpServer::connections_ holds the connection
  removing,   \* removeConnectionInLoop calls queued on the server's loop
  threaded,   \* the server has I/O threads
  server,     \* the TcpServer exists
  userRef,    \* the program holds a TcpConnectionPtr
  call,       \* the call a foreign thread is in the middle of
  delayed,    \* the timer of forceCloseWithDelay() is pending
  sent,       \* messages send() was called for
  forced,     \* history: a forceClose() is asked for
  calls,      \* number of other calls made
  ups, downs, \* history: connection callbacks made, up and down
  destroys,   \* history: calls of connectDestroyed()
  failed      \* assertions that failed, and uses of a freed object

loopVars == <<pending, batch, phase, held, todo>>
serverVars == <<inMap, removing, threaded, server>>
userVars == <<userRef, call, delayed, sent, forced, calls>>
outVars == <<wire, taken>>
cbVars == <<cb, ups, downs, destroys>>
vars == <<conn, outVars, loopVars, serverVars, userVars, cbVars, failed>>

NoCall == [op |-> "none", step |-> 0, msg |-> 0]
Functor(op) == [op |-> op, msg |-> 0]

SharedFunctors == {"connectEstablished", "connectDestroyed", "forceClose",
                   "writeComplete", "highWater"}

(* Some shared_ptr to the connection exists. *)
Referenced ==
  \/ inMap \/ userRef \/ held
  \/ call # NoCall
  \/ cb # "none"
  \/ removing > 0
  \/ \E f \in Range(pending) \cup Range(batch) : f.op \in SharedFunctors

(* TcpServer::newConnection() has made the connection and handed           *)
(* connectEstablished to the I/O loop, or is about to call it on this one. *)
Init ==
  /\ conn = [state |-> "kConnecting", reading |-> TRUE, events |-> {},
             index |-> "kNew", output |-> <<>>, writeShut |-> FALSE]
  /\ wire = <<>> /\ taken = <<>>
  /\ threaded \in BOOLEAN
  /\ pending = IF threaded THEN <<Functor("connectEstablished")>> ELSE <<>>
  /\ todo = IF threaded THEN <<>> ELSE <<"establish">>
  /\ phase = "events"
  /\ batch = <<>> /\ held = FALSE
  /\ cb = "none" /\ ups = 0 /\ downs = 0 /\ destroys = 0
  /\ inMap = TRUE /\ removing = 0 /\ server = TRUE
  /\ userRef = FALSE /\ call = NoCall /\ delayed = FALSE
  /\ sent = {} /\ forced = FALSE /\ calls = 0
  /\ failed = {}

Queue(functors) == pending' = pending \o functors

(* Channel::update() with the default poller, EPollPoller: an update that  *)
(* leaves no events takes a watched descriptor off the kernel's list, and  *)
(* puts one that is off the list back on it.                               *)
Updated(c, events) ==
  [c EXCEPT !.events = events,
            !.index = IF c.index = "kAdded" /\ events = {} THEN "kDeleted"
                      ELSE "kAdded"]

(* assert() as a record of what failed. *)
Asserted(holds, what) == failed' = IF holds THEN failed ELSE failed \cup {what}

-----------------------------------------------------------------------------
(* The output side.                                                        *)

Chunks(m) == [i \in 1..Size |-> m]

(* sendInLoop(): "if no thing in output queue, try writing directly". *)
WritesDirectly_Always == TRUE
WritesDirectly == ~isWriting(conn.events) /\ conn.output = <<>>

(* What write(2) may do with n chunks: take some, none (EWOULDBLOCK), or   *)
(* fail with EPIPE or ECONNRESET, as it must after shutdownWrite().        *)
Writes(n) ==
  IF conn.writeShut THEN {[n |-> 0, fault |-> TRUE]}
  ELSE [n : 0..n, fault : {FALSE}] \cup {[n |-> 0, fault |-> TRUE]}

CrossesHighWater(old, new) == new >= HighWaterMark /\ old < HighWaterMark

(* sendInLoop() *)
sendInLoop(m) ==
  IF conn.state = "kDisconnected"
  THEN UNCHANGED <<conn, outVars, pending>>
  ELSE \E w \in IF WritesDirectly THEN Writes(Size)
                ELSE {[n |-> 0, fault |-> FALSE]} :
         LET rest == SubSeq(Chunks(m), w.n + 1, Size)
             new == conn.output \o rest
         IN  /\ wire' = wire \o SubSeq(Chunks(m), 1, w.n)
             /\ IF w.fault
                THEN UNCHANGED <<conn, taken, pending>>
                ELSE /\ taken' = Append(taken, m)
                     /\ conn' = IF rest = <<>> THEN conn
                                ELSE [Updated(conn, enableWriting(conn.events))
                                        EXCEPT !.output = new]
                     /\ Queue(IF rest = <<>> THEN <<Functor("writeComplete")>>
                              ELSE IF CrossesHighWater(Len(conn.output), Len(new))
                              THEN <<Functor("highWater")>> ELSE <<>>)

(* shutdownInLoop() *)
ShutNow(c) == ~isWriting(c.events)
Shut(c) == IF ShutNow(c) THEN [c EXCEPT !.writeShut = TRUE] ELSE c

(* handleWrite() once everything is written: disableWriting(), and the     *)
(* shutdownInLoop() that waited for it.                                    *)
Unwatched_Kept(c) == [c EXCEPT !.output = <<>>]
Unwatched(c) == [Updated(c, disableWriting(c.events)) EXCEPT !.output = <<>>]
Drained_NoShutdown(c) == Unwatched(c)
Drained(c) ==
  IF c.state = "kDisconnecting" THEN Shut(Unwatched(c)) ELSE Unwatched(c)

handleWrite ==
  /\ IF ~isWriting(conn.events)
     THEN UNCHANGED <<conn, wire, pending>>
     ELSE \E w \in Writes(Len(conn.output)) :
            LET rest == SubSeq(conn.output, w.n + 1, Len(conn.output))
            IN  /\ wire' = wire \o SubSeq(conn.output, 1, w.n)
                /\ conn' = IF w.n > 0 /\ rest = <<>> THEN Drained(conn)
                           ELSE [conn EXCEPT !.output = rest]
                /\ Queue(IF w.n > 0 /\ rest = <<>>
                         THEN <<Functor("writeComplete")>> ELSE <<>>)
  /\ UNCHANGED <<taken, cbVars, failed>>

-----------------------------------------------------------------------------
(* Closing.                                                                *)

(* The guard of forceClose() and forceCloseInLoop(), which handleClose()   *)
(* asserts.                                                                *)
CanClose == conn.state \in {"kConnected", "kDisconnecting"}

(* setState(kDisconnected), disableAll() *)
Closed_StateKept(c) == Updated(c, {})
Closed(c) == Updated([c EXCEPT !.state = "kDisconnected"], {})

(* handleClose() up to and into the connection callback; closeReturns is   *)
(* the rest.                                                               *)
handleClose ==
  /\ conn' = Closed(conn)
  /\ cb' = "close"
  /\ downs' = downs + 1
  /\ Asserted(CanClose, "handleClose")
  /\ UNCHANGED <<ups, destroys, outVars, pending>>

(* closeCallback_ is TcpServer::removeConnection(). *)
RemovalsAsked_None == removing
RemovalsAsked == removing + 1

(* removeConnectionInLoop() *)
removeFromMap ==
  /\ inMap' = FALSE
  /\ Asserted(inMap, "removeConnectionInLoop")
  /\ Queue(<<Functor("connectDestroyed")>>)

closeReturns ==
  /\ cb = "close"
  /\ cb' = "none"
  /\ \/ /\ threaded
        /\ removing' = RemovalsAsked
        /\ UNCHANGED <<inMap, pending, failed>>
     \/ /\ ~threaded
        /\ removeFromMap
        /\ UNCHANGED removing
  /\ UNCHANGED <<conn, outVars, batch, phase, held, todo, threaded, server,
                 userVars, ups, downs, destroys>>

(* Channel::remove(), the end of connectDestroyed() *)
Removed_Kept(c) == c
Removed(c) == [c EXCEPT !.index = "kNew"]
removeChannel ==
  /\ conn' = Removed(conn)
  /\ Asserted(conn.events = {}, "Channel::remove")

(* connectDestroyed() of a connection that is still up makes the down      *)
(* callback first; destroyReturns is the rest.                             *)
StillUp_Always == TRUE
StillUp == conn.state = "kConnected"

connectDestroyed ==
  /\ destroys' = destroys + 1
  /\ IF StillUp
     THEN /\ conn' = Closed(conn)
          /\ cb' = "destroy"
          /\ downs' = downs + 1
          /\ UNCHANGED failed
     ELSE removeChannel /\ UNCHANGED <<cb, downs>>
  /\ UNCHANGED <<ups, outVars, pending>>

destroyReturns ==
  /\ cb = "destroy"
  /\ cb' = "none"
  /\ removeChannel
  /\ UNCHANGED <<outVars, loopVars, serverVars, userVars, ups, downs, destroys>>

(* connectEstablished(); the program keeps the TcpConnectionPtr. *)
connectEstablished ==
  /\ Asserted(conn.state = "kConnecting", "connectEstablished")
  /\ conn' = Updated([conn EXCEPT !.state = "kConnected"],
                     enableReading(conn.events))
  /\ ups' = ups + 1
  /\ UNCHANGED <<cb, downs, destroys, outVars, pending>>

StartedRead(c) ==
  IF ~c.reading \/ ~isReading(c.events)
  THEN [Updated(c, enableReading(c.events)) EXCEPT !.reading = TRUE] ELSE c
StoppedRead(c) ==
  IF c.reading \/ isReading(c.events)
  THEN [Updated(c, disableReading(c.events)) EXCEPT !.reading = FALSE] ELSE c

-----------------------------------------------------------------------------
(* The I/O loop's thread.                                                  *)

(* What poll() may report.  A hang-up of a TCP socket comes with "in".     *)
SocketStates == {r \in SUBSET {"in", "out", "err", "hup"} :
                   "hup" \in r => "in" \in r}

(* poll() returns, perhaps for other reasons than this connection. *)
poll ==
  /\ phase = "poll"
  /\ phase' = "events"
  /\ todo' \in IF conn.index = "kAdded"
               THEN {Callbacks(Reported(r, conn.events)) : r \in SocketStates}
               ELSE {<<>>}
  /\ UNCHANGED <<conn, outVars, pending, batch, held, serverVars, userVars,
                 cbVars, failed>>

(* handleRead(): data (messageCallback_ is user code), the end of the      *)
(* stream, or an error, which is only logged.                              *)
handleRead == handleClose \/ UNCHANGED <<conn, outVars, pending, cbVars, failed>>

handleEvent ==
  /\ phase = "events" /\ todo # <<>> /\ cb = "none"
  /\ todo' = Tail(todo)
  /\ userRef' = (userRef \/ Head(todo) = "establish")
  /\ \/ Head(todo) = "establish" /\ connectEstablished
     \/ Head(todo) = "close" /\ handleClose
     \/ Head(todo) = "error" /\ UNCHANGED <<conn, outVars, pending, cbVars, failed>>
     \/ Head(todo) = "read" /\ handleRead
     \/ Head(todo) = "write" /\ handleWrite
  /\ UNCHANGED <<batch, phase, held, serverVars, call, delayed, sent, forced,
                 calls>>

doPendingFunctors ==
  /\ phase = "events" /\ todo = <<>> /\ cb = "none"
  /\ phase' = "functors"
  /\ batch' = pending /\ pending' = <<>>
  /\ UNCHANGED <<conn, outVars, held, todo, serverVars, userVars, cbVars, failed>>

InLoopGuard_None == TRUE
InLoopGuard == CanClose

forceCloseInLoop ==
  IF InLoopGuard THEN handleClose
  ELSE UNCHANGED <<conn, outVars, pending, cbVars, failed>>

(* The effect of one functor on a living connection. *)
Run(f) ==
  \/ f.op = "connectEstablished" /\ connectEstablished
  \/ f.op = "connectDestroyed" /\ connectDestroyed
  \/ f.op = "forceClose" /\ forceCloseInLoop
  \/ f.op = "send" /\ sendInLoop(f.msg) /\ UNCHANGED <<cbVars, failed>>
  \/ /\ f.op \in {"writeComplete", "highWater"}
     /\ UNCHANGED <<conn, outVars, pending, cbVars, failed>>

runFunctor ==
  /\ phase = "functors" /\ cb = "none"
  /\ batch # <<>>
  /\ batch' = Tail(batch)
  /\ held' = (held \/ Head(batch).op \in SharedFunctors)
  /\ IF Referenced THEN Run(Head(batch))
     ELSE /\ failed' = failed \cup {"functor on a freed connection"}
          /\ UNCHANGED <<conn, outVars, pending, cbVars>>
  /\ userRef' = (userRef \/ Head(batch).op = "connectEstablished")
  /\ UNCHANGED <<phase, todo, serverVars, call, delayed, sent, forced,
                 calls>>

(* The batch ends; its functors are destroyed. *)
batchEnds ==
  /\ phase = "functors" /\ batch = <<>> /\ cb = "none"
  /\ phase' = "poll"
  /\ held' = FALSE
  /\ UNCHANGED <<conn, outVars, pending, batch, todo, serverVars, userVars,
                 cbVars, failed>>

(* The timer of forceCloseWithDelay(): forceClose() through a weak_ptr. *)
delayExpires ==
  /\ delayed /\ phase = "events" /\ todo = <<>> /\ cb = "none"
  /\ delayed' = FALSE
  /\ IF Referenced /\ CanClose
     THEN /\ conn' = [conn EXCEPT !.state = "kDisconnecting"]
          /\ Queue(<<Functor("forceClose")>>)
     ELSE UNCHANGED <<conn, pending>>
  /\ UNCHANGED <<outVars, batch, phase, held, todo, serverVars, userRef, call,
                 sent, forced, calls, cbVars, failed>>

-----------------------------------------------------------------------------
(* User code on the I/O thread: in a callback of this connection or, with  *)
(* a TcpConnectionPtr of its own, in any handler or functor.               *)
UserHere == phase # "poll" /\ ups > 0 /\ (cb # "none" \/ userRef)

send(m) ==
  /\ UserHere
  /\ m \notin sent /\ sent' = sent \cup {m}
  /\ conn.state = "kConnected"
  /\ sendInLoop(m)
  /\ UNCHANGED <<batch, phase, held, todo, serverVars, userRef, call, delayed,
                 forced, calls, cbVars, failed>>

CountCall == calls < MaxCalls /\ calls' = calls + 1

shutdown ==
  /\ UserHere /\ CountCall
  /\ conn.state = "kConnected"
  /\ conn' = Shut([conn EXCEPT !.state = "kDisconnecting"])
  /\ UNCHANGED <<outVars, loopVars, serverVars, userRef, call, delayed, sent,
                 forced, cbVars, failed>>

forceClose ==
  /\ UserHere /\ CountCall
  /\ CanClose
  /\ isReading(conn.events) \/ "paused close" \in Uses
  /\ conn' = [conn EXCEPT !.state = "kDisconnecting"]
  /\ Queue(<<Functor("forceClose")>>)
  /\ forced' = TRUE
  /\ UNCHANGED <<outVars, batch, phase, held, todo, serverVars, userRef, call,
                 delayed, sent, cbVars, failed>>

forceCloseWithDelay ==
  /\ UserHere /\ CountCall
  /\ CanClose
  /\ isReading(conn.events) \/ "paused close" \in Uses
  /\ conn' = [conn EXCEPT !.state = "kDisconnecting"]
  /\ delayed' = TRUE
  /\ forced' = TRUE
  /\ UNCHANGED <<outVars, loopVars, serverVars, userRef, call, sent, cbVars,
                 failed>>

startRead ==
  /\ UserHere /\ CountCall
  /\ conn.state # "kDisconnected" \/ "late read" \in Uses
  /\ conn' = StartedRead(conn)
  /\ UNCHANGED <<outVars, loopVars, serverVars, userRef, call, delayed, sent,
                 forced, cbVars, failed>>

stopRead ==
  /\ UserHere /\ CountCall
  /\ \/ conn.state = "kConnected" /\ {"read", "close"} \cap Range(todo) = {}
     \/ conn.state # "kDisconnected" /\ "paused close" \in Uses
  /\ conn' = StoppedRead(conn)
  /\ UNCHANGED <<outVars, loopVars, serverVars, userRef, call, delayed, sent,
                 forced, cbVars, failed>>

-----------------------------------------------------------------------------
(* User code on a foreign thread.                                          *)

(* The test of state_ in send() and forceClose() ...                       *)
foreignSend(m) ==
  /\ userRef /\ call = NoCall
  /\ conn.state = "kConnected"
  /\ m \notin sent /\ sent' = sent \cup {m}
  /\ call' = [op |-> "send", step |-> 2, msg |-> m]
  /\ UNCHANGED <<conn, outVars, loopVars, serverVars, userRef, delayed, forced,
                 calls, cbVars, failed>>

foreignForceClose ==
  /\ userRef /\ call = NoCall
  /\ CountCall
  /\ CanClose
  /\ call' = [op |-> "forceClose", step |-> 1, msg |-> 0]
  /\ forced' = TRUE
  /\ UNCHANGED <<conn, outVars, loopVars, serverVars, userRef, delayed, sent,
                 cbVars, failed>>

(* ... setState(kDisconnecting) ... *)
foreignSets ==
  /\ call.step = 1
  /\ call' = [call EXCEPT !.step = 2]
  /\ conn' = [conn EXCEPT !.state = "kDisconnecting"]
  /\ UNCHANGED <<outVars, loopVars, serverVars, userRef, delayed, sent, forced,
                 calls, cbVars, failed>>

(* ... and the functor for the loop. *)
foreignQueues ==
  /\ call.step = 2
  /\ Queue(<<[op |-> call.op, msg |-> call.msg]>>)
  /\ call' = NoCall
  /\ UNCHANGED <<conn, outVars, batch, phase, held, todo, serverVars, userRef,
                 delayed, sent, forced, calls, cbVars, failed>>

(* The program lets go of the connection.  Functors bound to a raw this    *)
(* must have run by then, and none be on its way.                          *)
dropRef ==
  /\ userRef
  /\ \/ "early drop" \in Uses
     \/ /\ call = NoCall
        /\ \A f \in Range(pending \o batch) : f.op \in SharedFunctors
  /\ userRef' = FALSE
  /\ UNCHANGED <<conn, outVars, loopVars, serverVars, call, delayed, sent, forced,
                 calls, cbVars, failed>>

-----------------------------------------------------------------------------
(* The server's loop.                                                      *)

removeConnectionInLoop ==
  /\ removing > 0
  /\ removing' = removing - 1
  /\ removeFromMap
  /\ UNCHANGED <<conn, outVars, batch, phase, held, todo, threaded, server,
                 userVars, cbVars>>

(* ~TcpServer() of a server without I/O threads runs connectDestroyed() of *)
(* its connections at once.                                                *)
serverDestructs ==
  /\ ~threaded /\ server /\ ups > 0
  /\ phase # "poll" /\ cb = "none" /\ todo = <<>>
  /\ conn.state # "kDisconnecting" \/ "early destruct" \in Uses
  /\ server' = FALSE
  /\ inMap' = FALSE
  /\ IF inMap THEN connectDestroyed
     ELSE UNCHANGED <<conn, outVars, pending, cbVars, failed>>
  /\ UNCHANGED <<batch, phase, held, todo, removing, threaded, userVars>>

-----------------------------------------------------------------------------
LoopThread ==
  \/ poll \/ handleEvent \/ closeReturns
  \/ doPendingFunctors \/ runFunctor \/ destroyReturns \/ batchEnds
UserOnLoop ==
  \/ \E m \in Messages : send(m)
  \/ shutdown \/ forceClose \/ forceCloseWithDelay \/ startRead \/ stopRead
Foreign ==
  (\E m \in Messages : foreignSend(m)) \/ foreignQueues \/ dropRef

Server == removeConnectionInLoop \/ serverDestructs

Next == LoopThread \/ delayExpires \/ UserOnLoop \/ Foreign \/ Server

Spec == Init /\ [][Next]_vars

(* With forceClose() on the foreign thread as well; the server stays. *)
ForeignCloseSpec == Init /\ threaded = TRUE /\ [][Next \/ foreignForceClose \/ foreignSets]_vars

(* Handlers and functors return and the loops go round, a call that has    *)
(* begun goes on, and a timer that has expired stays so until its handler  *)
(* has run.                                                                *)
FairSpec ==
  /\ Spec
  /\ WF_vars(LoopThread) /\ WF_vars(removeConnectionInLoop)
  /\ WF_vars(foreignQueues) /\ SF_vars(delayExpires)

-----------------------------------------------------------------------------
(* Properties                                                              *)

States == {"kConnecting", "kConnected", "kDisconnecting", "kDisconnected"}

Functors == [op : SharedFunctors, msg : {0}] \cup [op : {"send"}, msg : Messages]
Handlers == {"establish", "close", "error", "read", "write"}

Connections == [state : States, reading : BOOLEAN, events : Interests,
                index : {"kNew", "kAdded", "kDeleted"}, output : Seq(Messages), writeShut : BOOLEAN]

TypeOK ==
  /\ conn \in Connections
  /\ wire \in Seq(Messages) /\ taken \in Seq(Messages)
  /\ pending \in Seq(Functors) /\ batch \in Seq(Functors) /\ todo \in Seq(Handlers)
  /\ phase \in {"poll", "events", "functors"}
  /\ cb \in {"none", "close", "destroy"}
  /\ removing \in Nat /\ ups \in Nat /\ downs \in Nat /\ destroys \in Nat /\ calls \in Nat
  /\ sent \subseteq Messages
  /\ call \in {NoCall} \cup [op : {"send"}, step : {2}, msg : Messages]
  /\ held \in BOOLEAN /\ inMap \in BOOLEAN /\ threaded \in BOOLEAN /\ server \in BOOLEAN
  /\ userRef \in BOOLEAN /\ delayed \in BOOLEAN /\ forced \in BOOLEAN

(* Some functor of this kind waits to be run. *)
Queued(op) == \E f \in Range(pending) \cup Range(batch) : f.op = op

(* At most one functor destroys the connection. *)
AtMostOnce(q, op) == \A i, j \in DOMAIN q : q[i].op = op /\ q[j].op = op => i = j
QueuedOnce(op) ==
  /\ AtMostOnce(pending, op) /\ AtMostOnce(batch, op)
  /\ ~(\E i \in DOMAIN pending, j \in DOMAIN batch : pending[i].op = op /\ batch[j].op = op)

(* Callbacks of one handleEvent() that may close the connection. *)
Closers == {"close", "read"}
OneCloser(s) == \A i, j \in DOMAIN s : s[i] \in Closers /\ s[j] \in Closers => i = j
ClosesFirst(s) == \A i, j \in DOMAIN s : s[i] \in Closers /\ s[j] = "write" => i < j

(* The loop handles events, then functors, then polls. *)
LoopInv ==
  /\ phase # "events" => todo = <<>>
  /\ phase # "functors" => batch = <<>>
  /\ phase = "poll" => cb = "none"
  /\ OneCloser(todo) /\ ClosesFirst(todo)

(* Before connectEstablished() nobody else knows of the connection. *)
ConnectingInv ==
  IF conn.state = "kConnecting"
  THEN /\ ups = 0 /\ ~userRef /\ ~forced /\ call = NoCall /\ removing = 0 /\ cb = "none"
       /\ conn.index = "kNew" /\ conn.events = {} /\ conn.reading
       /\ conn.output = <<>> /\ ~conn.writeShut
       /\ \/ todo = <<"establish">> /\ pending = <<>> /\ batch = <<>>
          \/ todo = <<>> /\ pending = <<Functor("connectEstablished")>> /\ batch = <<>>
          \/ todo = <<>> /\ pending = <<>> /\ batch = <<Functor("connectEstablished")>>
  ELSE ups = 1 /\ ~Queued("connectEstablished") /\ "establish" \notin Range(todo)

(* Until the connection goes down nothing has begun to remove it. *)
UpInv ==
  conn.state # "kDisconnected" =>
    /\ inMap /\ removing = 0 /\ cb = "none" /\ downs = 0 /\ destroys = 0
    /\ ~Queued("connectDestroyed")

(* The channel of an established connection mirrors reading_ and is with   *)
(* the poller while it is watched; a close that is on its way finds it so. *)
ChannelInv ==
  /\ CanClose => /\ conn.reading = isReading(conn.events)
                 /\ conn.index = IF conn.events = {} THEN "kDeleted" ELSE "kAdded"
  /\ Range(todo) \cap Closers # {} => CanClose /\ conn.index = "kAdded"
  /\ forced => \/ conn.state = "kDisconnected"
               \/ conn.state = "kDisconnecting" /\ isReading(conn.events)
  /\ delayed \/ Queued("forceClose") => forced

(* A connection that went down is on its way out, at one of five places:   *)
(* in the connection callback of handleClose(), in the server's queue, in  *)
(* the I/O loop's queue, in the callback of connectDestroyed(), or gone.   *)
DownInv ==
  conn.state = "kDisconnected" =>
    /\ downs = 1 /\ conn.events = {}
    /\ QueuedOnce("connectDestroyed")
    /\ \/ /\ cb = "close" /\ inMap /\ removing = 0
          /\ ~Queued("connectDestroyed") /\ destroys = 0 /\ conn.index # "kAdded"
       \/ /\ cb = "none" /\ inMap /\ removing = 1 /\ threaded
          /\ ~Queued("connectDestroyed") /\ destroys = 0 /\ conn.index # "kAdded"
       \/ /\ cb = "none" /\ ~inMap /\ removing = 0
          /\ Queued("connectDestroyed") /\ destroys = 0 /\ conn.index # "kAdded"
       \/ /\ cb = "destroy" /\ ~inMap /\ removing = 0
          /\ ~Queued("connectDestroyed") /\ destroys = 1
       \/ /\ cb = "none" /\ ~inMap /\ removing = 0
          /\ ~Queued("connectDestroyed") /\ destroys = 1 /\ conn.index = "kNew"

(* Whoever is bound to a raw this runs while the program holds the object. *)
RawInv == call # NoCall \/ Queued("send") => userRef

ConnInv == TypeOK /\ LoopInv /\ ConnectingInv /\ UpInv /\ ChannelInv /\ DownInv /\ RawInv

(* The assertions of connectEstablished(), handleClose(), Channel::remove, *)
(* removeConnectionInLoop() hold, and no functor runs on a connection that *)
(* has been destroyed.                                                     *)
AssertionsHold == failed = {}

(* The destructors' assertions: when the last TcpConnectionPtr goes, the   *)
(* state is kDisconnected and the channel has left the poller.             *)
DestroyedCleanly ==
  ~Referenced => conn.state = "kDisconnected" /\ conn.index = "kNew"

(* connectDestroyed() "should be called only once" (TcpConnection.h). *)
ConnectDestroyedOnce == destroys <= 1

(* The connection callback is made once with the connection up and once    *)
(* with it down, whichever of handleClose() and connectDestroyed() gets    *)
(* there first, and connectDestroyed() is called once: where forceClose()  *)
(* is called on the thread of the loop.                                    *)
UpThenDownOnce ==
  /\ downs <= ups
  /\ ~Referenced => downs = 1
  /\ ConnectDestroyedOnce

(* What reached the kernel, followed by the output buffer, is every        *)
(* message that sendInLoop() took, whole and in order.                     *)
InOrder(stream, messages) ==
  /\ Len(stream) = Len(messages) * Size
  /\ \A i \in DOMAIN messages, k \in 1..Size : stream[(i - 1) * Size + k] = messages[i]

SentInOrder == InOrder(wire \o conn.output, taken)

(* Output waits in the buffer exactly while the channel watches for        *)
(* writability, so no data is stranded and the loop does not spin.         *)
WatchedWhileBuffered ==
  conn.state \in {"kConnected", "kDisconnecting"} =>
    (conn.output # <<>> <=> isWriting(conn.events))

(* shutdown() waits for the output buffer and is not forgotten: the write  *)
(* side is shut down when, and not before, nothing is left to write.       *)
ShutdownOnceDrained ==
  /\ conn.writeShut => conn.output = <<>>
  /\ conn.state = "kDisconnecting" /\ conn.output = <<>> /\ ~forced
       => conn.writeShut

(* A connection that went down, and one for which forceClose() or          *)
(* forceCloseWithDelay() was called, is closed and leaves the poller and   *)
(* the server's map.                                                       *)
ClosedIsRemoved ==
  (forced \/ downs > 0)
    ~> (conn.state = "kDisconnected" /\ conn.index = "kNew" /\ ~inMap)

(* The assertions of the handlers hold whatever closes the connection, and *)
(* the last reference to it goes when its channel is off the poller        *)
(* (TcpConnection.cc:339).                                                 *)
ClosesCleanly == ConnInv /\ AssertionsHold /\ DestroyedCleanly

(* All data that is sent leaves in order, and what has to wait in the      *)
(* output buffer is watched for, so that it does not stay there            *)
(* (TcpConnection.cc:151, :191).                                           *)
OutputIsSent == SentInOrder /\ WatchedWhileBuffered
=============================================================================
