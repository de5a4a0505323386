------------------------------ MODULE Connector ------------------------------
(***************************************************************************)
(* muduo::net::Connector (muduo/net/Connector.cc) under its owner          *)
(* muduo::net::TcpClient (muduo/net/TcpClient.cc): non-blocking connects,  *)
(* retries with a growing delay, reconnection after a connection is lost,  *)
(* stop(), and the destruction of the client while any of it is going on.  *)
(*                                                                         *)
(* Everything happens on the loop's thread.  What makes it hard is the     *)
(* order of the loop's iteration: event handlers first, then the functors  *)
(* queued so far, and timers in some later iteration.                      *)
(***************************************************************************)
EXTENDS Integers, Sequences, FiniteSets, Functions

CONSTANTS kInitRetryDelayMs,   \* in units of some milliseconds
          kMaxRetryDelayMs,    \* at least kInitRetryDelayMs, which is positive
          MaxCalls,            \* bound: calls of stop, disconnect, forceClose
          DestructsEarly       \* whether the user may destruct the client before
                               \*   the functors of its connector have run

ASSUME DelayAssumption ==
  /\ kInitRetryDelayMs \in Nat /\ kMaxRetryDelayMs \in Nat
  /\ 0 < kInitRetryDelayMs /\ kInitRetryDelayMs <= kMaxRetryDelayMs
  /\ DestructsEarly \in BOOLEAN

VARIABLES
  k,         \* the Connector: connect_, state_, channel_, retryDelayMs_, and
             \*   the number of its retry timers that are pending, the last
             \*   of which is fresh until poll() has waited
  client,    \* the TcpClient: connect_, retry_, and whether it exists
  conn,      \* its TcpConnection: none, new in this iteration, or up
  sockets,   \* number of open descriptors
  pending,   \* the loop's queue
  batch,     \* functors of the batch still to run
  phase,     \* where the loop is in its iteration
  revents,   \* what poll() returned and is still to be handled: events of the
             \*   connector's channel, and whether its retry timer is due
  holder,    \* the timer with which ~TcpClient() keeps the connector
  begun,     \* history: connect() was called
  stopped,   \* history: stop() was called, or the client destructed
  gaveUp,    \* history: connect(2) failed in a way that is not retried
  calls,     \* number of calls made
  failed     \* assertions that failed, and uses of destructed objects

loopVars == <<pending, batch, phase, revents>>
historyVars == <<begun, stopped, calls>>
vars == <<k, client, conn, sockets, loopVars, holder, historyVars, gaveUp, failed>>

Init ==
  /\ k = [connect |-> FALSE, state |-> "kDisconnected", channel |-> "none",
          delay |-> kInitRetryDelayMs, timers |-> 0, fresh |-> FALSE]
  /\ client \in [connect : {TRUE}, retry : BOOLEAN, alive : {TRUE}]
  /\ conn = "none"
  /\ sockets = 0
  /\ pending = <<>> /\ batch = <<>> /\ phase = "events" /\ revents = {}
  /\ holder = FALSE
  /\ begun = FALSE /\ stopped = FALSE /\ gaveUp = FALSE
  /\ calls = 0
  /\ failed = {}

Failing(holds, what) == IF holds THEN {} ELSE {what}

(* Functors bound to a raw this of the connector. *)
RawFunctors == {"stopInLoop", "resetChannel"}
Functors == RawFunctors \cup {"forceClose", "connectDestroyed"}

(* A shared_ptr to the connector: the client's, the holder's, or the one   *)
(* in a retry timer.                                                       *)
ConnectorAlive == client.alive \/ holder \/ k.timers > 0

Queue(functor) == pending' = Append(pending, functor)
Queued == Range(pending) \cup Range(batch)

-----------------------------------------------------------------------------
(* The Connector.                                                          *)

(* retryDelayMs_ = std::min(retryDelayMs_ * 2, kMaxRetryDelayMs) *)
NextDelay_Unbounded(delay) == delay * 2
NextDelay(delay) ==
  IF delay * 2 < kMaxRetryDelayMs THEN delay * 2 ELSE kMaxRetryDelayMs

(* retry(), whose close of the descriptor its callers account for *)
RetriesWhen_BelowMax(c) == c.connect /\ c.delay < kMaxRetryDelayMs
RetriesWhen(c) == c.connect

Retried(c) ==
  IF RetriesWhen(c)
  THEN [c EXCEPT !.state = "kDisconnected", !.timers = @ + 1, !.fresh = TRUE,
                 !.delay = NextDelay(c.delay)]
  ELSE [c EXCEPT !.state = "kDisconnected"]

(* connect() of connector c: the connect is under way, failed for now, or  *)
(* failed for good.                                                        *)
connects(c, failures) ==
  \/ /\ k' = [c EXCEPT !.state = "kConnecting", !.channel = "watched"]
     /\ failed' = failures \cup Failing(c.channel = "none", "connecting")
     /\ sockets' = sockets + 1
     /\ UNCHANGED gaveUp
  \/ /\ k' = Retried(c)
     /\ failed' = failures
     /\ UNCHANGED <<sockets, gaveUp>>
  \/ /\ k' = c
     /\ failed' = failures
     /\ gaveUp' = TRUE
     /\ UNCHANGED sockets

(* startInLoop() of connector c *)
startInLoop(c) ==
  LET failures == failed \cup Failing(c.state = "kDisconnected", "startInLoop")
  IN  IF c.connect
      THEN connects(c, failures)
      ELSE k' = c /\ failed' = failures /\ UNCHANGED <<sockets, gaveUp>>

(* removeAndResetChannel(): the Channel object goes with a functor. *)
Unwatched(c) == [c EXCEPT !.channel = "removed"]

(* stopInLoop() *)
StopsWhen_Connected == k.state = "kConnected"
StopsWhen == k.state = "kConnecting"

stopInLoop ==
  IF StopsWhen
  THEN /\ k' = Retried(Unwatched([k EXCEPT !.state = "kDisconnected"]))
       /\ sockets' = sockets - 1
       /\ Queue("resetChannel")
  ELSE UNCHANGED <<k, sockets, pending>>

(* handleError() in kConnecting *)
handleError ==
  /\ k' = Retried(Unwatched(k))
  /\ sockets' = sockets - 1
  /\ Queue("resetChannel")
  /\ UNCHANGED <<conn, failed>>

(* if (connect_) newConnectionCallback_(sockfd); else close(sockfd) *)
Reports_Always == TRUE
Reports == k.connect

SocketsLeft_All == sockets
SocketsLeft == IF Reports THEN sockets ELSE sockets - 1

(* handleWrite(): SO_ERROR or a self-connect, or a connection, which       *)
(* newConnection() of the client takes over.                               *)
handleWrite ==
  IF k.state = "kConnecting"
  THEN /\ Queue("resetChannel")
       /\ \/ /\ k' = Retried(Unwatched(k))
             /\ sockets' = sockets - 1
             /\ UNCHANGED <<conn, failed>>
          \/ /\ k' = [Unwatched(k) EXCEPT !.state = "kConnected"]
             /\ conn' = IF Reports THEN "new" ELSE conn
             /\ sockets' = SocketsLeft
             /\ failed' = failed \cup
                  IF Reports THEN Failing(client.alive, "newConnection") ELSE {}
  ELSE /\ failed' = failed \cup Failing(k.state = "kDisconnected", "handleWrite")
       /\ UNCHANGED <<k, conn, sockets, pending>>

-----------------------------------------------------------------------------
(* The connection and TcpClient::removeConnection().                       *)

Reconnects == client.retry /\ client.connect

(* Connector::restart() *)
Restarted_Connected(c) == [c EXCEPT !.connect = TRUE, !.delay = kInitRetryDelayMs]
Restarted(c) == [c EXCEPT !.state = "kDisconnected", !.connect = TRUE,
                          !.delay = kInitRetryDelayMs]

(* closeCallback_: removeConnection() of the client, or of the namespace   *)
(* detail once the client is gone.                                         *)
connectionCloses ==
  /\ conn' = "none"
  /\ Queue("connectDestroyed")
  /\ IF client.alive /\ Reconnects
     THEN startInLoop(Restarted(k))
     ELSE UNCHANGED <<k, sockets, gaveUp, failed>>

-----------------------------------------------------------------------------
(* The loop.                                                               *)

(* With functors queued poll() returns at once, too early for a timer that *)
(* was set since the last one.                                             *)
poll ==
  LET fresh == k.fresh /\ pending # <<>>
  IN  /\ phase = "poll"
      /\ phase' = "events"
      /\ k' = [k EXCEPT !.fresh = fresh]
      /\ conn' = IF conn = "none" THEN conn ELSE "up"
      /\ revents' \in SUBSET ((IF k.channel = "watched" THEN {"out", "err"} ELSE {})
                         \cup (IF k.timers > 0 /\ ~fresh THEN {"timer"} ELSE {}))
      /\ UNCHANGED <<client, sockets, pending, batch, holder, historyVars, gaveUp,
                     failed>>

(* Channel::handleEvent(): the error callback, then the write callback,    *)
(* which finds kDisconnected if the former acted.                          *)
handleEvent ==
  /\ phase = "events" /\ revents \cap {"out", "err"} # {}
  /\ revents' = revents \ {"out", "err"}
  /\ IF "err" \in revents /\ k.state = "kConnecting" THEN handleError ELSE handleWrite
  /\ UNCHANGED <<client, batch, phase, holder, historyVars, gaveUp>>

(* The connection's own handler finds the end of the stream. *)
peerCloses ==
  /\ phase = "events" /\ conn = "up"
  /\ connectionCloses
  /\ UNCHANGED <<client, batch, phase, revents, holder, historyVars>>

(* The retry timer, set in an earlier iteration: no handler takes as long  *)
(* as kInitRetryDelayMs.                                                   *)
timerFires ==
  /\ phase = "events" /\ "timer" \in revents
  /\ revents' = revents \ {"timer"}
  /\ startInLoop([k EXCEPT !.timers = @ - 1])
  /\ UNCHANGED <<client, conn, pending, batch, phase, holder, historyVars>>

(* The timer of ~TcpClient().  Its second outlasts the functors that are   *)
(* queued.                                                                 *)
holderFires ==
  /\ phase = "events" /\ holder
  /\ RawFunctors \cap Queued = {}
  /\ holder' = FALSE
  /\ UNCHANGED <<k, client, conn, sockets, loopVars, historyVars, gaveUp, failed>>

doPendingFunctors ==
  /\ phase = "events" /\ revents = {}
  /\ phase' = "functors"
  /\ batch' = pending /\ pending' = <<>>
  /\ UNCHANGED <<k, client, conn, sockets, revents, holder, historyVars, gaveUp,
                 failed>>

runFunctor ==
  /\ phase = "functors" /\ batch # <<>>
  /\ batch' = Tail(batch)
  /\ \/ /\ Head(batch) = "stopInLoop"
        /\ stopInLoop
        /\ failed' = failed \cup Failing(ConnectorAlive, "stopInLoop")
        /\ UNCHANGED <<conn, gaveUp>>
     \/ /\ Head(batch) = "resetChannel"
        /\ k' = [k EXCEPT !.channel = "none"]
        /\ failed' = failed \cup
             Failing(ConnectorAlive /\ k.channel = "removed", "resetChannel")
        /\ UNCHANGED <<conn, sockets, pending, gaveUp>>
     \/ /\ Head(batch) = "forceClose" /\ conn # "none"
        /\ connectionCloses
     \/ /\ Head(batch) = "forceClose" /\ conn = "none"
        /\ UNCHANGED <<k, conn, sockets, pending, gaveUp, failed>>
     \/ /\ Head(batch) = "connectDestroyed"
        /\ sockets' = sockets - 1
        /\ UNCHANGED <<k, conn, pending, gaveUp, failed>>
  /\ UNCHANGED <<client, phase, revents, holder, historyVars>>

batchEnds ==
  /\ phase = "functors" /\ batch = <<>>
  /\ phase' = "poll"
  /\ UNCHANGED <<k, client, conn, sockets, pending, batch, revents, holder,
                 historyVars, gaveUp, failed>>

-----------------------------------------------------------------------------
(* User code on the loop's thread, in handlers and functors.               *)

UserHere == client.alive /\ phase # "poll"
CountCall == calls < MaxCalls /\ calls' = calls + 1

(* TcpClient::connect(), once; Connector::start() *)
connect ==
  /\ UserHere
  /\ ~begun /\ begun' = TRUE
  /\ client' = [client EXCEPT !.connect = TRUE]
  /\ startInLoop([k EXCEPT !.connect = TRUE])
  /\ UNCHANGED <<conn, loopVars, holder, stopped, calls>>

(* TcpClient::stop() and Connector::stop() *)
stop ==
  /\ UserHere /\ CountCall
  /\ client' = [client EXCEPT !.connect = FALSE]
  /\ k' = [k EXCEPT !.connect = FALSE]
  /\ Queue("stopInLoop")
  /\ stopped' = begun
  /\ UNCHANGED <<conn, sockets, batch, phase, revents, holder, begun, gaveUp,
                 failed>>

(* TcpClient::disconnect(); shutdown() of the connection is left to it. *)
disconnect ==
  /\ UserHere /\ CountCall
  /\ client' = [client EXCEPT !.connect = FALSE]
  /\ UNCHANGED <<k, conn, sockets, loopVars, holder, begun, stopped, gaveUp,
                 failed>>

(* TcpConnection::forceClose(); a second call would do nothing. *)
forceClose ==
  /\ phase # "poll" /\ CountCall
  /\ conn # "none" /\ "forceClose" \notin Queued
  /\ Queue("forceClose")
  /\ UNCHANGED <<k, client, conn, sockets, batch, phase, revents, holder, begun,
                 stopped, gaveUp, failed>>

(* runAfter(1, bind(removeConnector, connector_)) *)
HoldsConnector_Not == FALSE
HoldsConnector == TRUE

(* ~TcpClient().  A connection lives on, unless the client held the only   *)
(* pointer to it; its connector does not.                                  *)
destruct ==
  /\ UserHere
  /\ client' = [client EXCEPT !.alive = FALSE]
  /\ \/ /\ conn # "none"
        /\ DestructsEarly \/ RawFunctors \cap Queued = {}
        /\ \/ "forceClose" \notin Queued /\ Queue("forceClose")
           \/ UNCHANGED pending
        /\ UNCHANGED <<k, holder>>
     \/ /\ conn = "none"
        /\ k' = [k EXCEPT !.connect = FALSE]
        /\ Queue("stopInLoop")
        /\ holder' = HoldsConnector
  /\ stopped' = TRUE
  /\ UNCHANGED <<conn, sockets, batch, phase, revents, begun, calls, gaveUp,
                 failed>>

-----------------------------------------------------------------------------
Loop == poll \/ handleEvent \/ timerFires \/ doPendingFunctors \/ runFunctor \/ batchEnds
User == connect \/ stop \/ disconnect \/ forceClose \/ destruct
Next == Loop \/ peerCloses \/ holderFires \/ User

Spec == Init /\ [][Next]_vars

(* The loop goes round. *)
FairSpec == Spec /\ WF_vars(Loop)

-----------------------------------------------------------------------------
(* Properties                                                              *)

(* Besides the types: retryDelayMs_ stays between its two constants. *)
Connectors ==
  [connect : BOOLEAN, state : {"kDisconnected", "kConnecting", "kConnected"},
   channel : {"none", "watched", "removed"}, timers : 0..1, fresh : BOOLEAN,
   delay : kInitRetryDelayMs..kMaxRetryDelayMs]
Clients == [connect : BOOLEAN, retry : BOOLEAN, alive : BOOLEAN]
TypeOK ==
  /\ k \in Connectors /\ client \in Clients
  /\ conn \in {"none", "new", "up"}
  /\ phase \in {"poll", "events", "functors"}
  /\ pending \in Seq(Functors) /\ batch \in Seq(Functors)
  /\ revents \subseteq {"out", "err", "timer"}
  /\ holder \in BOOLEAN /\ begun \in BOOLEAN /\ stopped \in BOOLEAN /\ gaveUp \in BOOLEAN

(* The assertions of startInLoop(), connecting() and handleWrite() hold,   *)
(* and neither a destructed client nor a destructed connector is called.   *)
AssertionsHold == failed = {}

(* ~Connector() asserts that channel_ is gone. *)
ChannelGone == ~ConnectorAlive => k.channel = "none"

(* Besides, no functor that was bound to the connector's raw this is left  *)
(* behind to run after ~Connector().                                       *)
DestroyedCleanly == ChannelGone /\ (~ConnectorAlive => RawFunctors \cap Queued = {})

(* There is one attempt at a time: a retry timer, a connect under way or a *)
(* connection, but never two of them.  And an attempt that failed is not   *)
(* forgotten: a connector that is to connect and is not connected has one. *)
Attempts == k.timers + (IF k.channel = "watched" THEN 1 ELSE 0)
                     + (IF conn # "none" THEN 1 ELSE 0)
AttemptsExclude ==
  /\ Attempts <= 1
  /\ begun /\ k.connect /\ k.state # "kConnected" => Attempts = 1 \/ gaveUp

-----------------------------------------------------------------------------
(* Why that is so.  What state_ says of the attempt; the functors of the   *)
(* connector and of the connection are what the loop still owes them.      *)
StateInv ==
  /\ k.state = "kConnecting" <=> k.channel = "watched"
  /\ k.timers = 1 => k.state = "kDisconnected"
  /\ conn # "none" => k.state = "kConnected"
  /\ ~begun => k.state = "kDisconnected" /\ k.channel = "none" /\ k.timers = 0

(* Where the loop is: what poll() returned is handled before any functor   *)
(* runs, a channel it returned is watched until it is handled, and a timer *)
(* it returned is not one of this iteration.                               *)
LoopInv ==
  /\ phase # "functors" => batch = <<>>
  /\ revents # {} => phase = "events"
  /\ revents \cap {"out", "err"} # {} => k.channel = "watched" /\ "forceClose" \notin Queued
  /\ "timer" \in revents => k.timers = 1 /\ ~k.fresh
  /\ phase # "events" /\ "forceClose" \in Range(pending) =>
       conn # "none" /\ "forceClose" \notin Range(batch)

(* channel_ is reset by one functor, which is queued for as long as the    *)
(* channel is removed and not reset.  Nothing connects before it has run:  *)
(* a retry timer that is pending is fresh, and a connection that is to be  *)
(* closed is closed after it.                                              *)
Once(q) == \A i, j \in DOMAIN q : q[i] = "resetChannel" /\ q[j] = "resetChannel" => i = j
ResetFirst(q) == \A i, j \in DOMAIN q : q[i] = "forceClose" /\ q[j] = "resetChannel" => j < i
ResetInv ==
  /\ k.channel = "removed" <=> "resetChannel" \in Queued
  /\ Once(pending) /\ Once(batch)
  /\ "resetChannel" \in Range(pending) => "resetChannel" \notin Range(batch)
  /\ k.channel = "removed" /\ k.timers = 1 => k.fresh
  /\ conn = "up" => k.channel # "removed"
  /\ conn # "none" => /\ ResetFirst(pending) /\ ResetFirst(batch)
                      /\ "resetChannel" \in Range(pending) => phase = "events"

(* After stop() or ~TcpClient() nothing makes the connector connect.       *)
StopInv ==
  /\ ~client.alive => stopped
  /\ stopped => ~client.alive \/ (begun /\ ~client.connect)
  /\ stopped => ~k.connect \/ (~client.alive /\ k.state = "kConnected")
  /\ ~client.alive /\ k.channel = "watched" => "stopInLoop" \in Queued

(* A connector that only a retry timer keeps, or nothing, is at rest.      *)
RestInv == ~client.alive /\ ~holder => k.channel = "none" /\ RawFunctors \cap Queued = {}

(* What holds however early the client is destructed; then the connector's *)
(* own functors may find it destructed, but no assertion fails.            *)
AttemptInv ==
  /\ TypeOK /\ AttemptsExclude /\ StateInv /\ LoopInv /\ ResetInv /\ StopInv
  /\ failed \subseteq RawFunctors

-----------------------------------------------------------------------------
(* A connector makes one attempt at a time and forgets none, its           *)
(* assertions and those of its destructor hold, and no functor bound to it *)
(* is left behind (Connector.cc:39).                                       *)
OneAttempt == AttemptInv /\ AssertionsHold /\ DestroyedCleanly /\ RestInv

(* No descriptor is leaked, or closed twice, on any of the paths on which  *)
(* an attempt ends: each open one belongs to the connect under way, to the *)
(* connection, or to one about to be destroyed (Connector.cc:197).         *)
Destroys(q) == Cardinality({i \in DOMAIN q : q[i] = "connectDestroyed"})
SocketsAccounted ==
  sockets = (IF k.channel = "watched" THEN 1 ELSE 0) + (IF conn # "none" THEN 1 ELSE 0)
            + Destroys(pending) + Destroys(batch)

(* After stop() no attempt is begun and no connection reported, whatever   *)
(* retry timer fires (Connector.cc:230).                                   *)
StopIsFinal ==
  [][stopped => /\ k'.channel = "watched" => k.channel = "watched"
                /\ conn' = "new" => conn = "new"]_vars

(* A connect is under way though stop() was called; stop() is to end it. *)
AttemptToStop == stopped /\ k.channel = "watched"
=============================================================================
