------------------------------ MODULE Dispatch ------------------------------
(***************************************************************************)
(* Several connections of one TcpServer on one EventLoop: the list         *)
(* activeChannels_ that EventLoop::loop() walks (muduo/net/EventLoop.cc),  *)
(* and what the handlers it calls do to connections that are still in it   *)
(* (TcpConnection.cc, TcpServer.cc).  Threads, data and the poller are     *)
(* left to the other modules; here a connection is up, closing or down.    *)
(* The poller returns the channels in any order, so the list is a set.     *)
(***************************************************************************)
EXTENDS Naturals, Sequences

CONSTANTS Conns,        \* the connections
          MaxQueued     \* bounds the queue of functors

VARIABLES state,            \* state_ of each connection
          watched,          \* the channels that watch events
          registered,       \* the channels the poller knows
          connections,      \* TcpServer::connections_
          held,             \* the TcpConnectionPtrs the program keeps
          activeChannels,   \* activeChannels_
          unhandled,        \* those the walk has not come to
          current,          \* {currentActiveChannel_} while its handleEvent() runs
          pending,          \* pendingFunctors_
          batch,            \* the functors doPendingFunctors() has yet to run
          phase,            \* where loop() is
          failed            \* an assertion failed, or a destroyed object was used

queues == <<pending, batch>>
walk == <<activeChannels, unhandled, current>>
vars == <<state, watched, registered, connections, held, walk, queues, phase, failed>>

(* The two functors bind a TcpConnectionPtr. *)
Functors == [run : {"forceCloseInLoop", "connectDestroyed"}, conn : Conns]
BoundBy(queue) == {queue[i].conn : i \in DOMAIN queue}

(* Who keeps a connection alive: the server's map, the program, a queued   *)
(* functor, and, while its handler runs, the guard that handleEvent()      *)
(* locked from tie_.                                                       *)
Alive == connections \cup held \cup current \cup BoundBy(pending) \cup BoundBy(batch)

IsOpen(c) == state[c] \in {"kConnected", "kDisconnecting"}

Init ==
  /\ state = [c \in Conns |-> "kConnected"]
  /\ watched = Conns /\ registered = Conns /\ connections = Conns
  /\ held \in SUBSET Conns
  /\ activeChannels = {} /\ unhandled = {} /\ current = {}
  /\ pending = <<>> /\ batch = <<>>
  /\ phase = "poll" /\ failed = FALSE

(* poll() returns any of the watched channels; none when only the wakeup   *)
(* descriptor was readable.                                                *)
poll ==
  /\ phase = "poll"
  /\ activeChannels' \in SUBSET (watched \cap registered)
  /\ unhandled' = activeChannels'
  /\ phase' = "dispatch"
  /\ UNCHANGED <<state, watched, registered, connections, held, current, queues, failed>>

(* handleEvent(): a tied channel locks its connection, or does nothing;    *)
(* but the channel is itself a part of the connection.                     *)
handleEvent(c) ==
  /\ phase = "dispatch" /\ current = {} /\ c \in unhandled
  /\ unhandled' = unhandled \ {c}
  /\ current' = {c}
  /\ failed' = (failed \/ c \notin Alive)
  /\ UNCHANGED <<state, watched, registered, connections, held, activeChannels, queues, phase>>

(* removeConnectionInLoop(): the destruction of the channel is queued.     *)
Removal_None(c) == <<>>
Removal(c) == <<[run |-> "connectDestroyed", conn |-> c]>>

(* handleClose(), through closeCallback_ to removeConnectionInLoop(), with *)
(* the assertions of both.                                                 *)
handleClose(c) ==
  /\ failed' = (failed \/ ~IsOpen(c) \/ c \notin connections)
  /\ state' = [state EXCEPT ![c] = "kDisconnected"]
  /\ watched' = watched \ {c}
  /\ connections' = connections \ {c}
  /\ pending' = pending \o Removal(c)

(* The channel has an end-of-file or a hang-up: its handler closes it.     *)
handlerCloses(c) ==
  /\ current = {c}
  /\ Len(pending) < MaxQueued
  /\ handleClose(c)
  /\ current' = {}
  /\ UNCHANGED <<registered, held, activeChannels, unhandled, batch, phase>>

handlerReturns ==
  /\ current # {}
  /\ current' = {}
  /\ UNCHANGED <<state, watched, registered, connections, held, activeChannels, unhandled,
                 queues, phase, failed>>

(* forceClose() always leaves the closing to a functor, though it may be   *)
(* called on the loop's thread.                                            *)
QueuesClose_NotInLoop == FALSE
QueuesClose == TRUE

(* A callback, or a functor of the program's own, closes any connection it *)
(* can reach: the current one, or one the program keeps a pointer to.      *)
forceClose(c) ==
  /\ current # {} \/ phase = "functors"
  /\ c \in held \cup current
  /\ Len(pending) < MaxQueued
  /\ IsOpen(c)
  /\ IF QueuesClose
     THEN /\ state' = [state EXCEPT ![c] = "kDisconnecting"]
          /\ pending' = Append(pending, [run |-> "forceCloseInLoop", conn |-> c])
          /\ UNCHANGED <<watched, connections, failed>>
     ELSE handleClose(c)
  /\ UNCHANGED <<registered, held, walk, batch, phase>>

(* A callback keeps its connection's TcpConnectionPtr, or drops one.       *)
keepPointer(c) ==
  /\ current # {}
  /\ held' = IF c \in held THEN held \ {c} ELSE held \cup ({c} \cap current)
  /\ UNCHANGED <<state, watched, registered, connections, walk, queues, phase, failed>>

(* The walk is over: doPendingFunctors() takes the queue. *)
doPendingFunctors ==
  /\ phase = "dispatch" /\ unhandled = {} /\ current = {}
  /\ batch' = pending /\ pending' = <<>>
  /\ phase' = "functors"
  /\ UNCHANGED <<state, watched, registered, connections, held, walk, failed>>

(* EventLoop::removeChannel() asserts, during the walk, that the channel   *)
(* is the current one or not an active one; Channel::remove() that it      *)
(* watches nothing; the poller that it knows it.                           *)
RemoveAsserts(c, stillWatched) ==
  /\ phase = "dispatch" => c \notin activeChannels \ current
  /\ c \notin stillWatched
  /\ c \in registered

connectDestroyed(c) ==
  LET up == state[c] = "kConnected"
      stillWatched == IF up THEN watched \ {c} ELSE watched
  IN
  /\ failed' = (failed \/ ~RemoveAsserts(c, stillWatched))
  /\ state' = IF up THEN [state EXCEPT ![c] = "kDisconnected"] ELSE state
  /\ watched' = stillWatched
  /\ registered' = registered \ {c}
  /\ UNCHANGED <<connections, pending>>

(* forceCloseInLoop() looks at the state once more. *)
StillOpen_Assumed(c) == TRUE
StillOpen(c) == IsOpen(c)

forceCloseInLoop(c) ==
  /\ \/ StillOpen(c) /\ handleClose(c)
     \/ ~StillOpen(c) /\ UNCHANGED <<state, watched, connections, pending, failed>>
  /\ UNCHANGED registered

runFunctor ==
  /\ phase = "functors" /\ batch # <<>>
  /\ \/ Head(batch).run = "forceCloseInLoop" /\ forceCloseInLoop(Head(batch).conn)
     \/ Head(batch).run = "connectDestroyed" /\ connectDestroyed(Head(batch).conn)
  /\ batch' = Tail(batch)
  /\ UNCHANGED <<held, walk, phase>>

(* The next iteration clears activeChannels_. *)
donePendingFunctors ==
  /\ phase = "functors" /\ batch = <<>>
  /\ phase' = "poll"
  /\ activeChannels' = {}
  /\ UNCHANGED <<state, watched, registered, connections, held, unhandled, current, queues, failed>>

Next ==
  \/ poll \/ handlerReturns \/ doPendingFunctors \/ runFunctor \/ donePendingFunctors
  \/ \E c \in Conns : handleEvent(c) \/ handlerCloses(c) \/ forceClose(c) \/ keepPointer(c)

Spec == Init /\ [][Next]_vars

-----------------------------------------------------------------------------
\* No handler runs for a destroyed connection, no assertion of handleClose(),
\* removeConnectionInLoop(), removeChannel() or Channel::remove() fails, and a connection that
\* nobody keeps any more is off the poller: whatever the handlers of one iteration do to the
\* connections that come later in activeChannels_ (EventLoop.cc:290).
ActiveChannelsAreAlive == ~failed /\ registered \subseteq Alive

TypeOK ==
  /\ state \in [Conns -> {"kConnected", "kDisconnecting", "kDisconnected"}]
  /\ watched \subseteq Conns /\ registered \subseteq Conns /\ connections \subseteq Conns
  /\ held \subseteq Conns /\ activeChannels \subseteq Conns
  /\ unhandled \subseteq Conns /\ current \subseteq Conns
  /\ pending \in Seq(Functors) /\ batch \in Seq(Functors)
  /\ phase \in {"poll", "dispatch", "functors"}

(* The connections a queue destroys, and that it destroys none twice.      *)
Destroying(queue) == {queue[i].conn : i \in {j \in DOMAIN queue : queue[j].run = "connectDestroyed"}}
DestroysOnce(queue) ==
  \A i, j \in DOMAIN queue :
    /\ queue[i].run = "connectDestroyed" /\ queue[j].run = "connectDestroyed"
    /\ queue[i].conn = queue[j].conn
    => i = j

(* The inductive invariant: the map, the interest in events and the state  *)
(* of a connection agree; a connection that was closed stays with the      *)
(* poller until its one connectDestroyed(); and what the walk has still to *)
(* come to is open.                                                        *)
WalkInv ==
  /\ TypeOK
  /\ ~failed
  /\ connections = {c \in Conns : IsOpen(c)} /\ watched = connections
  /\ connections \subseteq registered
  /\ registered \ connections = Destroying(pending) \cup Destroying(batch)
  /\ Destroying(pending) \cap Destroying(batch) = {}
  /\ DestroysOnce(pending) /\ DestroysOnce(batch)
  /\ unhandled \cup current \subseteq connections /\ unhandled \cap current = {}
  /\ phase # "dispatch" => unhandled = {} /\ current = {}
  /\ phase # "functors" => batch = <<>>
=============================================================================
