------------------------------ MODULE TcpServer -----------------------------
(***************************************************************************)
(* muduo/net: TcpServer with its Acceptor and EventLoopThreadPool, over    *)
(* the loops' functor queues and the process's table of descriptors.  Loop *)
(* 0 is the base loop, that accepts; the others are I/O loops.  A          *)
(* connection is its number and goes through connecting, connected,        *)
(* disconnected, destroyed; what it does while connected is module         *)
(* TcpConnection's.                                                        *)
(***************************************************************************)
EXTENDS Naturals, Sequences, FiniteSets

CONSTANTS
  ThreadNums,    \* values of numThreads_
  MaxFds,        \* descriptors there are for connections and the idle one
  MaxConns,      \* bound: peers that connect
  MaxOpens       \* bound: descriptors taken by other threads

\* There is a descriptor for idleFd_, or the constructor of Acceptor aborts.
ASSUME ServerAssumption ==
  ThreadNums \subseteq Nat /\ MaxFds \in Nat \ {0} /\ MaxConns \in Nat /\ MaxOpens \in Nat

VARIABLES
  numThreads,
  started,       \* calls of start() so far, 0 .. 2
  listening,     \* listenning_
  backlog,       \* peers the kernel has a connection for, not accepted
  arrived,       \* peers that have connected
  refused,       \* peers accepted and closed for want of a descriptor
  free,          \* free descriptors
  idle,          \* whether idleFd_ is open
  opens,         \* descriptors other threads took
  stolen,        \* one of them while handleRead() had idleFd_ closed
  accept,        \* where handleRead() is: poll, closed (idleFd_), taken (a peer), failed, reopen
  nextLoop,      \* next_
  conns,         \* nextConnId_ - 1
  connections,   \* connections_
  state,         \* connection -> its state
  loopOf,        \* connection -> its loop
  pending,       \* loop -> pendingFunctors_
  absent         \* removeConnectionInLoop() found nothing to erase

serverVars == <<numThreads, started, listening, backlog, arrived, refused, free, idle, opens, stolen, accept,
                nextLoop, conns, connections, state, loopOf, pending, absent>>

Conns == 1 .. MaxConns
Base == 0
Loops == 0 .. numThreads
fdVars == <<backlog, arrived, refused, free, idle, opens, stolen>>
connVars == <<nextLoop, conns, connections, state, loopOf, pending, absent>>

ServerInit ==
  /\ numThreads \in ThreadNums
  /\ started = 0 /\ listening = FALSE
  /\ backlog = 0 /\ arrived = 0 /\ refused = 0 /\ free = MaxFds - 1 /\ idle = TRUE /\ opens = 0 /\ stolen = FALSE
  /\ accept = "poll" /\ nextLoop = 0 /\ conns = 0 /\ connections = {}
  /\ state = [c \in Conns |-> "none"] /\ loopOf = [c \in Conns |-> Base]
  /\ pending = [l \in Loops |-> <<>>] /\ absent = FALSE

-----------------------------------------------------------------------------
\* runInLoop() by a thread that is in loop `from`, of a functor for loop l: at once in
\* its own loop.  Later(q, ...) is queueInLoop().
Later(q, l, what, c) == [q EXCEPT ![l] = Append(@, [what |-> what, conn |-> c])]

\* start(): only the first call starts the threads and listens.
start ==
  /\ started < 2
  /\ started' = started + 1
  /\ listening' = IF started = 0 THEN TRUE ELSE listening
  /\ UNCHANGED <<numThreads, fdVars, accept, connVars>>

\* EventLoopThreadPool::getNextLoop().
Wrap_Late(n) == IF n > numThreads THEN 0 ELSE n
Wrap(n) == IF n >= numThreads THEN 0 ELSE n
getNextLoop == IF numThreads = 0 THEN Base ELSE nextLoop + 1

\* newConnection().
newConnection ==
  LET c == conns + 1
      l == getNextLoop
  IN  /\ conns' = c /\ connections' = connections \cup {c}
      /\ loopOf' = [loopOf EXCEPT ![c] = l]
      /\ nextLoop' = IF numThreads = 0 THEN nextLoop ELSE Wrap(nextLoop + 1)
      /\ state' = [state EXCEPT ![c] = IF l = Base THEN "connected" ELSE "connecting"]
      /\ pending' = IF l = Base THEN pending ELSE Later(pending, l, "connectEstablished", c)
      /\ UNCHANGED absent

\* Acceptor::handleRead(): one peer for one readiness of the socket.
handleRead ==
  /\ listening /\ accept = "poll" /\ backlog > 0 /\ free > 0
  /\ backlog' = backlog - 1 /\ free' = free - 1
  /\ newConnection
  /\ UNCHANGED <<numThreads, started, listening, arrived, refused, idle, opens, stolen, accept>>

\* handleRead() when accept() fails with EMFILE: it closes idleFd_, accepts, closes
\* and opens idleFd_ again, while other threads go on.
Trick_Not == FALSE
Trick == TRUE
closeIdle ==
  /\ listening /\ accept = "poll" /\ backlog > 0 /\ free = 0
  /\ IF Trick THEN /\ free' = IF idle THEN 1 ELSE 0
                   /\ idle' = FALSE /\ accept' = "closed"
              ELSE UNCHANGED <<free, idle, accept>>
  /\ UNCHANGED <<numThreads, started, listening, backlog, arrived, refused, opens, stolen, connVars>>

acceptIdle ==
  /\ accept = "closed"
  /\ IF free > 0 THEN backlog' = backlog - 1 /\ free' = free - 1 /\ accept' = "taken"
                 ELSE UNCHANGED <<backlog, free>> /\ accept' = "failed"
  /\ UNCHANGED <<numThreads, started, listening, arrived, refused, idle, opens, stolen, connVars>>

Closed_Leaks == free
Closed == IF accept = "taken" THEN free + 1 ELSE free
closeTaken ==
  /\ accept \in {"taken", "failed"}
  /\ free' = Closed
  /\ refused' = IF accept = "taken" THEN refused + 1 ELSE refused
  /\ accept' = "reopen"
  /\ UNCHANGED <<numThreads, started, listening, backlog, arrived, idle, opens, stolen, connVars>>

reopenIdle ==
  /\ accept = "reopen"
  /\ idle' = (free > 0)
  /\ free' = IF free > 0 THEN free - 1 ELSE 0
  /\ accept' = "poll"
  /\ UNCHANGED <<numThreads, started, listening, backlog, arrived, refused, opens, stolen, connVars>>

-----------------------------------------------------------------------------
\* The functors of a loop, one at a time and in order.  The base loop runs none in
\* the middle of handleRead().
Destroy(c) == /\ state' = [state EXCEPT ![c] = "destroyed"]
              /\ free' = free + 1

\* removeConnectionInLoop(): connectDestroyed() is queued, never run at once.
removeConnectionInLoop(q, c) ==
  /\ absent' = (absent \/ c \notin connections)
  /\ connections' = connections \ {c}
  /\ pending' = Later(q, loopOf[c], "connectDestroyed", c)

runFunctor(l) ==
  /\ pending[l] # <<>> /\ (l = Base => accept = "poll")
  /\ LET f == Head(pending[l])
         q == [pending EXCEPT ![l] = Tail(@)]
     IN  \/ /\ f.what = "connectEstablished"
            /\ state' = [state EXCEPT ![f.conn] = "connected"] /\ pending' = q
            /\ UNCHANGED <<free, connections, absent>>
         \/ /\ f.what = "connectDestroyed"
            /\ Destroy(f.conn) /\ pending' = q
            /\ UNCHANGED <<connections, absent>>
         \/ /\ f.what = "removeConnection"
            /\ removeConnectionInLoop(q, f.conn)
            /\ UNCHANGED <<free, state>>
  /\ UNCHANGED <<numThreads, started, listening, backlog, arrived, refused, idle, opens, stolen, accept,
                 nextLoop, conns, loopOf>>

\* TcpConnection::handleClose() in the connection's loop calls removeConnection().
handleClose(c) ==
  /\ state[c] = "connected" /\ (loopOf[c] = Base => accept = "poll")
  /\ state' = [state EXCEPT ![c] = "disconnected"]
  /\ IF loopOf[c] = Base
     THEN removeConnectionInLoop(pending, c)
     ELSE /\ pending' = Later(pending, Base, "removeConnection", c)
          /\ UNCHANGED <<connections, absent>>
  /\ UNCHANGED <<numThreads, started, listening, fdVars, accept, nextLoop, conns, loopOf>>

\* Outside: a peer connects; another thread takes a descriptor.
connect ==
  /\ listening /\ arrived < MaxConns
  /\ arrived' = arrived + 1 /\ backlog' = backlog + 1
  /\ UNCHANGED <<numThreads, started, listening, refused, free, idle, opens, stolen, accept, connVars>>

open ==
  /\ free > 0 /\ opens < MaxOpens
  /\ free' = free - 1 /\ opens' = opens + 1
  /\ stolen' = (stolen \/ accept # "poll")
  /\ UNCHANGED <<numThreads, started, listening, backlog, arrived, refused, idle, accept, connVars>>

baseLoop == handleRead \/ closeIdle \/ acceptIdle \/ closeTaken \/ reopenIdle

ServerNext ==
  \/ start \/ baseLoop \/ connect \/ open
  \/ \E l \in Loops : runFunctor(l)
  \/ \E c \in Conns : handleClose(c)

\* The loops go on; peers need not close.  A turn of the base loop ends with its
\* functors however often the socket is ready, which is strong fairness.
ServerSpec ==
  /\ ServerInit /\ [][ServerNext]_serverVars
  /\ WF_serverVars(baseLoop) /\ SF_serverVars(runFunctor(Base))
  /\ \A l \in ThreadNums \ {Base} : WF_serverVars(l \in Loops /\ runFunctor(l))

-----------------------------------------------------------------------------
\* Every descriptor is free, the idle one, a connection's or another thread's, so
\* none leaks through refusals and closes; and a connection that is removed is found
\* in the map (TcpServer.cc:123).
Live == {c \in Conns : state[c] \notin {"none", "destroyed"}}
FdsAddUp ==
  /\ ~absent
  /\ free + opens + (IF idle THEN 1 ELSE 0) + (IF accept = "taken" THEN 1 ELSE 0)
       + Cardinality(Live) = MaxFds
  /\ \A c \in Conns : state[c] \in {"connecting", "connected"} => c \in connections
  /\ arrived = backlog + conns + refused + (IF accept = "taken" THEN 1 ELSE 0)

\* Connections are dealt to the I/O loops in turn: no loop has been given two more
\* than another, and the base loop none when there are I/O loops.
Dealt(l) == {c \in 1 .. conns : loopOf[c] = l}
DealtEvenly ==
  numThreads > 0 =>
    /\ \A c \in 1 .. conns : loopOf[c] \in 1 .. numThreads
    /\ \A l, m \in 1 .. numThreads : Cardinality(Dealt(l)) <= Cardinality(Dealt(m)) + 1

\* What makes them inductive: the types, with where handleRead() may be; ...
AcceptInv ==
  /\ numThreads \in ThreadNums /\ nextLoop \in Nat /\ (nextLoop = 0 \/ nextLoop < numThreads)
  /\ {backlog, arrived, refused, free, opens, conns} \subseteq Nat /\ arrived <= MaxConns
  /\ idle \in BOOLEAN /\ accept \in {"poll", "closed", "taken", "failed", "reopen"}
  /\ accept # "poll" => ~idle
  /\ accept = "closed" => backlog > 0

\* ... that a connection has at most one functor, bound to it in the state in which the
\* functor is to find it; ...
Functors == [what : {"connectEstablished", "removeConnection", "connectDestroyed"}, conn : Conns]
Expected(f, st, known) ==
  CASE f.what = "connectEstablished" -> st[f.conn] = "connecting"
    [] f.what = "removeConnection" -> st[f.conn] = "disconnected" /\ f.conn \in known
    [] f.what = "connectDestroyed" -> st[f.conn] = "disconnected"
OneEach(q) ==
  \A l, m \in Loops : \A i \in 1 .. Len(q[l]), j \in 1 .. Len(q[m]) :
    q[l][i].conn = q[m][j].conn => l = m /\ i = j
QueueInv ==
  /\ state \in [Conns -> {"none", "connecting", "connected", "disconnected", "destroyed"}]
  /\ \A c \in Conns : state[c] = "none" <=> c > conns
  /\ loopOf \in [Conns -> Loops] /\ pending \in [Loops -> Seq(Functors)]
  /\ \A l \in Loops : \A i \in 1 .. Len(pending[l]) : Expected(pending[l][i], state, connections)
  /\ OneEach(pending)

\* ... and that the loops up to next_ are one ahead of the last.
DealInv ==
  numThreads > 0 =>
    /\ \A c \in 1 .. conns : loopOf[c] \in 1 .. numThreads
    /\ \A l \in 1 .. numThreads :
         Cardinality(Dealt(l)) = Cardinality(Dealt(numThreads)) + (IF l <= nextLoop THEN 1 ELSE 0)

\* No descriptor leaks through refusals and closes, connections are dealt to the I/O loops
\* in turn, and one that is removed is in the map (Acceptor.cc:90, TcpServer.cc:123).
DescriptorsAddUp == FdsAddUp /\ DealtEvenly /\ AcceptInv /\ QueueInv /\ DealInv

\* Peers wait to be accepted; and do not, each being accepted or refused, unless another
\* thread took a descriptor while handleRead() had idleFd_ closed (Acceptor.cc:90-93).
PeersWait == backlog > 0
PeersServed == backlog = 0 \/ stolen
=============================================================================
