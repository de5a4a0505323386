----------------------------- MODULE MCServices -----------------------------
(***************************************************************************)
(* Instances of the servers of examples/ for TLC, in one state space: a    *)
(* behaviour is a behaviour of one of them, `which'.  The variables of the *)
(* RPC balancer and of the idle servers keep their first values when it is *)
(* another; x1, x2, ... are the variables of each of the others, and those *)
(* that it does not need stay 0.                                           *)
(***************************************************************************)
EXTENDS Integers, Sequences, RpcBalancer, Idle

CONSTANT None

VARIABLES which, x1, x2, x3, x4, x5, x6, x7, x8, x9, x10, x11, x12, x13, x14, x15, x16, x17, x18, x19,
          x20, x21, x22, x23

(* Boards of 2 x 2 boxes on which the solver has to go back, with and      *)
(* without a solution.                                                     *)
MCBoards == {<<0, 0, a, 0,  0, 0, 0, 2,  0, 4, 0, b,  c, 0, 0, 0>> : a, b, c \in 0 .. 4}

MCChannelOf == <<1, 1, 2>>

MCJumps == {-5, 3}

Talk == INSTANCE Hub WITH
       Clients <- {1, 2}, Topics <- {"t"}, MaxRequests <- 2, MaxTicks <- 1,
       state <- x1, requests <- x2, toServer <- x3, connSub <- x4, audiences <- x5,
       lastPub <- x6, toClient <- x7, received <- x8, log <- x9,
       Kinds <- {"single", "threaded", "efficient", "highperformance"}, Threads <- {1, 2},
       Conns <- {1, 2, 3}, Home <- <<1, 2, 2>>, None <- None, MaxMessages <- 2, MaxChanges <- 2,
       kind <- x1, up <- x2, heap <- x3, connections <- x4, locals <- x5, walk <- x6,
       functors <- x7, got <- x8, messages <- x9, changes <- x10

Cache == INSTANCE Memcached WITH
       Sessions <- {1, 2}, Keys <- {"k"}, TooLong <- "long", Pieces <- 2, MaxRequests <- 3,
       items <- x1, g_cas <- x2, sess <- x3, replies <- x4, due <- x5, seen <- x6,
       requests <- x7, stopping <- x8, shown <- x9, refused <- x10

Sudoku == INSTANCE SudokuServer WITH
       Kinds <- {"basic", "multiloop", "threadpool", "hybrid", "prod"}, Workers <- {1, 2},
       HighMark <- 1, MaxQueue <- 2, MaxRequests <- 3,
       kind <- x1, numThreads <- x2, asked <- x3, queue <- x4, working <- x5, functors <- x6,
       out <- x7, unsent <- x8, down <- x9, closed <- x10, throttle <- x11, mark <- x12,
       wcSet <- x13, total <- x14, responses <- x15, bad <- x16, dropped <- x17,
       kSeconds <- 3, Seconds <- {1, 2, 3, 4, 5, 7}, Latencies <- {-1, 0, 2}, MaxResponses <- 4,
       lastSecond <- x1, requests <- x2, latencies <- x3, totalResponses <- x4,
       totalLatency <- x5, badLatency <- x6, history <- x7

Solver == INSTANCE SudokuSolver WITH
       BoxSide <- 2, Boards <- MCBoards,
       given <- x1, inout <- x2, g <- x3, made <- x4, frames <- x5, saved <- x6, pc <- x7

Relay == INSTANCE Tunnel WITH
       Kinds <- {"tcprelay", "balancer", "socks4a"}, Mark <- 2, Request <- 1, MaxRequest <- 2,
       MaxBytes <- 3,
       kind <- x1, state <- x2, reading <- x3, wire <- x4, in <- x5, out <- x6, taken <- x7,
       eof <- x8, wc <- x9, functors <- x10, context <- x11, clientConn <- x12, inMap <- x13,
       sent <- x14, failed <- x15

Mux == INSTANCE Multiplexer WITH
       Kinds <- {"simple", "threaded"}, Clients <- {1, 2}, MaxConns <- 2, kMaxPacketLen <- 1,
       MaxBytes <- 2, MaxIds <- 2, MaxReply <- 1,
       kind <- x1, kMaxConns <- x2, state <- x3, ctx <- x4, availIds <- x5, clientConns <- x6,
       backendUp <- x7, toDemux <- x8, toMux <- x9, sent <- x10, got <- x11, told <- x12,
       orderly <- x13, links <- x14, serverUp <- x15, socksConns <- x16, received <- x17,
       replied <- x18, failed <- x19, linkOf <- x20, clean <- x21, served <- x22, closing <- x23

-----------------------------------------------------------------------------
apart == <<balancerVars, echoVars>>
more == <<x20, x21, x22, x23>>
vars == <<which, apart, x1, x2, x3, x4, x5, x6, x7, x8, x9, x10, x11, x12, x13, x14, x15, x16, x17, x18, x19, more>>

\* Of a choice that the others do not look at, one is enough.
Init ==
  /\ \/ which = "hub" /\ Talk!Init
          /\ x10 = 0 /\ x11 = 0 /\ x12 = 0 /\ x13 = 0 /\ x14 = 0 /\ x15 = 0 /\ x16 = 0
          /\ x17 = 0 /\ x18 = 0 /\ x19 = 0
     \/ which = "memcached" /\ Cache!Init
          /\ x11 = 0 /\ x12 = 0 /\ x13 = 0 /\ x14 = 0 /\ x15 = 0
          /\ x16 = 0 /\ x17 = 0 /\ x18 = 0 /\ x19 = 0
     \/ which = "sudoku" /\ Sudoku!Init
          /\ x18 = 0 /\ x19 = 0
     \/ which = "stat" /\ Sudoku!StatInit
          /\ x8 = 0 /\ x9 = 0 /\ x10 = 0 /\ x11 = 0 /\ x12 = 0 /\ x13 = 0 /\ x14 = 0
          /\ x15 = 0 /\ x16 = 0 /\ x17 = 0 /\ x18 = 0 /\ x19 = 0
     \/ which = "solver" /\ Solver!Init
          /\ x8 = 0 /\ x9 = 0 /\ x10 = 0 /\ x11 = 0 /\ x12 = 0 /\ x13 = 0 /\ x14 = 0
          /\ x15 = 0 /\ x16 = 0 /\ x17 = 0 /\ x18 = 0 /\ x19 = 0
     \/ which = "tunnel" /\ Relay!Init
          /\ x16 = 0 /\ x17 = 0 /\ x18 = 0 /\ x19 = 0
     \/ which = "chat" /\ Talk!ChatInit
          /\ x11 = 0 /\ x12 = 0 /\ x13 = 0 /\ x14 = 0 /\ x15 = 0 /\ x16 = 0 /\ x17 = 0
          /\ x18 = 0 /\ x19 = 0
     \/ which = "mux" /\ Mux!Init
     \/ which \in {"rpc", "idle"}
          /\ x1 = 0 /\ x2 = 0 /\ x3 = 0 /\ x4 = 0 /\ x5 = 0 /\ x6 = 0 /\ x7 = 0 /\ x8 = 0
          /\ x9 = 0 /\ x10 = 0 /\ x11 = 0 /\ x12 = 0 /\ x13 = 0 /\ x14 = 0 /\ x15 = 0
          /\ x16 = 0 /\ x17 = 0 /\ x18 = 0 /\ x19 = 0
  /\ which # "mux" => x20 = 0 /\ x21 = 0 /\ x22 = 0 /\ x23 = 0
  /\ BalancerInit /\ (which # "rpc" => balancer = CHOOSE k \in BalancerKinds : TRUE)
  /\ EchoInit /\ (which # "idle" => echo = CHOOSE k \in EchoKinds : TRUE)

Next ==
  \/ which = "hub" /\ Talk!Next /\ UNCHANGED <<which, apart, x10, x11, x12, x13, x14, x15, x16, x17, x18, x19, more>>
  \/ which = "memcached" /\ Cache!Next /\ UNCHANGED <<which, apart, x11, x12, x13, x14, x15, x16, x17, x18, x19, more>>
  \/ which = "sudoku" /\ Sudoku!Next /\ UNCHANGED <<which, apart, x18, x19, more>>
  \/ which = "stat" /\ Sudoku!StatNext /\ UNCHANGED <<which, apart, x8, x9, x10, x11, x12, x13, x14, x15, x16, x17, x18, x19, more>>
  \/ which = "solver" /\ Solver!Next /\ UNCHANGED <<which, apart, x8, x9, x10, x11, x12, x13, x14, x15, x16, x17, x18, x19, more>>
  \/ which = "tunnel" /\ Relay!Next /\ UNCHANGED <<which, apart, x16, x17, x18, x19, more>>
  \/ which = "chat" /\ Talk!ChatNext /\ UNCHANGED <<which, apart, x11, x12, x13, x14, x15, x16, x17, x18, x19, more>>
  \/ which = "mux" /\ Mux!Next /\ UNCHANGED <<which, apart>>
  \/ /\ \/ which = "rpc" /\ BalancerNext /\ UNCHANGED echoVars
        \/ which = "idle" /\ EchoNext /\ UNCHANGED balancerVars
     /\ UNCHANGED <<which, x1, x2, x3, x4, x5, x6, x7, x8, x9, x10, x11, x12, x13, x14, x15, x16, x17, x18, x19, more>>

Spec == Init /\ [][Next]_vars

-----------------------------------------------------------------------------
\* CallsAnsweredOnce and IdleExactly are those of the modules.

\* What is relayed arrives in order, whole and at its own peer, bytes that came before the
\* outgoing connection was up included, and a side that back pressure has paused is resumed
\* when the other has drained.  On a link that finds no client of an earlier one, ids that
\* name a session are in use once.  A null clientConn_ of a tunnel and the assertions of
\* the demultiplexer fail in the cases that the modules name, and in no other.
RelayedApart ==
  /\ which = "tunnel" => Relay!RelayedInOrder /\ Relay!PausedOnlyWhileBuffered /\ Relay!NullOnlyAfterTeardown
  /\ which = "mux" => Mux!IdsAreKeptApart /\ Mux!SessionsAreKeptApart /\ Mux!DemuxFailsOnlyThen

\* Two views of one thing agree: the two records of a subscription and what a subscriber
\* has seen, the list that one thread walks and another changes, the messages that the
\* members of a room see, and the item that a cas id names.
ViewsAgree ==
  /\ which = "hub" => Talk!SubscriptionsAgree /\ Talk!SubscriberIsCurrent
  /\ which = "chat" => Talk!WalkedListIsStable /\ Talk!EveryoneSeesTheSame
  /\ which = "memcached" => Cache!CasNamesVersion

\* memcached's sessions reply once to each request that asks for a reply, in order and
\* whatever pieces a value comes in; what a get is shown is its own items, after those of
\* gets that were refused for a key that is too long.  The sudoku servers answer every
\* request that they do not drop once, in order where the client has only the order to go
\* by.  The sliding window of the statistics holds the responses of its seconds however
\* the clock jumps, and the percentiles are by nearest rank.  Where the solver ends, it has
\* a solution if there is one, and its links are restored whenever it tries the next row.
RequestsAnsweredRight ==
  /\ which = "memcached" => Cache!AnsweredOnce
  /\ which = "sudoku" => Sudoku!AnsweredOnceInOrder
  /\ which = "stat" => Sudoku!WindowIsHistory /\ Sudoku!PercentileIsNearestRank
  /\ which = "solver" => Solver!LinksDanceBack /\ Solver!SolvesTheBoard
=============================================================================
