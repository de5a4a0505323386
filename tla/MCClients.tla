----------------------------- MODULE MCClients ------------------------------
(***************************************************************************)
(* Instances for TLC of the connector and its client, and of the programs  *)
(* that make connections, take a stream or serve one until it ends, in one *)
(* state space: a behaviour is a behaviour of one of them, `which'.  x1,   *)
(* x2, ... are the variables of a program; those that it does not need     *)
(* stay 0, and the connector is then left alone.                           *)
(***************************************************************************)
EXTENDS Connector

VARIABLES which, x1, x2, x3, x4, x5, x6, x7, x8, x9, x10, x11, x12, x13, x14, x15, x16, x17

MCServerKinds == {"download", "download2", "download3", "chargen", "daytime", "time", "echo", "discard",
                  "netty_echo", "netty_echo2", "netty_discard"}

Load == INSTANCE LoadClients WITH
       ClientKinds <- {"loadtest", "pipeline", "batch", "memcache", "rpcbench", "pingpong", "chat"},
       Clients <- {1, 2}, Requests <- 3, pipelines <- 2, Insoluble <- {1, 2}, MaxShort <- 1,
       rps <- 3, kHz <- 2, MaxCount <- 5, MaxTicks <- 3, MaxFaults <- 1,
       kind <- x1, conn <- x2, count <- x3, acked <- x4, wire <- x5, sendTime <- x6,
       connected <- x7, finished <- x8, main <- x9, last <- x10, ticks <- x11, sofar <- x12,
       reports <- x13, crashed <- x14, early <- x15, faults <- x16, unread <- x17

Words == INSTANCE WordCount WITH
       Hashers <- {1, 2}, Receivers <- {1, 2},
       Hash <- [w \in {"a", "b", "c"} |-> IF w = "b" THEN 2 ELSE 1],
       Inputs <- {<<<<"a", "c", "a">>, <<>>>>}, BatchSizes <- {1, 2}, kMaxHashSize <- 1,
       Mark <- 1,
       g_batchSize <- x1, given <- x2, input <- x3, main <- x4, bucket <- x5, wordcounts <- x6,
       buffer <- x7, congestion <- x8, conn <- x9, queue <- x10, output <- x11, wire <- x12,
       lost <- x13, senders_ <- x14, counts <- x15, shard <- x16

Simple == INSTANCE SimpleServers WITH
       ServerKinds <- MCServerKinds, FileSizes <- {0, 1, 2, 5}, kBufSize <- 2, kMessage <- 2,
       MaxIn <- 3, MaxOut <- 5, MaxReports <- 2,
       kind <- x1, exists <- x2, size <- x3, conn <- x4, sock <- x5, phase <- x6, batch <- x7,
       pos <- x8, fp <- x9, misused <- x10, late <- x11, arrived <- x12, transferred <- x13,
       oldCounter <- x14, reported <- x15, reports <- x16,
       Numbers <- {0, 1, 3}, Lengths <- {0, 1, 2},
       opt <- x1, tx <- x2, rx <- x3, there <- x4, back <- x5, rxBuf <- x6, txBuf <- x7

Library == INSTANCE Adapters WITH
       kConcurrent <- 2, kPieceMin <- 1, FileLengths <- {0, 1, 3, 5}, status200 <- x15,
       length <- x1, ranges <- x2, handle <- x3, channel <- x4, msgs <- x5, timers <- x6,
       runningHandles <- x7, prevRunningHandles <- x8, want <- x9, out <- x10, concurrent <- x11,
       done <- x12, failed <- x13, quit <- x14,
       Names <- {"a", "b", "c"}, Local <- {"c"}, MaxTries <- 2, NoName <- "none",
       todo <- x1, tries <- x2, sockets <- x3, channels <- x4, timerActive <- x5, timer <- x6,
       called <- x7, count <- x8, running <- x9, destroyedInUse <- x10

-----------------------------------------------------------------------------
X == <<x1, x2, x3, x4, x5, x6, x7, x8, x9, x10, x11, x12, x13, x14, x15, x16, x17>>
allVars == <<which, X, vars>>

MCInit ==
  /\ Init
  /\ \/ which = "connector"
        /\ x1 = 0 /\ x2 = 0 /\ x3 = 0 /\ x4 = 0 /\ x5 = 0 /\ x6 = 0 /\ x7 = 0
        /\ x8 = 0 /\ x9 = 0 /\ x10 = 0 /\ x11 = 0 /\ x12 = 0 /\ x13 = 0 /\ x14 = 0 /\ x15 = 0 /\ x16 = 0 /\ x17 = 0
     \/ which = "load" /\ Load!Init
     \/ which = "wordcount" /\ Words!Init /\ x17 = 0
     \/ which = "simple" /\ Simple!Init /\ x17 = 0
     \/ which = "ttcp" /\ Simple!TtcpInit
        /\ x8 = 0 /\ x9 = 0 /\ x10 = 0 /\ x11 = 0 /\ x12 = 0 /\ x13 = 0 /\ x14 = 0 /\ x15 = 0 /\ x16 = 0 /\ x17 = 0
     \/ which = "curl" /\ Library!CurlInit
        /\ x16 = 0 /\ x17 = 0
     \/ which = "resolver" /\ Library!ResolverInit
        /\ x11 = 0 /\ x12 = 0 /\ x13 = 0 /\ x14 = 0 /\ x15 = 0 /\ x16 = 0 /\ x17 = 0
  /\ which # "connector" => ~client.retry

MCNext ==
  \/ which = "connector" /\ Next /\ UNCHANGED <<which, X>>
  \/ which = "load" /\ Load!Next /\ UNCHANGED <<which, vars>>
  \/ which = "wordcount" /\ Words!Next /\ UNCHANGED <<which, vars, x17>>
  \/ which = "simple" /\ Simple!Next /\ UNCHANGED <<which, vars, x17>>
  \/ which = "ttcp" /\ Simple!TtcpNext
     /\ UNCHANGED <<which, vars, x8, x9, x10, x11, x12, x13, x14, x15, x16, x17>>
  \/ which = "curl" /\ Library!CurlNext /\ UNCHANGED <<which, vars, x16, x17>>
  \/ which = "resolver" /\ Library!ResolverNext
     /\ UNCHANGED <<which, vars, x11, x12, x13, x14, x15, x16, x17>>
  \/ which # "connector" /\ UNCHANGED allVars   \* a program may stop; a connector may not get stuck

(* The loop of the client goes round; in the programs, what they wait for  *)
(* happens, in any order: weak fairness of each as a whole, not of its     *)
(* actions.                                                                *)
V7 == <<x1, x2, x3, x4, x5, x6, x7>>
V10 == <<x1, x2, x3, x4, x5, x6, x7, x8, x9, x10>>
V15 == <<x1, x2, x3, x4, x5, x6, x7, x8, x9, x10, x11, x12, x13, x14, x15>>
V16 == <<x1, x2, x3, x4, x5, x6, x7, x8, x9, x10, x11, x12, x13, x14, x15, x16>>
Fairness ==
  /\ WF_vars(which = "connector" /\ Loop)
  /\ WF_X(which = "load" /\ Load!Progress)
  /\ WF_V16(which = "wordcount" /\ Words!Next)
  /\ WF_V16(which = "simple" /\ Simple!Progress)
  /\ WF_V7(which = "ttcp" /\ Simple!TtcpNext)
  /\ WF_V15(which = "curl" /\ Library!CurlNext)
  /\ WF_V10(which = "resolver" /\ Library!ResolverProgress)

MCSpec == MCInit /\ [][MCNext]_allVars /\ Fairness

-----------------------------------------------------------------------------
\* What a program reports or leaves behind is exactly what was transferred: the shards of
\* the word count, the two ends of a ttcp transfer, the files and counters of the small
\* servers, the pieces of a download.
ResultsAreExact ==
  /\ which = "wordcount" => Words!ShardsAreExact
  /\ which = "ttcp" => Simple!BothCountTheSame
  /\ which = "simple" => Simple!ReceivedInOrder /\ Simple!CountedOnce /\ Simple!FileIsOpen
  /\ which = "curl" => Library!DownloadIsWhole

\* A load generator keeps in flight what it is to keep there and reports once, on all its
\* clients; a resolver with queries has a timer for them, and one channel per socket.
InFlightIsKept ==
  /\ which = "load" => Load!WindowIsKept /\ Load!ReportIsComplete
  /\ which = "resolver" => Library!QueriesAreTimed

\* What has an end comes to it: the programs that transfer something, and the connect that
\* stop() found under way.
ComesToAnEnd ==
  /\ <>(/\ which = "load" => Load!Ended
        /\ which = "wordcount" => Words!Ended
        /\ which = "simple" => Simple!Ended
        /\ which = "ttcp" => Simple!Transferred
        /\ which = "curl" => Library!Downloaded
        /\ which = "resolver" => Library!Resolved)
  /\ AttemptToStop ~> ~AttemptToStop
=============================================================================
