------------------------------ MODULE WordCount -----------------------------
(***************************************************************************)
(* examples/wordcount: hashers (hasher.cc) count the words of their input  *)
(* piecewise and send each word's count to the receiver (receiver.cc) that *)
(* its hash names.  A hasher has a main thread, which SendThrottler makes  *)
(* wait while a connection's output buffer is over the high-water mark,    *)
(* and a loop thread with a queue of functors.  A record of the wire is    *)
(* <<word, count>>.  Connections do not break.                             *)
(***************************************************************************)
EXTENDS Naturals, Sequences, SequencesExt, FiniteSets, FiniteSetsExt, Functions

CONSTANTS
  Hashers,
  Receivers,     \* 1 .. n: the order of buckets_
  Hash,          \* word -> receiver: hash(word) % buckets_.size()
  Inputs,        \* the inputs the hashers may be given: hasher -> sequence of words
  BatchSizes,    \* values of BATCH_SIZE, in records
  kMaxHashSize,
  Mark           \* the high-water mark, in records

VARIABLES
  g_batchSize,
  given, input,  \* hasher -> its words, and those it has still to read
  main,          \* hasher -> where its main thread is
  bucket,        \* hasher -> the bucket that main is at
  wordcounts,    \* hasher -> word -> count, to be sent
  buffer,        \* hasher -> receiver -> buffer_ of its throttler
  congestion,    \* hasher -> receiver -> congestion_
  conn,          \* hasher -> receiver -> none, connecting, up, disconnecting, fin, down
  queue,         \* hasher -> functors of its loop
  output,        \* hasher -> receiver -> the connection's output buffer
  wire,          \* hasher -> receiver -> records on their way
  lost,          \* records written to a connection that was shut down already
  senders_,      \* receiver -> senders_
  counts,        \* receiver -> word -> wordcounts_
  shard          \* receiver -> the shards it has written

vars == <<g_batchSize, given, input, main, bucket, wordcounts, buffer, congestion, conn, queue, output, wire, lost,
          senders_, counts, shard>>

Words == DOMAIN Hash
NoWords == [w \in {} |-> 0]
Each(x) == [h \in Hashers |-> [r \in Receivers |-> x]]

\* The constructors, and start(senders): as many senders as there are hashers.
Init ==
  /\ g_batchSize \in BatchSizes
  /\ given \in Inputs /\ input = given
  /\ main = [h \in Hashers |-> "connect"] /\ bucket = [h \in Hashers |-> 1]
  /\ wordcounts = [h \in Hashers |-> NoWords]
  /\ buffer = Each(<<>>) /\ congestion = Each(FALSE) /\ conn = Each("none")
  /\ queue = [h \in Hashers |-> <<>>] /\ output = Each(<<>>) /\ wire = Each(<<>>) /\ lost = <<>>
  /\ senders_ = [r \in Receivers |-> Cardinality(Hashers)]
  /\ counts = [r \in Receivers |-> [w \in Words |-> 0]] /\ shard = [r \in Receivers |-> <<>>]

Queue(h, fs) == queue' = [queue EXCEPT ![h] = @ \o fs]
Functor(f, r, data) == [f |-> f, r |-> r, data |-> data]
Goes(h, where) == main' = [main EXCEPT ![h] = where]

-----------------------------------------------------------------------------
(* The main thread of hasher h.                                            *)

\* connectAll(): connect() of each bucket, which waits for connectLatch_.
connect(h) ==
  /\ main[h] = "connect"
  /\ conn[h][bucket[h]] # "connecting"
  /\ CASE conn[h][bucket[h]] = "none" ->
            conn' = [conn EXCEPT ![h][bucket[h]] = "connecting"] /\ UNCHANGED <<main, bucket>>
       [] conn[h][bucket[h]] = "up" /\ bucket[h] < Cardinality(Receivers) ->
            bucket' = [bucket EXCEPT ![h] = @ + 1] /\ UNCHANGED <<main, conn>>
       [] conn[h][bucket[h]] = "up" /\ bucket[h] = Cardinality(Receivers) ->
            Goes(h, "read") /\ UNCHANGED <<bucket, conn>>
  /\ UNCHANGED <<g_batchSize, given, input, wordcounts, buffer, congestion, queue, output, wire, lost, senders_, counts, shard>>

\* processFile(): words are read until the map has grown too large.
TooLarge(s) == Cardinality(Range(s)) > kMaxHashSize
ReadTo(s) ==
  LET full == {k \in 0 .. Len(s) : TooLarge(SubSeq(s, 1, k))}
  IN  IF full = {} THEN Len(s) ELSE CHOOSE k \in full : \A j \in full : k <= j
KeptFrom_Drops(k) == k + 2
KeptFrom(k) == k + 1
read(h) ==
  /\ main[h] = "read"
  /\ LET k == ReadTo(input[h])
         piece == SubSeq(input[h], 1, k)
     IN  /\ input' = [input EXCEPT ![h] = SubSeq(@, KeptFrom(k), Len(@))]
         /\ wordcounts' = [wordcounts EXCEPT ![h] =
              [w \in Range(piece) |-> Cardinality({i \in 1 .. k : piece[i] = w})]]
         /\ Goes(h, "send")
  /\ UNCHANGED <<g_batchSize, given, bucket, buffer, congestion, conn, queue, output, wire, lost, senders_, counts, shard>>

\* The next record of the map, in any order; or the next piece, or the end of the input.
send(h) ==
  /\ main[h] = "send"
  /\ IF wordcounts[h] = NoWords
     THEN /\ Goes(h, IF input[h] = <<>> THEN "disconnect" ELSE "read")
          /\ bucket' = [bucket EXCEPT ![h] = 1] /\ UNCHANGED <<wordcounts, buffer>>
     ELSE \E w \in DOMAIN wordcounts[h] :
            /\ bucket' = [bucket EXCEPT ![h] = Hash[w]]
            /\ buffer' = [buffer EXCEPT ![h][Hash[w]] = Append(@, <<w, wordcounts[h][w]>>)]
            /\ wordcounts' = [wordcounts EXCEPT ![h] = Restrict(@, DOMAIN @ \ {w})]
            /\ IF Len(buffer'[h][Hash[w]]) >= g_batchSize THEN Goes(h, "throttle") ELSE UNCHANGED main
  /\ UNCHANGED <<g_batchSize, given, input, congestion, conn, queue, output, wire, lost, senders_, counts, shard>>

\* throttle(), and conn_->send(&buffer_), which hands the data to the loop.
throttle(h) ==
  LET b == bucket[h]
  IN  /\ main[h] = "throttle"
      /\ IF congestion[h][b]
         THEN Goes(h, "wait") /\ UNCHANGED <<queue, buffer>>
         ELSE /\ Goes(h, "send") /\ Queue(h, <<Functor("send", b, buffer[h][b])>>)
              /\ buffer' = [buffer EXCEPT ![h][b] = <<>>]
      /\ UNCHANGED <<g_batchSize, given, input, bucket, wordcounts, congestion, conn, output, wire, lost, senders_, counts, shard>>

\* disconnectAll(): disconnect() of each bucket, which waits for disconnectLatch_.
Remainder_Forgotten(h, b) == <<>>
Remainder(h, b) == IF buffer[h][b] # <<>> THEN <<Functor("send", b, buffer[h][b])>> ELSE <<>>
disconnect(h) ==
  LET b == bucket[h]
  IN  /\ main[h] = "disconnect" /\ conn[h][b] \in {"up", "down"}
      /\ CASE conn[h][b] = "up" ->
                /\ Queue(h, Remainder(h, b) \o <<Functor("shutdown", b, <<>>)>>)
                /\ buffer' = [buffer EXCEPT ![h][b] = <<>>]
                /\ conn' = [conn EXCEPT ![h][b] = "disconnecting"] /\ UNCHANGED <<main, bucket>>
           [] conn[h][b] = "down" /\ b < Cardinality(Receivers) ->
                bucket' = [bucket EXCEPT ![h] = b + 1] /\ UNCHANGED <<main, buffer, conn, queue>>
           [] conn[h][b] = "down" /\ b = Cardinality(Receivers) ->
                Goes(h, "ended") /\ UNCHANGED <<bucket, buffer, conn, queue>>
      /\ UNCHANGED <<g_batchSize, given, input, wordcounts, congestion, output, wire, lost, senders_, counts, shard>>

-----------------------------------------------------------------------------
(* The loop thread of hasher h.                                            *)

onConnection(h, r) ==
  /\ conn[h][r] = "connecting" /\ conn' = [conn EXCEPT ![h][r] = "up"]
  /\ UNCHANGED <<g_batchSize, given, input, main, bucket, wordcounts, buffer, congestion, queue, output, wire, lost, senders_, counts, shard>>

\* onWriteComplete(): whoever waits for the congestion's end is told.
Notifies_WhenClear(old) == ~old
Notifies(old) == old
onWriteComplete(h, r) ==
  /\ congestion' = [congestion EXCEPT ![h][r] = FALSE]
  /\ IF Notifies(congestion[h][r]) /\ main[h] = "wait" /\ bucket[h] = r THEN Goes(h, "throttle") ELSE UNCHANGED main

\* The first functor: sendInLoop(), which writes n records at once, shutdownInLoop(),
\* or a callback.
runFunctor(h) ==
  /\ queue[h] # <<>>
  /\ LET f == Head(queue[h])
         r == f.r
         old == output[h][r]
         rest(fs) == queue' = [queue EXCEPT ![h] = Tail(@) \o fs]
     IN  CASE f.f = "send" /\ conn[h][r] = "fin" ->
               lost' = lost \o f.data /\ rest(<<>>) /\ UNCHANGED <<wire, output, congestion, main, conn>>
           [] f.f = "send" /\ conn[h][r] # "fin" ->
               \E n \in IF old = <<>> THEN 0 .. Len(f.data) ELSE {0} :
                 LET now == old \o SubSeq(f.data, n + 1, Len(f.data))
                 IN  /\ wire' = [wire EXCEPT ![h][r] = @ \o SubSeq(f.data, 1, n)]
                     /\ output' = [output EXCEPT ![h][r] = now]
                     /\ rest((IF now = <<>> THEN <<Functor("complete", r, <<>>)>> ELSE <<>>)
                             \o (IF Len(now) >= Mark /\ Len(old) < Mark THEN <<Functor("high", r, <<>>)>> ELSE <<>>))
                     /\ UNCHANGED <<congestion, main, conn, lost>>
           [] f.f = "shutdown" ->
               /\ conn' = [conn EXCEPT ![h][r] = IF old = <<>> THEN "fin" ELSE @]
               /\ rest(<<>>) /\ UNCHANGED <<lost, wire, output, congestion, main>>
           [] f.f = "high" ->
               /\ congestion' = [congestion EXCEPT ![h][r] = TRUE]
               /\ rest(<<>>) /\ UNCHANGED <<lost, wire, output, main, conn>>
           [] f.f = "complete" ->
               onWriteComplete(h, r) /\ rest(<<>>) /\ UNCHANGED <<lost, wire, output, conn>>
  /\ UNCHANGED <<g_batchSize, given, input, bucket, wordcounts, buffer, senders_, counts, shard>>

\* handleWrite(): the socket takes n records.  Once they are all written the connection
\* is shut down if shutdown() has been called, though a functor may still have data.
handleWrite(h, r) ==
  /\ output[h][r] # <<>>
  /\ \E n \in 1 .. Len(output[h][r]) :
       /\ wire' = [wire EXCEPT ![h][r] = @ \o SubSeq(output[h][r], 1, n)]
       /\ output' = [output EXCEPT ![h][r] = SubSeq(@, n + 1, Len(@))]
       /\ IF output'[h][r] = <<>>
          THEN /\ Queue(h, <<Functor("complete", r, <<>>)>>)
               /\ conn' = [conn EXCEPT ![h][r] = IF @ = "disconnecting" THEN "fin" ELSE @]
          ELSE UNCHANGED <<queue, conn>>
  /\ UNCHANGED <<g_batchSize, given, input, main, bucket, wordcounts, buffer, congestion, lost, senders_, counts, shard>>

-----------------------------------------------------------------------------
(* Receiver r.                                                             *)

onMessage(h, r) ==
  /\ wire[h][r] # <<>>
  /\ LET rec == Head(wire[h][r])
     IN  counts' = [counts EXCEPT ![r][rec[1]] = @ + rec[2]]
  /\ wire' = [wire EXCEPT ![h][r] = Tail(@)]
  /\ UNCHANGED <<g_batchSize, given, input, main, bucket, wordcounts, buffer, congestion, conn, queue, output, lost, senders_, shard>>

\* onConnection() of a connection that is down, at both ends; output() and quit() after
\* the last.  The hasher's loop polls for the end of the connection only after it has
\* run the functors it had.
LastSender_First(n) == n + 1 = Cardinality(Hashers)
LastSender(n) == n = 0
onDisconnected(h, r) ==
  /\ conn[h][r] = "fin" /\ wire[h][r] = <<>>
  /\ \A i \in DOMAIN queue[h] : queue[h][i].f \in {"send", "shutdown"} => queue[h][i].r # r
  /\ conn' = [conn EXCEPT ![h][r] = "down"]
  /\ senders_' = [senders_ EXCEPT ![r] = @ - 1]
  /\ shard' = [shard EXCEPT ![r] = IF LastSender(senders_'[r]) THEN Append(@, counts[r]) ELSE @]
  /\ UNCHANGED <<g_batchSize, given, input, main, bucket, wordcounts, buffer, congestion, queue, output, wire, lost, counts>>

MainStep(h) == connect(h) \/ read(h) \/ send(h) \/ throttle(h) \/ disconnect(h)
Next ==
  \E h \in Hashers :
    \/ MainStep(h) \/ runFunctor(h)
    \/ \E r \in Receivers : onConnection(h, r) \/ handleWrite(h, r) \/ onMessage(h, r) \/ onDisconnected(h, r)

\* The threads run and the network delivers.
Spec == Init /\ [][Next]_vars /\ WF_vars(Next)

-----------------------------------------------------------------------------
Occurrences(w) == MapThenSumSet(LAMBDA h : Cardinality({i \in DOMAIN given[h] : given[h][i] = w}), Hashers)
Lost(w) == MapThenSumSet(LAMBDA i : IF lost[i][1] = w THEN lost[i][2] ELSE 0, DOMAIN lost)

\* A receiver writes one shard, after its last sender has gone, and every word of the
\* inputs is counted in the shard of its receiver as often as it occurs, and in no other;
\* but for the last records of a hasher, which are lost if its loop finds the output
\* buffer empty between the two calls of disconnect() (hasher.cc:52).
ShardsAreExact ==
  (\A h \in Hashers : main[h] = "ended") =>
    \A r \in Receivers :
      shard[r] = <<[w \in Words |-> IF Hash[w] = r THEN Occurrences(w) - Lost(w) ELSE 0]>>

\* Every hasher has come to its end and every receiver has written its shard: no main
\* thread waits for good for a congestion that is over.
Ended == /\ \A h \in Hashers : main[h] = "ended"
         /\ \A r \in Receivers : shard[r] # <<>>
=============================================================================
