------------------------------ MODULE Memcached ------------------------------
(***************************************************************************)
(* The memcached server of examples/memcached/server: Session,             *)
(* MemcacheServer and Item.  Every session runs on a loop thread of its    *)
(* own; they share the items, one lock at a time.  A request is a line and *)
(* perhaps a value that arrives in pieces, so requests of other sessions   *)
(* run between a line and its value, and between the keys of one get.      *)
(* A value is the sequence of the numbers of the requests that wrote it.   *)
(***************************************************************************)
EXTENDS Naturals, Sequences, FiniteSets

CONSTANTS
  Sessions, Keys,
  TooLong,        \* a key of more than kLongestKeySize characters
  Pieces,         \* pieces a value arrives in
  MaxRequests     \* bound: requests, and lines without an end, in a behaviour

NoItem == [value |-> <<>>, flags |-> 0, cas |-> 0]

Policies ==
  [set |-> "kSet", add |-> "kAdd", replace |-> "kReplace", append |-> "kAppend",
   prepend |-> "kPrepend", cas |-> "kCas"]

VARIABLES
  items,      \* key -> item of the sharded hash maps, or NoItem
  g_cas,      \* the last cas id given out
  sess,       \* session -> its Session object
  replies,    \* session -> number of replies sent
  due,        \* session -> number of replies its finished requests call for
  shown,      \* session -> its last reply to a get: the request, and the values with the
              \* requests that found them
  refused,    \* session -> gets that ended at a key that is too long
  seen,       \* session -> the last item that gets showed its client, with the key
  requests,   \* number of requests so far
  stopping    \* MemcacheServer::stop() was called

vars == <<items, g_cas, sess, replies, due, shown, refused, seen, requests, stopping>>

NewSession ==
  [state |-> "kNewCommand", noreply |-> FALSE, policy |-> "kInvalid", key |-> <<>>,
   currItem |-> NoItem, needed |-> 0, goodChunk |-> TRUE, getting |-> <<>>, id |-> 0, cas |-> FALSE,
   down |-> FALSE, asks |-> FALSE, outputBuf |-> <<>>]

Init ==
  /\ items = [k \in Keys |-> NoItem]
  /\ g_cas = 0
  /\ sess = [s \in Sessions |-> NewSession]
  /\ replies = [s \in Sessions |-> 0]
  /\ due = [s \in Sessions |-> 0]
  /\ shown = [s \in Sessions |-> [of |-> 0, values |-> <<>>]]
  /\ refused = [s \in Sessions |-> {}]
  /\ seen = [s \in Sessions |-> <<>>]
  /\ requests = 0
  /\ stopping = FALSE

-----------------------------------------------------------------------------
\* resetRequest(); forgetting noreply_ would silence the next request.
resetRequest_KeepsNoreply(s) ==
  [s EXCEPT !.state = "kNewCommand", !.policy = "kInvalid", !.key = <<>>, !.currItem = NoItem,
            !.needed = 0, !.goodChunk = TRUE, !.getting = <<>>, !.id = 0, !.cas = FALSE,
            !.asks = FALSE]

resetRequest(s) ==
  [s EXCEPT !.state = "kNewCommand", !.policy = "kInvalid", !.key = <<>>, !.currItem = NoItem,
            !.needed = 0, !.goodChunk = TRUE, !.getting = <<>>, !.id = 0, !.cas = FALSE,
            !.asks = FALSE, !.noreply = FALSE]

\* reply() says nothing to a noreply request, and send() nothing after shutdown().
Replies(s) == IF s.noreply \/ s.down THEN 0 ELSE 1

\* What a request that is read sets: noreply_ is only ever set to true here.
\* asks is whether the client expects a reply.
Begun(c, noreply) ==
  [sess[c] EXCEPT !.noreply = @ \/ noreply, !.asks = ~noreply /\ ~sess[c].down]

Wanted(s) == IF s.asks THEN 1 ELSE 0

\* The request of c ends as session s, with n replies sent for it.
Finish(c, s, n) ==
  /\ sess' = [sess EXCEPT ![c] = resetRequest(s)]
  /\ replies' = [replies EXCEPT ![c] = @ + n]
  /\ due' = [due EXCEPT ![c] = @ + Wanted(s)]

Exists(k) == items[k] # NoItem

makeItem(value, flags, cas) == [value |-> value, flags |-> flags, cas |-> cas]

CasOfAppended_Old(old) == old.cas
CasOfAppended(old) == g_cas + 1

\* storeItem(): the items after it, or the same if it refuses.
Stored(k, item, policy) ==
  LET fresh  == [item EXCEPT !.cas = g_cas + 1]
      joined(v) == makeItem(v, items[k].flags, CasOfAppended(items[k]))
  IN  [items EXCEPT ![k] =
         CASE policy = "kAppend" -> joined(items[k].value \o item.value)
           [] policy = "kPrepend" -> joined(item.value \o items[k].value)
           [] OTHER -> fresh]

Accepts(k, item, policy) ==
  CASE policy = "kSet" -> TRUE
    [] policy = "kAdd" -> ~Exists(k)
    [] policy = "kCas" -> Exists(k) /\ items[k].cas = item.cas
    [] OTHER -> Exists(k)

Deleted(k) == [items EXCEPT ![k] = NoItem]

-----------------------------------------------------------------------------
\* What Reader makes of the numbers of an update line, with what its value will
\* look like; and the keys that the tokenizer finds in a get line.
LineKinds == {"good", "badchunk", "bad", "large"}
KeyLists == {<<k>> : k \in Keys} \cup (Keys \X (Keys \cup {TooLong}))

\* Ready for a command.  Sessions are alike: the first of all commands is the first session's.
Idle(c) ==
  /\ requests = 0 => \A d \in Sessions : c <= d
  /\ sess[c].state = "kNewCommand" /\ sess[c].getting = <<>>

\* doUpdate(): a bad line is refused; a value that is too large is discarded,
\* and what the key had goes; otherwise the value is awaited.
doUpdate(c, command, k, noreply, line) ==
  LET s == [Begun(c, noreply) EXCEPT !.policy = Policies[command], !.key = <<k>>]
  IN  CASE line = "bad" ->
             /\ Finish(c, s, Replies(s))
             /\ UNCHANGED items
        [] line = "large" ->
             /\ items' = Deleted(k)
             /\ replies' = [replies EXCEPT ![c] = @ + Replies(s)]
             /\ sess' = [sess EXCEPT ![c] = [s EXCEPT !.state = "kDiscardValue", !.needed = Pieces,
                                                         !.asks = FALSE]]
             /\ due' = [due EXCEPT ![c] = @ + Wanted(s)]
        [] OTHER ->
             /\ sess' = [sess EXCEPT ![c] = [s EXCEPT !.state = "kReceiveValue", !.needed = Pieces,
                  !.goodChunk = (line = "good"),
                  !.currItem = makeItem(<<requests'>>, requests',
                                IF command = "cas" /\ seen[c] # <<>> /\ seen[c][1] = k
                                  THEN seen[c][2].cas ELSE 0)]]
             /\ UNCHANGED <<items, replies, due>>

Update(c) ==
  \E command \in DOMAIN Policies, k \in Keys, noreply \in BOOLEAN,
     line \in LineKinds :
    /\ Idle(c) /\ requests < MaxRequests /\ requests' = requests + 1
    /\ doUpdate(c, command, k, noreply, line)
    /\ UNCHANGED <<g_cas, shown, refused, seen, stopping>>

\* The value arrives.  The last piece stores it, if it ends with CRLF.
receiveValue(c) ==
  LET s == sess[c]
      k == s.key[1]
      ok == s.goodChunk /\ Accepts(k, s.currItem, s.policy)
  IN  /\ s.state = "kReceiveValue"
      /\ IF s.needed > 1
           THEN /\ sess' = [sess EXCEPT ![c].needed = @ - 1]
                /\ UNCHANGED <<items, g_cas, replies, due>>
           ELSE /\ items' = IF ok THEN Stored(k, s.currItem, s.policy) ELSE items
                /\ g_cas' = IF ok THEN g_cas + 1 ELSE g_cas
                /\ Finish(c, s, Replies(s))
      /\ UNCHANGED <<shown, refused, seen, requests, stopping>>

discardValue(c) ==
  LET s == sess[c]
  IN  /\ s.state = "kDiscardValue"
      /\ IF s.needed > 1 THEN sess' = [sess EXCEPT ![c].needed = @ - 1] /\ UNCHANGED <<replies, due>>
                         ELSE Finish(c, s, 0)
      /\ UNCHANGED <<items, g_cas, shown, refused, seen, requests, stopping>>

\* get and gets: the keys are looked up one by one into outputBuf_, then END is added and
\* all is sent, whether or not the line said noreply.  A key that is too long ends the
\* request; the items found before it stay in outputBuf_ and go out with the next get.
Get(c) ==
  \E keys \in KeyLists, cas \in BOOLEAN, noreply \in BOOLEAN :
    /\ Idle(c) /\ requests < MaxRequests /\ requests' = requests + 1
    /\ sess' = [sess EXCEPT ![c] = [Begun(c, noreply) EXCEPT !.getting = keys, !.cas = cas,
                                                           !.id = requests']]
    /\ UNCHANGED <<items, g_cas, replies, due, shown, refused, seen, stopping>>

\* What outputBuf_ holds once the item of key k, if there is one, is output.
Output_Twice(s, k) == IF Exists(k) THEN s.outputBuf \o <<<<s.id, k>>, <<s.id, k>>>> ELSE s.outputBuf
Output(s, k) == IF Exists(k) THEN Append(s.outputBuf, <<s.id, k>>) ELSE s.outputBuf

\* send(&outputBuf_) takes nothing from it after shutdown().
SendOutput(c, s) ==
  IF s.down THEN Finish(c, [s EXCEPT !.asks = FALSE], 0) /\ UNCHANGED shown
  ELSE /\ Finish(c, [s EXCEPT !.asks = TRUE, !.outputBuf = <<>>], 1)
       /\ shown' = [shown EXCEPT ![c] = [of |-> s.id, values |-> s.outputBuf]]

getItem(c) ==
  LET s == sess[c]
      k == Head(s.getting)
      found == [s EXCEPT !.outputBuf = Output(s, k), !.getting = Tail(@)]
  IN  /\ s.getting # <<>>
      /\ seen' = IF k \in Keys /\ s.cas /\ Exists(k) THEN [seen EXCEPT ![c] = <<k, items[k]>>]
                                                   ELSE seen
      /\ \/ /\ k \in Keys /\ Len(s.getting) > 1
            /\ sess' = [sess EXCEPT ![c] = found]
            /\ UNCHANGED <<replies, due, shown, refused>>
         \/ /\ k \in Keys /\ Len(s.getting) = 1
            /\ SendOutput(c, found) /\ UNCHANGED refused
         \/ /\ k \notin Keys
            /\ Finish(c, s, Replies(s))
            /\ refused' = [refused EXCEPT ![c] = @ \cup {s.id}] /\ UNCHANGED shown
      /\ UNCHANGED <<items, g_cas, requests, stopping>>

doDelete(c) ==
  \E k \in Keys, noreply \in BOOLEAN, good \in BOOLEAN :
    LET s == Begun(c, noreply)
    IN  /\ Idle(c) /\ requests < MaxRequests /\ requests' = requests + 1
        /\ items' = IF good THEN Deleted(k) ELSE items
        /\ Finish(c, s, Replies(s))
        /\ UNCHANGED <<g_cas, shown, refused, seen, stopping>>

\* version, an unknown command and an empty line answer; quit and shutdown
\* close this side of the connection.
OtherCommand(c) ==
  \E command \in {"version", "unknown", "quit", "shutdown"}, noreply \in BOOLEAN :
    LET closes == command \in {"quit", "shutdown"}
        s == [Begun(c, noreply) EXCEPT !.down = @ \/ closes, !.asks = @ /\ ~closes]
    IN  /\ Idle(c) /\ requests < MaxRequests /\ requests' = requests + 1
        /\ Finish(c, s, Replies(s))
        /\ stopping' = (stopping \/ command = "shutdown")
        /\ UNCHANGED <<items, g_cas, shown, refused, seen>>

\* onMessage() with more than 1024 bytes and no line in them: the connection is shut down,
\* and the line is still taken as a request if its end ever comes.
LongLine(c) ==
  /\ Idle(c) /\ requests < MaxRequests /\ requests' = requests + 1
  /\ sess' = [sess EXCEPT ![c].down = TRUE]
  /\ UNCHANGED <<items, g_cas, replies, due, shown, refused, seen, stopping>>

\* onConnection() on the way down and up again: the session is a new one.
Reconnect(c) ==
  /\ sess[c] # NewSession
  /\ sess' = [sess EXCEPT ![c] = NewSession]
  /\ replies' = [replies EXCEPT ![c] = 0]
  /\ due' = [due EXCEPT ![c] = 0]
  /\ shown' = [shown EXCEPT ![c] = [of |-> 0, values |-> <<>>]]
  /\ refused' = [refused EXCEPT ![c] = {}]
  /\ UNCHANGED <<items, g_cas, seen, requests, stopping>>

Next ==
  \E c \in Sessions :
    \/ Update(c) \/ receiveValue(c) \/ discardValue(c) \/ Get(c) \/ getItem(c)
    \/ doDelete(c) \/ OtherCommand(c) \/ LongLine(c) \/ Reconnect(c)

Spec == Init /\ [][Next]_vars

-----------------------------------------------------------------------------
\* A cas id names one version of its item: while the item a client was shown
\* still has the id it was shown with, it is that item, unchanged.  So a cas
\* that is answered STORED overwrote what its client had read, whatever other
\* sessions stored, appended, deleted or added in between (MemcacheServer.cc:123).
CasNamesVersion ==
  \A c \in Sessions : seen[c] # <<>> =>
    LET k == seen[c][1]
    IN  items[k].cas = seen[c][2].cas => items[k] = seen[c][2]

\* A connection has been sent one reply for each finished request that asked for one:
\* noreply, bad lines, discarded values and short chunks included (Session.cc:201).  The
\* reply to a get holds what that get found, each key at most once for each time it was
\* asked for, after what gets before it found that ended at a key that is too long and
\* were refused (Session.cc:246): a client whose gets are never refused sees its own items.
AnsweredOnce ==
  \A c \in Sessions :
    LET values == shown[c].values
        own == SelectSeq(values, LAMBDA v : v[1] = shown[c].of)
    IN  /\ replies[c] = due[c]
        /\ \A i \in DOMAIN values : values[i][1] \in refused[c] \cup {shown[c].of}
        /\ Len(own) <= 2 /\ \A i, j \in DOMAIN values : i < j => values[i][1] <= values[j][1]
        /\ refused[c] = {} => values = own
=============================================================================
