---------------------------- MODULE RpcBalancer -----------------------------
(***************************************************************************)
(* muduo/net/protorpc: RpcChannel as the caller has it (CallMethod from    *)
(* any thread, responses on the loop) and as RpcServer makes one for each  *)
(* connection (a request finds its method, whose done closure may run at   *)
(* any later time and in any order).  A message is [id, data, sum]; its    *)
(* checksum sum is right when it equals id.  The data of a call stands for *)
(* its service, method and arguments.                                      *)
(***************************************************************************)
EXTENDS Naturals, Sequences, FiniteSets, Functions

CONSTANTS
  Calls,       \* bound: the calls made, numbered from 1
  ChannelOf,   \* call -> the channel it is made on
  Channels,    \* the callers' channels
  Servers,     \* the servers' channels
  Faulty       \* the calls whose service, method or request the server refuses

VARIABLES
  id,            \* channel -> id_
  outstandings,  \* channel -> set of [id, call]
  gone,          \* the channels destroyed
  call,          \* call -> [st, id, result]: st is idle, registered, sent, done, deleted
  request,       \* channel -> messages sent and not yet read at the other end
  response,      \* channel -> messages on their way back
  arriving,      \* server -> requests on their way to it
  pending,       \* server -> set of [id, data] whose done has not run
  stale,         \* server -> those of them whose RpcChannel has been destroyed
  leaving,       \* server -> responses on their way from it
  conn           \* server -> whether a connection to it is up

channelVars == <<id, outstandings, gone, call, request, response, arriving, pending, stale, leaving>>

Message(i, data) == [id |-> i, data |-> data, sum |-> i]

ChannelInit ==
  /\ id = [c \in Channels |-> 0] /\ outstandings = [c \in Channels |-> {}] /\ gone = {}
  /\ call = [k \in Calls |-> [st |-> "idle", id |-> 0, result |-> 0]]
  /\ request = [c \in Channels |-> <<>>] /\ response = [c \in Channels |-> <<>>]
  /\ arriving = [s \in Servers |-> <<>>] /\ leaving = [s \in Servers |-> <<>>]
  /\ pending = [s \in Servers |-> {}] /\ stale = [s \in Servers |-> {}]

-----------------------------------------------------------------------------
\* CallMethod() on a caller's thread: the call is entered under the mutex, then sent.
CallMethod(k) ==
  LET c == ChannelOf[k]
  IN  /\ call[k].st = "idle" /\ c \notin gone
      /\ id' = [id EXCEPT ![c] = @ + 1]
      /\ outstandings' = [outstandings EXCEPT ![c] = @ \cup {[id |-> id[c] + 1, call |-> k]}]
      /\ call' = [call EXCEPT ![k] = [st |-> "registered", id |-> id[c] + 1, result |-> 0]]
      /\ UNCHANGED <<gone, request, response, arriving, pending, stale, leaving>>

SendRequest(k) ==
  LET c == ChannelOf[k]
  IN  /\ call[k].st = "registered"
      /\ request' = [request EXCEPT ![c] = Append(@, Message(call[k].id, k))]
      /\ call' = [call EXCEPT ![k].st = "sent"]
      /\ UNCHANGED <<id, outstandings, gone, response, arriving, pending, stale, leaving>>

\* onRpcMessage() for a RESPONSE: the closure it names runs, if there is one.
Matching(c, i) == {o \in outstandings[c] : o.id = i}
Erase_Not(c, found) == outstandings[c]
Erase(c, found) == outstandings[c] \ found

onResponse(c) ==
  /\ response[c] # <<>>
  /\ LET m     == Head(response[c])
         found == Matching(c, m.id)
     IN  /\ response' = [response EXCEPT ![c] = Tail(@)]
         /\ outstandings' = [outstandings EXCEPT ![c] = Erase(c, found)]
         /\ call' = [k \in Calls |->
              IF \E o \in found : o.call = k
                THEN [call[k] EXCEPT !.st = "done", !.result = m.data] ELSE call[k]]
  /\ UNCHANGED <<id, gone, request, arriving, pending, stale, leaving>>

\* ~RpcChannel(), when its connection is gone too, deletes the closures that have
\* not run.
destroy(c) ==
  /\ c \notin gone /\ gone' = gone \cup {c}
  /\ \A k \in Calls : ChannelOf[k] = c => call[k].st # "registered"
  /\ call' = [k \in Calls |-> IF \E o \in outstandings[c] : o.call = k
                                THEN [call[k] EXCEPT !.st = "deleted"] ELSE call[k]]
  /\ outstandings' = [outstandings EXCEPT ![c] = {}]
  /\ response' = [response EXCEPT ![c] = <<>>] /\ request' = [request EXCEPT ![c] = <<>>]
  /\ UNCHANGED <<id, arriving, pending, stale, leaving>>

\* onRpcMessage() for a REQUEST: an error is answered at once.
Error(k) == 100 + k
onRequest(s) ==
  /\ arriving[s] # <<>>
  /\ arriving' = [arriving EXCEPT ![s] = Tail(@)]
  /\ LET m == Head(arriving[s])
     IN  IF m.data \in Faulty
         THEN /\ leaving' = [leaving EXCEPT ![s] = Append(@, Message(m.id, Error(m.data)))]
              /\ UNCHANGED pending
         ELSE /\ pending' = [pending EXCEPT ![s] = @ \cup {[id |-> m.id, data |-> m.data]}]
              /\ UNCHANGED leaving
  /\ UNCHANGED <<id, outstandings, gone, call, request, response, stale>>

\* The closure holds a raw pointer to the channel.  If the channel has been destroyed, the
\* closure finds what is now where it was: the channel of the next connection, by which
\* the response is sent, or none, and nothing is; or the server crashes (lateDoneCrashes).
\* A server has one connection here; with more it may be the channel of another caller.
doneCallback(s) ==
  \E p \in pending[s] :
    /\ pending' = [pending EXCEPT ![s] = @ \ {p}]
    /\ stale' = [stale EXCEPT ![s] = @ \ {p}]
    /\ \/ /\ p \in stale[s] => conn[s]
          /\ leaving' = [leaving EXCEPT ![s] = Append(@, Message(p.id, p.data))]
       \/ p \in stale[s] /\ UNCHANGED leaving
    /\ UNCHANGED <<id, outstandings, gone, call, request, response, arriving>>

ChannelNext ==
  \/ \E k \in Calls : CallMethod(k) \/ SendRequest(k)
  \/ \E c \in Channels : onResponse(c) \/ destroy(c)
  \/ \E s \in Servers : onRequest(s) \/ doneCallback(s)

-----------------------------------------------------------------------------
(***************************************************************************)
(* examples/protobuf/rpcbalancer: an I/O thread of a balancer between RPC  *)
(* channels and servers.  Each request goes to the next backend that is    *)
(* connected, under an id of the backend session's own, and the response   *)
(* goes back under the caller's.  balancer parses and encodes messages;    *)
(* balancer_raw rewrites the id and the checksum in place.                 *)
(***************************************************************************)
CONSTANTS
  BalancerKinds,   \* parsed, raw
  MaxDrops         \* bound: backend connections that break

\* Calls and servers are numbered, the servers as backends_ has them.
ASSUME RpcAssumption ==
  /\ ChannelOf \in [Calls -> Channels]
  /\ Cardinality(Servers) \in Nat /\ Servers = 1 .. Cardinality(Servers)

VARIABLES
  balancer,        \* which of the two programs it is
  nextId,          \* server -> nextId_
  forwarded,       \* server -> outstandings_: set of [id, origId, client]
  current,         \* the backend to try next
  drops

balancerVars == <<channelVars, balancer, conn, nextId, forwarded, current, drops>>

BalancerInit ==
  /\ ChannelInit
  /\ balancer \in BalancerKinds
  /\ conn = [s \in Servers |-> FALSE] /\ nextId = [s \in Servers |-> 0]
  /\ forwarded = [s \in Servers |-> {}] /\ current = 1 /\ drops = 0

-----------------------------------------------------------------------------
\* RawMessage::parse() takes a message whose checksum is right; any other would go
\* to the codec's own callback, and NoneIsCorrupt says that there is none.
parse(m) == m.sum = m.id

\* RawMessage::updateId(), and encoding anew, of message m under id i.
updateId_KeepsChecksum(m, i) == [m EXCEPT !.id = i]
updateId(m, i) == [m EXCEPT !.id = i, !.sum = i]
Encode(m, i) == Message(i, m.data)

\* What the balancer's two sendTo() put on the wire.
Renamed(m, i) == IF balancer = "raw" THEN updateId(m, i) ELSE Encode(m, i)

\* The backend that onMessageT() ends with, and where it starts next time: the
\* first connected one from current on, in a ring.
Nth(i) == ((current - 1 + i) % Cardinality(Servers)) + 1
Tried == {i \in 0 .. Cardinality(Servers) - 1 : conn[Nth(i)] /\ \A j \in 0 .. i - 1 : ~conn[Nth(j)]}

\* BackendSession::send() to s of the request m of channel c.
send(s, m, c) ==
  LET n == nextId[s] + 1
  IN  /\ nextId' = [nextId EXCEPT ![s] = n]
      /\ forwarded' = [forwarded EXCEPT ![s] = @ \cup {[id |-> n, origId |-> m.id, client |-> c]}]
      /\ arriving' = [arriving EXCEPT ![s] = Append(@, Renamed(m, n))]

\* The Balancer's message callback.  Without a backend the request is dropped.
Dispatch(c) ==
  /\ request[c] # <<>>
  /\ request' = [request EXCEPT ![c] = Tail(@)]
  /\ LET m == Head(request[c])
     IN  IF Tried = {} THEN UNCHANGED <<arriving, nextId, forwarded, current>>
         ELSE \E i \in Tried :
                /\ current' = (Nth(i) % Cardinality(Servers)) + 1
                /\ send(Nth(i), m, c)
  /\ UNCHANGED <<id, outstandings, gone, call, response, pending, stale, leaving, balancer, conn, drops>>

parsed_onRpcMessage(c) == balancer = "parsed" /\ Dispatch(c)
raw_onRawMessage(c) == balancer = "raw" /\ Dispatch(c) /\ parse(Head(request[c]))

\* The BackendSession's message callback.  The client is held weakly.
SendBack(s) ==
  /\ conn[s] /\ leaving[s] # <<>>
  /\ leaving' = [leaving EXCEPT ![s] = Tail(@)]
  /\ LET m     == Head(leaving[s])
         found == {r \in forwarded[s] : r.id = m.id}
     IN  /\ forwarded' = [forwarded EXCEPT ![s] = @ \ found]
         /\ response' = [c \in Channels |->
              IF c \notin gone /\ \E r \in found : r.client = c
                THEN Append(response[c], Renamed(m, (CHOOSE r \in found : r.client = c).origId))
                ELSE response[c]]
  /\ UNCHANGED <<id, outstandings, gone, call, request, arriving, pending, stale, balancer, conn, nextId, current, drops>>

parsed_session_onRpcMessage(s) == balancer = "parsed" /\ SendBack(s)
raw_session_onRawMessage(s) == balancer = "raw" /\ SendBack(s) /\ parse(Head(leaving[s]))

\* BackendSession::onConnection(), and RpcServer's at the other end, which destroys the
\* RpcChannel but none of the closures bound to it.  What was under way is lost; the
\* entries stay, and the ids go on from where they were.
NextIdAfter_Restarts(s) == 0
NextIdAfter(s) == nextId[s]

backendDisconnected(s) ==
  /\ conn[s] /\ drops < MaxDrops
  /\ drops' = drops + 1
  /\ conn' = [conn EXCEPT ![s] = FALSE]
  /\ arriving' = [arriving EXCEPT ![s] = <<>>] /\ leaving' = [leaving EXCEPT ![s] = <<>>]
  /\ stale' = [stale EXCEPT ![s] = pending[s]]
  /\ UNCHANGED <<id, outstandings, gone, call, request, response, pending, balancer, nextId, forwarded, current>>

lateDoneCrashes(s) ==
  /\ stale[s] # {}
  /\ conn' = [conn EXCEPT ![s] = FALSE]
  /\ arriving' = [arriving EXCEPT ![s] = <<>>] /\ leaving' = [leaving EXCEPT ![s] = <<>>]
  /\ pending' = [pending EXCEPT ![s] = {}] /\ stale' = [stale EXCEPT ![s] = {}]
  /\ UNCHANGED <<id, outstandings, gone, call, request, response, balancer, nextId, forwarded, current, drops>>

backendConnected(s) ==
  /\ ~conn[s]
  /\ conn' = [conn EXCEPT ![s] = TRUE]
  /\ nextId' = [nextId EXCEPT ![s] = NextIdAfter(s)]
  /\ UNCHANGED <<channelVars, balancer, forwarded, current, drops>>

BalancerNext ==
  \/ ChannelNext /\ UNCHANGED <<balancer, conn, nextId, forwarded, current, drops>>
  \/ \E c \in Channels : parsed_onRpcMessage(c) \/ raw_onRawMessage(c)
  \/ \E s \in Servers : parsed_session_onRpcMessage(s) \/ raw_session_onRawMessage(s)
                       \/ backendDisconnected(s) \/ backendConnected(s) \/ lateDoneCrashes(s)

BalancerSpec == BalancerInit /\ [][BalancerNext]_balancerVars

-----------------------------------------------------------------------------
Answer(k) == IF k \in Faulty THEN Error(k) ELSE k

\* A call is completed by the response to its own request and by no other, though
\* channels use the same ids, servers answer in any order, a backend connection is lost and
\* made again under way, and a closure may then answer by the channel that came after its
\* own (RpcChannel.cc:96, RpcServer.cc:58, balancer_raw.cc:151).
CallGetsOwnAnswer == \A k \in Calls : call[k].st = "done" => call[k].result = Answer(k)

\* A caller's closure runs or is deleted, never both and never twice: a call that has ended
\* is no longer outstanding, and one that has not is.  It may stay so for ever: a request
\* without a backend, or lost with one, is never answered (balancer.cc:75, :202).
CompletedOnce ==
  /\ \A c \in Channels : \A o \in outstandings[c] : call[o.call].st \in {"registered", "sent"}
  /\ \A k \in Calls : call[k].st \in {"registered", "sent"} =>
       \E o \in outstandings[ChannelOf[k]] : o.call = k

\* Whatever balancer_raw has rewritten in place, no message is under way whose
\* checksum the next codec would refuse (balancer_raw.cc:55).
SumsAreRight(q) == \A m \in Range(q) : m.sum = m.id

NoneIsCorrupt ==
  /\ \A c \in Channels : SumsAreRight(request[c]) /\ SumsAreRight(response[c])
  /\ \A s \in Servers : SumsAreRight(arriving[s]) /\ SumsAreRight(leaving[s])

\* A call across the balancer ends at most once and only with its own answer, and every
\* message can be read where it arrives.
CallsAnsweredOnce == CallGetsOwnAnswer /\ CompletedOnce /\ NoneIsCorrupt
=============================================================================
