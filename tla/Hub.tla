--------------------------------- MODULE Hub ---------------------------------
(***************************************************************************)
(* PubSubServer and PubSubClient (examples/hub).  Every client has one     *)
(* connection; requests and publications travel in order.  Messages are as *)
(* parseMessage delivers them (module Streams).                            *)
(***************************************************************************)
EXTENDS Naturals, Sequences, SequencesExt, FiniteSets, FiniteSetsExt

CONSTANTS Clients, Topics,
          MaxRequests,     \* requests of one client
          MaxTicks         \* runs of timePublish

VARIABLES
  state,        \* per client: "idle", "up", "stopped", "gone"
  requests,     \* number of requests each client sent
  toServer,     \* messages and the final FIN on their way to the hub
  connSub,      \* the connection's context: topics it subscribed
  audiences,    \* Topic::audiences_
  lastPub,      \* Topic::content_, 0 when lastPubTime_ is not valid
  toClient,     \* publications on their way to the client
  received,     \* what subscribeCallback_ was given, per client and topic
  log           \* contents in the order the hub published them, per topic

vars == <<state, requests, toServer, connSub, audiences, lastPub, toClient, received, log>>

Init ==
  /\ state = [c \in Clients |-> "idle"]
  /\ requests = [c \in Clients |-> 0]
  /\ toServer = [c \in Clients |-> <<>>]
  /\ connSub = [c \in Clients |-> {}]
  /\ audiences = [t \in Topics |-> {}]
  /\ lastPub = [t \in Topics |-> 0]
  /\ toClient = [c \in Clients |-> <<>>]
  /\ received = [c \in Clients |-> [t \in Topics |-> <<>>]]
  /\ log = [t \in Topics |-> <<>>]

-----------------------------------------------------------------------------
(* The client.                                                             *)

\* onConnection with connected(): conn_ is set.
connect(c) ==
  /\ state[c] = "idle"
  /\ state' = [state EXCEPT ![c] = "up"]
  /\ UNCHANGED <<requests, toServer, connSub, audiences, lastPub, toClient, received, log>>

\* subscribe(), unsubscribe() and publish(): send() only when connected().
request(c, cmd, t) ==
  /\ state[c] = "up" /\ requests[c] < MaxRequests
  /\ requests' = [requests EXCEPT ![c] = @ + 1]
  /\ toServer' = [toServer EXCEPT ![c] = Append(@, [cmd |-> cmd, topic |-> t])]
  /\ UNCHANGED <<state, connSub, audiences, lastPub, toClient, received, log>>

\* stop(): disconnect() half-closes after what was sent.
stop(c) ==
  /\ state[c] = "up"
  /\ state' = [state EXCEPT ![c] = "stopped"]
  /\ toServer' = [toServer EXCEPT ![c] = Append(@, [cmd |-> "FIN"])]
  /\ UNCHANGED <<requests, connSub, audiences, lastPub, toClient, received, log>>

\* PubSubClient::onMessage.
clientMessage(c) ==
  /\ toClient[c] # <<>>
  /\ LET m == Head(toClient[c])
     IN  received' = [received EXCEPT ![c][m.topic] = Append(@, m.content)]
  /\ toClient' = [toClient EXCEPT ![c] = Tail(@)]
  /\ UNCHANGED <<state, requests, toServer, connSub, audiences, lastPub, log>>

-----------------------------------------------------------------------------
(* The hub.                                                                *)

Message(t, content) == [topic |-> t, content |-> content]

\* Topic::publish with the next content: everyone in the audience gets it.
publish(t) ==
  LET content == Len(log[t]) + 1
  IN  /\ lastPub' = [lastPub EXCEPT ![t] = content]
      /\ log' = [log EXCEPT ![t] = Append(@, content)]
      /\ toClient' = [c \in Clients |->
           IF c \in audiences[t] THEN Append(toClient[c], Message(t, content)) ELSE toClient[c]]

doPublish(t) == publish(t) /\ UNCHANGED <<connSub, audiences>>

Welcome_Always(c, t) == Append(toClient[c], Message(t, lastPub[t]))

\* Topic::add sends the last publication, when there was one.
Welcome(c, t) ==
  IF lastPub[t] # 0 THEN Append(toClient[c], Message(t, lastPub[t])) ELSE toClient[c]

doSubscribe(c, t) ==
  /\ connSub' = [connSub EXCEPT ![c] = @ \cup {t}]
  /\ audiences' = [audiences EXCEPT ![t] = @ \cup {c}]
  /\ toClient' = [toClient EXCEPT ![c] = Welcome(c, t)]
  /\ UNCHANGED <<lastPub, log>>

doUnsubscribe(c, t) ==
  /\ audiences' = [audiences EXCEPT ![t] = @ \ {c}]
  /\ connSub' = [connSub EXCEPT ![c] = @ \ {t}]
  /\ UNCHANGED <<toClient, lastPub, log>>

\* onConnection without connected(): every subscription of the connection.
Audience_KeepsAll(t, c) == audiences[t]

Audience(t, c) == IF t \in connSub[c] THEN audiences[t] \ {c} ELSE audiences[t]

onDisconnect(c) ==
  /\ audiences' = [t \in Topics |-> Audience(t, c)]
  /\ connSub' = [connSub EXCEPT ![c] = {}]
  /\ state' = [state EXCEPT ![c] = "gone"]
  /\ UNCHANGED <<toClient, lastPub, log>>

\* PubSubServer::onMessage, one parsed message; the end of the stream closes.
onMessage(c) ==
  /\ toServer[c] # <<>>
  /\ LET m == Head(toServer[c])
     IN  \/ m.cmd = "pub" /\ doPublish(m.topic) /\ UNCHANGED state
         \/ m.cmd = "sub" /\ doSubscribe(c, m.topic) /\ UNCHANGED state
         \/ m.cmd = "unsub" /\ doUnsubscribe(c, m.topic) /\ UNCHANGED state
         \/ m.cmd = "FIN" /\ onDisconnect(c)
  /\ toServer' = [toServer EXCEPT ![c] = Tail(@)]
  /\ UNCHANGED <<requests, received>>

\* The timer's publication; utc_time is one of the topics.
timePublish(t) ==
  /\ Len(log[t]) < MaxTicks
  /\ doPublish(t)
  /\ UNCHANGED <<state, requests, toServer, received>>

Next ==
  \/ \E c \in Clients :
       \/ connect(c) \/ stop(c) \/ clientMessage(c) \/ onMessage(c)
       \/ \E t \in Topics, cmd \in {"pub", "sub", "unsub"} : request(c, cmd, t)
  \/ \E t \in Topics : timePublish(t)

Spec == Init /\ [][Next]_vars

-----------------------------------------------------------------------------
\* The two records of a subscription, the connection's context and the topic's
\* audience, always agree, and a closed connection is in no audience: nothing
\* is sent to it and its subscriptions are not leaked (hub.cc:98, 160, 168).
SubscriptionsAgree ==
  \A c \in Clients, t \in Topics :
    /\ (t \in connSub[c]) = (c \in audiences[t])
    /\ state[c] \in {"idle", "gone"} => connSub[c] = {}

\* A subscriber never sees an older publication after a newer one, and once
\* everything has arrived it has the latest one of each topic it subscribed,
\* whether that was published before or after it subscribed (hub.cc:32, 43).
SubscriberIsCurrent ==
  \A c \in Clients, t \in Topics :
    LET seen == received[c][t] \o [i \in 1 .. Len(SelectSeq(toClient[c], LAMBDA m : m.topic = t)) |->
                                     SelectSeq(toClient[c], LAMBDA m : m.topic = t)[i].content]
    IN  /\ \A i \in 1 .. Len(seen) - 1 : seen[i] <= seen[i + 1]
        /\ t \in connSub[c] /\ log[t] # <<>> => seen # <<>> /\ Last(seen) = Last(log[t])
        /\ \A i \in DOMAIN seen : seen[i] # 0

-----------------------------------------------------------------------------
(***************************************************************************)
(* examples/asio/chat: four chat servers that send every message to every  *)
(* connection.  server has one thread; server_threaded holds a mutex while *)
(* it sends; server_threaded_efficient copies its list of connections on   *)
(* write and reads it without the mutex; server_threaded_highperformance   *)
(* has a list per thread and queues the message in every loop.             *)
(***************************************************************************)
CONSTANTS
  Kinds,         \* single, threaded, efficient, highperformance
  Threads,       \* the I/O threads
  Conns,         \* bound: connections
  Home,          \* connection -> its thread
  None,          \* no list
  MaxMessages,   \* bound: messages
  MaxChanges     \* bound: connections that come and go

VARIABLES
  kind,
  up,            \* connections that are up
  heap,          \* the lists ever made: a sequence of sets of connections
  connections,   \* connections_: the current list, an index into heap
  locals,        \* thread -> its LocalConnections
  walk,          \* thread -> the send loop it is in, [list, seen, todo, msg], or None
  functors,      \* thread -> its loop's pending functors, [to, msg]; to = None: distributeMessage
  got,           \* connection -> the messages sent on it
  messages,      \* messages received so far
  changes        \* connections that came or went

chatVars == <<kind, up, heap, connections, locals, walk, functors, got, messages, changes>>

ThreadOf(c) == IF kind = "single" THEN CHOOSE t \in Threads : TRUE ELSE Home[c]

ChatInit ==
  /\ kind \in Kinds
  /\ up = Conns
  /\ heap = <<Conns>> /\ connections = 1
  /\ locals = [t \in Threads |-> {c \in Conns : ThreadOf(c) = t}]
  /\ walk = [t \in Threads |-> None]
  /\ functors = [t \in Threads |-> <<>>]
  /\ got = [c \in Conns |-> <<>>]
  /\ messages = 0 /\ changes = 0

-----------------------------------------------------------------------------
\* codec_.send() of msg by thread t on each connection of cs: at once on those of
\* its own loop, through a functor on the others; nothing on one that is down.
SendTo(cs, t, msg) ==
  /\ got' = [c \in Conns |-> IF c \in cs /\ c \in up /\ ThreadOf(c) = t THEN Append(got[c], msg) ELSE got[c]]
  /\ functors' = [u \in Threads |->
       IF u = t THEN functors[u]
       ELSE functors[u] \o SetToSeq({[to |-> c, msg |-> msg] : c \in {d \in cs \cap up : ThreadOf(d) = u}})]

\* boost::shared_ptr::unique(): no loop is walking the list.
Unique_Assumed(list) == TRUE
Unique(list) == \A t \in Threads : walk[t] = None \/ walk[t].list # list

\* onConnection(), for a connection that comes up or goes down.
Updated(set, c, connected) == IF connected THEN set \cup {c} ELSE set \ {c}

efficient_onConnection(c, connected) ==
  LET fresh == Updated(heap[connections], c, connected)
  IN  /\ IF Unique(connections)
         THEN heap' = [heap EXCEPT ![connections] = fresh] /\ UNCHANGED connections
         ELSE heap' = Append(heap, fresh) /\ connections' = Len(heap) + 1
      /\ UNCHANGED locals

threaded_onConnection(c, connected) ==
  /\ heap' = [heap EXCEPT ![connections] = Updated(@, c, connected)]
  /\ UNCHANGED <<connections, locals>>

single_onConnection(c, connected) ==
  /\ heap' = [heap EXCEPT ![connections] = Updated(@, c, connected)]
  /\ UNCHANGED <<connections, locals>>

highperformance_onConnection(c, connected) ==
  /\ locals' = [locals EXCEPT ![ThreadOf(c)] = Updated(@, c, connected)]
  /\ UNCHANGED <<heap, connections>>

Connection(c) ==
  /\ changes < MaxChanges /\ walk[ThreadOf(c)] = None
  /\ changes' = changes + 1
  /\ up' = IF c \in up THEN up \ {c} ELSE up \cup {c}
  /\ CASE kind = "efficient" -> efficient_onConnection(c, c \notin up)
       [] kind = "threaded" -> threaded_onConnection(c, c \notin up)
       [] kind = "single" -> single_onConnection(c, c \notin up)
       [] kind = "highperformance" -> highperformance_onConnection(c, c \notin up)
  /\ UNCHANGED <<kind, walk, functors, got, messages>>

-----------------------------------------------------------------------------
\* onStringMessage(), for message msg that arrives on a connection of thread t.
single_onStringMessage(t, msg) == SendTo(heap[connections], t, msg) /\ UNCHANGED walk
threaded_onStringMessage(t, msg) == SendTo(heap[connections], t, msg) /\ UNCHANGED walk

getConnectionList(t, msg) ==
  /\ walk' = [walk EXCEPT ![t] =
       [list |-> connections, seen |-> heap[connections], todo |-> heap[connections], msg |-> msg]]
  /\ UNCHANGED <<got, functors>>

Loops_OnlyOthers(t) == Threads \ {t}
Loops(t) == Threads

highperformance_onStringMessage(t, msg) ==
  /\ functors' = [u \in Threads |-> IF u \in Loops(t)
                                    THEN Append(functors[u], [to |-> None, msg |-> msg]) ELSE functors[u]]
  /\ UNCHANGED <<got, walk>>

ChatMessage(c) ==
  /\ c \in up /\ messages < MaxMessages /\ walk[ThreadOf(c)] = None
  /\ messages' = messages + 1
  /\ CASE kind = "single" -> single_onStringMessage(ThreadOf(c), messages + 1)
       [] kind = "threaded" -> threaded_onStringMessage(ThreadOf(c), messages + 1)
       [] kind = "efficient" -> getConnectionList(ThreadOf(c), messages + 1)
       [] kind = "highperformance" -> highperformance_onStringMessage(ThreadOf(c), messages + 1)
  /\ UNCHANGED <<kind, up, heap, connections, locals, changes>>

\* The send loop of server_threaded_efficient, one connection at a time, and the
\* end of it, where the list is let go.
efficient_onStringMessage(t) ==
  /\ walk[t] # None
  /\ IF walk[t].todo = {}
     THEN walk' = [walk EXCEPT ![t] = None] /\ UNCHANGED <<got, functors>>
     ELSE \E c \in walk[t].todo : /\ SendTo({c}, t, walk[t].msg)
                                  /\ walk' = [walk EXCEPT ![t].todo = @ \ {c}]
  /\ UNCHANGED <<kind, up, heap, connections, locals, messages, changes>>

\* A loop runs its first functor: sendInLoop(), or distributeMessage().
distributeMessage(t, msg) ==
  got' = [c \in Conns |-> IF c \in locals[t] /\ c \in up THEN Append(got[c], msg) ELSE got[c]]

runFunctor(t) ==
  /\ functors[t] # <<>> /\ walk[t] = None
  /\ functors' = [functors EXCEPT ![t] = Tail(@)]
  /\ LET f == Head(functors[t])
     IN  IF f.to = None THEN distributeMessage(t, f.msg)
         ELSE got' = IF f.to \in up THEN [got EXCEPT ![f.to] = Append(@, f.msg)] ELSE got
  /\ UNCHANGED <<kind, up, heap, connections, locals, walk, messages, changes>>

ChatNext ==
  \/ \E c \in Conns : Connection(c) \/ ChatMessage(c)
  \/ \E t \in Threads : efficient_onStringMessage(t) \/ runFunctor(t)

ChatSpec == ChatInit /\ [][ChatNext]_chatVars

-----------------------------------------------------------------------------
\* A list that some thread walks without the mutex is not changed under it, and no
\* connection of the current list is one that is down (server_threaded_efficient.cc:54).
WalkedListIsStable ==
  /\ \A t \in Threads : walk[t] # None => heap[walk[t].list] = walk[t].seen
  /\ (IF kind = "highperformance" THEN UNION {locals[t] : t \in Threads} ELSE heap[connections]) = up

\* A connection that stays up gets every message once; and where the message goes
\* through every loop under one mutex, or there is one loop, any two connections
\* see the messages in the same order (server_threaded_highperformance.cc:68).
EveryoneSeesTheSame ==
  LET Before(c, m, n) == \E i, j \in DOMAIN got[c] : i < j /\ got[c][i] = m /\ got[c][j] = n
      Settled == \A t \in Threads : functors[t] = <<>> /\ walk[t] = None
  IN  /\ \A c \in Conns : \A i, j \in DOMAIN got[c] : i # j => got[c][i] # got[c][j]
      /\ Settled /\ changes = 0 => \A c \in Conns : ToSet(got[c]) = 1 .. messages
      /\ kind \in {"single", "highperformance"} =>
           \A c, d \in Conns : \A m, n \in 1 .. messages : Before(c, m, n) => ~Before(d, n, m)
=============================================================================
