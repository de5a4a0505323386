---------------------------- MODULE Multiplexer -----------------------------
(***************************************************************************)
(* examples/multiplexer: many client connections over one to a backend.    *)
(* Each client is given an id; its data goes out in packets that carry it, *)
(* and commands go out with id 0.  multiplexer_simple has one thread; in   *)
(* multiplexer the clients' threads and the backend's share a mutex, so    *)
(* what a client's callback does is two steps there.  A lost link to the   *)
(* backend is made again; clients of the old one may still be there.       *)
(* A packet is [id, what, c, data]: id 0 with what UP, DOWN or DISCONNECT  *)
(* about id c, or id with what DATA.                                       *)
(***************************************************************************)
EXTENDS Naturals, Sequences, FiniteSets, FiniteSetsExt, SequencesExt

CONSTANTS
  Kinds,           \* simple, threaded
  Clients,         \* bound: client connections, each made once
  MaxConns,        \* bound: the number of ids
  kMaxPacketLen,   \* 255 in the code
  MaxBytes,        \* bound: bytes of all clients
  MaxIds           \* bound: ids that all links to the backend have between them

VARIABLES
  kind,
  kMaxConns,       \* the number of ids, 10 in multiplexer_simple
  state,           \* client -> new, taken (has an id that is not announced), up, shut, leaving,
                   \* down; takenShut is both taken and shut
  ctx,             \* client -> its context, an id, or 0
  linkOf,          \* client -> the link during which it was given its id
  availIds,        \* a queue
  clientConns,     \* id -> the client, or 0 for none
  backendUp,       \* backendConn_ is set
  toDemux, toMux,  \* the packets under way
  sent,            \* client -> bytes it has sent
  got,             \* client -> bytes it was sent
  told,            \* id -> what the present link was last told of it: UP, DATA, DOWN
  orderly,         \* whether it was told in order
  links,           \* how many links there have been
  clean            \* when the present one came up, no client with an id was there

muxVars == <<kind, kMaxConns, state, ctx, linkOf, availIds, clientConns, backendUp, toDemux, toMux, sent, got,
             told, orderly, links, clean>>

Ids == 1 .. MaxConns
Packet(id, what, c, data) == [id |-> id, what |-> what, c |-> c, data |-> data]

MuxInit ==
  /\ kind \in Kinds /\ kMaxConns \in 1 .. MaxConns
  /\ state = [c \in Clients |-> "new"] /\ ctx = [c \in Clients |-> 0]
  /\ linkOf = [c \in Clients |-> 0] /\ clean = TRUE
  /\ availIds = <<>> /\ clientConns = [i \in Ids |-> 0]
  /\ backendUp = FALSE /\ toDemux = <<>> /\ toMux = <<>>
  /\ sent = [c \in Clients |-> <<>>] /\ got = [c \in Clients |-> <<>>]
  /\ told = [i \in Ids |-> "DOWN"] /\ orderly = TRUE /\ links = 0

-----------------------------------------------------------------------------
\* sendBackendPacket() and its callers: nothing is sent while there is no backend.
sendBackendPackets(ps) ==
  LET id == IF ps[1].id = 0 THEN ps[1].c ELSE ps[1].id
  IN  IF ~backendUp THEN UNCHANGED <<toDemux, told, orderly>>
      ELSE /\ toDemux' = toDemux \o ps
           /\ told' = [told EXCEPT ![id] = ps[1].what]
           /\ orderly' = (orderly /\ (told[id] = "DOWN" <=> ps[1].what = "UP"))

sendBackendString(what, id) == sendBackendPackets(<<Packet(0, what, id, <<>>)>>)

\* sendBackendBuffer(): packets of at most kMaxPacketLen bytes.
Split(data) ==
  [i \in 1 .. (Len(data) + kMaxPacketLen - 1) \div kMaxPacketLen |->
     SubSeq(data, (i - 1) * kMaxPacketLen + 1,
            IF i * kMaxPacketLen < Len(data) THEN i * kMaxPacketLen ELSE Len(data))]

sendBackendBuffer(id, data) ==
  sendBackendPackets([i \in DOMAIN Split(data) |-> Packet(id, "DATA", 0, Split(data)[i])])

\* onBackendConnection().  The demultiplexer has noticed the end of the last link.
Connected(c) == state[c] \notin {"new", "down"}
HasId(c) == Connected(c) /\ ctx[c] # 0

backendConnected ==
  /\ ~backendUp /\ (links + 1) * kMaxConns <= MaxIds
  /\ backendUp' = TRUE /\ links' = links + 1
  /\ clean' = (\A c \in Clients : ~HasId(c))
  /\ availIds' = availIds \o [i \in 1 .. kMaxConns |-> i]
  /\ toDemux' = <<>> /\ toMux' = <<>> /\ told' = [i \in Ids |-> "DOWN"] /\ orderly' = TRUE
  /\ UNCHANGED <<kind, kMaxConns, state, ctx, linkOf, clientConns, sent, got>>

\* Every connection in clientConns_ is shut down.
backendDisconnected ==
  /\ backendUp
  /\ backendUp' = FALSE
  /\ state' = [c \in Clients |->
       IF \A i \in Ids : clientConns[i] # c THEN state[c]
       ELSE IF state[c] = "up" THEN "shut" ELSE IF state[c] = "taken" THEN "takenShut" ELSE state[c]]
  /\ clientConns' = [i \in Ids |-> 0] /\ availIds' = <<>> /\ toMux' = <<>>
  /\ UNCHANGED <<kind, kMaxConns, ctx, linkOf, toDemux, sent, got, told, orderly, links, clean>>

\* onClientConnection(), connected: an id is taken under the mutex, then announced; simple
\* does both at once.  Clients are numbered as they connect.
ClientUp(c) ==
  /\ state[c] = "new" /\ \A d \in Clients : d < c => state[d] # "new"
  /\ IF availIds = <<>>
     THEN state' = [state EXCEPT ![c] = "shut"]
          /\ UNCHANGED <<ctx, linkOf, availIds, clientConns, toDemux, told, orderly>>
     ELSE /\ ctx' = [ctx EXCEPT ![c] = Head(availIds)] /\ linkOf' = [linkOf EXCEPT ![c] = links]
          /\ availIds' = Tail(availIds)
          /\ clientConns' = [clientConns EXCEPT ![Head(availIds)] = c]
          /\ IF kind = "simple"
             THEN state' = [state EXCEPT ![c] = "up"] /\ sendBackendString("UP", Head(availIds))
             ELSE state' = [state EXCEPT ![c] = "taken"] /\ UNCHANGED <<toDemux, told, orderly>>
  /\ UNCHANGED <<kind, kMaxConns, backendUp, toMux, sent, got, links, clean>>

ClientAnnounced(c) ==
  /\ state[c] \in {"taken", "takenShut"}
  /\ state' = [state EXCEPT ![c] = IF @ = "taken" THEN "up" ELSE "shut"]
  /\ sendBackendString("UP", ctx[c])
  /\ UNCHANGED <<kind, kMaxConns, ctx, linkOf, availIds, clientConns, backendUp, toMux, sent, got, links, clean>>

\* onClientConnection(), disconnected: first the command, then the id goes back.
\* simple does both at once; another thread may act between them in the other one.
GiveBack(id) ==
  IF backendUp THEN /\ availIds' = Append(availIds, id)
                    /\ clientConns' = [clientConns EXCEPT ![id] = 0]
               ELSE UNCHANGED <<availIds, clientConns>>

FirstHalf_GivesBack(id) == GiveBack(id) /\ UNCHANGED <<toDemux, told, orderly>>
FirstHalf(id) == sendBackendString("DOWN", id) /\ UNCHANGED <<availIds, clientConns>>

SecondHalf(id) == GiveBack(id) /\ UNCHANGED <<toDemux, told, orderly>>

ClientDown(c) ==
  /\ state[c] \in {"up", "shut"}
  /\ CASE ctx[c] = 0 ->
            state' = [state EXCEPT ![c] = "down"] /\ UNCHANGED <<toDemux, told, orderly, availIds, clientConns>>
       [] ctx[c] # 0 /\ kind = "simple" ->
            /\ state' = [state EXCEPT ![c] = "down"]
            /\ sendBackendString("DOWN", ctx[c]) /\ GiveBack(ctx[c])
       [] ctx[c] # 0 /\ kind = "threaded" ->
            state' = [state EXCEPT ![c] = "leaving"] /\ FirstHalf(ctx[c])
  /\ UNCHANGED <<kind, kMaxConns, ctx, linkOf, backendUp, toMux, sent, got, links, clean>>

ClientGone(c) ==
  /\ state[c] = "leaving"
  /\ state' = [state EXCEPT ![c] = "down"]
  /\ SecondHalf(ctx[c])
  /\ UNCHANGED <<kind, kMaxConns, ctx, linkOf, backendUp, toMux, sent, got, links, clean>>

\* onClientMessage(): data of a client without an id is thrown away.
onClientMessage(c, n) ==
  /\ state[c] \in {"up", "shut"} /\ n + MapThenSumSet(LAMBDA d : Len(sent[d]), Clients) <= MaxBytes
  /\ LET data == [i \in 1 .. n |-> <<c, Len(sent[c]) + i>>]
     IN  /\ sent' = [sent EXCEPT ![c] = @ \o data]
         /\ IF ctx[c] # 0 THEN sendBackendBuffer(ctx[c], data) ELSE UNCHANGED <<toDemux, told, orderly>>
  /\ UNCHANGED <<kind, kMaxConns, state, ctx, linkOf, availIds, clientConns, backendUp, toMux, got, links, clean>>

\* onBackendMessage(), sendToClient() and doCommand(), for one packet.
doCommand(p) ==
  /\ state' = IF kind = "simple" /\ p.what = "DISCONNECT" /\ clientConns[p.c] # 0 /\ state[clientConns[p.c]] = "up"
                THEN [state EXCEPT ![clientConns[p.c]] = "shut"] ELSE state
  /\ UNCHANGED got

sendToClient(p) ==
  LET c == clientConns[p.id]
  IN  /\ got' = IF c # 0 /\ state[c] \in {"up", "taken"} THEN [got EXCEPT ![c] = @ \o p.data] ELSE got
      /\ UNCHANGED state

onBackendMessage ==
  /\ backendUp /\ toMux # <<>>
  /\ toMux' = Tail(toMux)
  /\ IF Head(toMux).id = 0 THEN doCommand(Head(toMux)) ELSE sendToClient(Head(toMux))
  /\ UNCHANGED <<kind, kMaxConns, ctx, linkOf, availIds, clientConns, backendUp, toDemux, sent, told, orderly, links, clean>>

\* The handlers of multiplexer_simple, on one thread, and of multiplexer.
simple_onClientConnection(c) == kind = "simple" /\ (ClientUp(c) \/ ClientDown(c))
simple_onClientMessage(c, n) == kind = "simple" /\ onClientMessage(c, n)
simple_onBackendConnection == kind = "simple" /\ (backendConnected \/ backendDisconnected)
simple_onBackendMessage == kind = "simple" /\ onBackendMessage

threaded_onClientConnection(c) == kind = "threaded" /\ (ClientUp(c) \/ ClientAnnounced(c) \/ ClientDown(c) \/ ClientGone(c))
threaded_onClientMessage(c, n) == kind = "threaded" /\ onClientMessage(c, n)
threaded_onBackendConnection == kind = "threaded" /\ (backendConnected \/ backendDisconnected)
threaded_onBackendMessage == kind = "threaded" /\ onBackendMessage

MuxNext ==
  \/ simple_onBackendConnection \/ simple_onBackendMessage
  \/ threaded_onBackendConnection \/ threaded_onBackendMessage
  \/ \E c \in Clients :
       \/ simple_onClientConnection(c) \/ threaded_onClientConnection(c)
       \/ \E n \in 1 .. MaxBytes : simple_onClientMessage(c, n) \/ threaded_onClientMessage(c, n)

-----------------------------------------------------------------------------
\* On every link that comes up when no client of an earlier one is left, no two clients
\* have the same id, an id is either free or a client's, and what the backend is told of an
\* id alternates: up, then data, then down, before it is up again (multiplexer.cc:170).
\* Without a link there are no ids (multiplexer.cc:192, :227).  A client that is left from
\* an earlier link spoils the next: when it goes, it gives back an id that it no longer
\* has, and takes the entry of the one that has it (multiplexer.cc:187).
IdsAreKeptApart ==
  /\ ~backendUp => availIds = <<>> /\ \A i \in Ids : clientConns[i] = 0
  /\ backendUp /\ clean =>
       /\ IsInjective(availIds)
       /\ \A i \in Ids : i \in ToSet(availIds) => clientConns[i] = 0
       /\ \A c \in Clients : HasId(c) /\ linkOf[c] = links => clientConns[ctx[c]] = c
       /\ orderly

-----------------------------------------------------------------------------
(***************************************************************************)
(* examples/multiplexer/demux: the other end of the multiplexer's link.    *)
(* Each id that comes up gets a connection of its own to a socks server;   *)
(* data that comes before that connection is up waits in the entry.        *)
(* One thread.  An assertion that fails ends the program.  A second link   *)
(* while there is one, which demux shuts down, is not modelled.            *)
(***************************************************************************)
CONSTANT MaxReply   \* bound: bytes the socks servers send during a link

VARIABLES
  serverUp,        \* serverConn_ is set
  served,          \* how many links demux has served
  closing,         \* ids of socks connections that are being closed and have no entry
  socksConns,      \* id -> [conn, pending], conn none if there is no entry
  received,        \* id -> bytes its socks connection was sent
  replied,         \* id -> bytes the socks server has sent
  failed           \* an assertion has failed

demux == <<serverUp, served, closing, socksConns, received, replied, failed>>

NoEntry == [conn |-> "none", pending |-> <<>>]

DemuxInit ==
  /\ serverUp = FALSE /\ served = 0 /\ closing = {}
  /\ socksConns = [i \in Ids |-> NoEntry]
  /\ received = [i \in Ids |-> <<>>] /\ replied = [i \in Ids |-> 0]
  /\ failed = FALSE

sendServerPacket(p) == toMux' = IF serverUp /\ backendUp THEN Append(toMux, p) ELSE toMux

\* onSocksMessage() cuts its data as sendBackendBuffer() does.
Chunks(data) == Split(data)

\* doCommand() of demux: IS UP makes an entry and connects; IS DOWN shuts its connection down,
\* or drops the entry when there is none yet.
demuxCommand(p) ==
  LET e == socksConns[p.c]
  IN  IF p.what = "UP"
      THEN /\ failed' = (e # NoEntry)
           /\ socksConns' = [socksConns EXCEPT ![p.c] = [conn |-> "connecting", pending |-> <<>>]]
      ELSE /\ failed' = (e = NoEntry)
           /\ socksConns' = [socksConns EXCEPT ![p.c] =
                IF e.conn = "up" THEN [@ EXCEPT !.conn = "shut"]
                ELSE IF e.conn \in {"shut", "down"} THEN @ ELSE NoEntry]

\* onServerMessage(), for one packet.
Waits_Never(e) == FALSE
Waits(e) == e.conn = "connecting"

Data(p) ==
  LET e == socksConns[p.id]
  IN  /\ failed' = (e = NoEntry \/ (~Waits(e) /\ e.pending # <<>>))
      /\ socksConns' = IF Waits(e) THEN [socksConns EXCEPT ![p.id].pending = @ \o p.data] ELSE socksConns
      /\ received' = IF e.conn = "up" THEN [received EXCEPT ![p.id] = @ \o p.data] ELSE received

onServerMessage ==
  /\ serverUp /\ ~failed /\ toDemux # <<>>
  /\ toDemux' = Tail(toDemux)
  /\ IF Head(toDemux).id = 0 THEN demuxCommand(Head(toDemux)) /\ UNCHANGED received ELSE Data(Head(toDemux))
  /\ UNCHANGED <<toMux, serverUp, served, closing, replied>>

\* onServerConnection(), connected and disconnected.  Clearing socksConns_ destroys the
\* TcpClients, which stop connecting and force their connections closed.
ServerConnected ==
  /\ ~failed /\ ~serverUp /\ backendUp /\ served < links
  /\ serverUp' = TRUE /\ served' = links
  /\ received' = [i \in Ids |-> <<>>] /\ replied' = [i \in Ids |-> 0]
  /\ UNCHANGED <<toDemux, toMux, closing, socksConns, failed>>

Orphaned == {i \in Ids : socksConns[i].conn \in {"up", "shut"}}
onServerConnection ==
  /\ serverUp /\ ~failed
  /\ serverUp' = FALSE
  /\ closing' = Orphaned
  /\ socksConns' = [i \in Ids |-> NoEntry]
  /\ toDemux' = <<>> /\ toMux' = <<>>
  /\ UNCHANGED <<served, received, replied, failed>>

\* onSocksConnection(), or onSocksMessage(), of a connection whose entry was cleared: the
\* assertion that there is one fails.
orphanCalledBack(i) ==
  /\ ~failed /\ i \in closing
  /\ failed' = TRUE /\ closing' = closing \ {i}
  /\ UNCHANGED <<toDemux, toMux, serverUp, served, socksConns, received, replied>>

\* onSocksConnection(), connected: what has waited is sent.
socksConnected(i) ==
  /\ ~failed /\ socksConns[i].conn = "connecting"
  /\ received' = [received EXCEPT ![i] = @ \o socksConns[i].pending]
  /\ socksConns' = [socksConns EXCEPT ![i] = [conn |-> "up", pending |-> <<>>]]
  /\ UNCHANGED <<toDemux, toMux, serverUp, served, closing, replied, failed>>

\* onSocksConnection(), disconnected: the multiplexer is told, and the entry stays.
socksDisconnected(i) ==
  /\ ~failed /\ socksConns[i].conn \in {"up", "shut"}
  /\ socksConns' = [socksConns EXCEPT ![i].conn = "down"]
  /\ sendServerPacket([id |-> 0, what |-> "DISCONNECT", c |-> i, data |-> <<>>])
  /\ UNCHANGED <<toDemux, serverUp, served, closing, received, replied, failed>>

\* onSocksMessage().
onSocksMessage(i) ==
  /\ ~failed /\ socksConns[i].conn \in {"up", "shut"}
  /\ \E n \in 1 .. MaxReply - MapThenSumSet(LAMBDA j : replied[j], Ids) :
       LET cs == Chunks([j \in 1 .. n |-> <<i, replied[i] + j>>])
       IN  /\ replied' = [replied EXCEPT ![i] = @ + n]
           /\ toMux' = IF serverUp /\ backendUp
                         THEN toMux \o [j \in DOMAIN cs |-> [id |-> i, what |-> "DATA", c |-> 0, data |-> cs[j]]]
                         ELSE toMux
  /\ UNCHANGED <<toDemux, serverUp, served, closing, socksConns, received, failed>>

DemuxNext ==
  \/ onServerMessage \/ ServerConnected \/ onServerConnection
  \/ \E i \in Ids : orphanCalledBack(i) \/ socksConnected(i) \/ socksDisconnected(i) \/ onSocksMessage(i)

-----------------------------------------------------------------------------
(***************************************************************************)
(* The multiplexer and the demultiplexer joined by their link: the packets *)
(* one puts on it are the packets the other takes off.                     *)
(***************************************************************************)
vars == <<muxVars, demux>>

Init == MuxInit /\ DemuxInit

\* The multiplexer connects again when the demultiplexer has noticed that the link is lost.
\* When the demultiplexer has ended, there is nothing more to see.
Next ==
  \/ /\ MuxNext /\ UNCHANGED demux /\ ~failed
     /\ links' # links => ~serverUp /\ closing = {}
  \/ /\ DemuxNext
     /\ UNCHANGED <<kind, kMaxConns, state, ctx, linkOf, availIds, clientConns, backendUp, sent, got, told,
                    orderly, links, clean>>

Spec == Init /\ [][Next]_vars

-----------------------------------------------------------------------------
\* The clients that have had id i on the present link.
Owner(i) == {c \in Clients : ctx[c] = i /\ linkOf[c] = links}

\* On such a link, data of a client reaches its own socks connection, and only that one, in
\* order and whole packets at a time, also what was sent before that connection was up;
\* and what a client gets is what its own socks connection replied, for every id that is
\* given out once (demux.cc:98, multiplexer.cc:110).
SessionsAreKeptApart ==
  clean /\ served = links /\ ~failed =>
    \A i \in Ids : Cardinality(Owner(i)) = 1 =>
      LET c == CHOOSE d \in Owner(i) : TRUE
      IN  /\ IsPrefix(received[i], sent[c])
          /\ got[c] = [j \in DOMAIN got[c] |-> <<i, j>>] /\ Len(got[c]) <= replied[i]

\* The assertions of demux.cc fail in three cases only.  An id is given out again while
\* demux still has the entry of its last owner (demux.cc:128): the multiplexers give it
\* back when the client is gone and do not wait for the socks connection.  A client is
\* left from an earlier link (demux.cc:97, :144).  The link is lost while a socks
\* connection is up (demux.cc:159, :188).
DemuxFailsOnlyThen ==
  failed => ~clean \/ ~serverUp \/ \E i \in Ids : Cardinality(Owner(i)) > 1
=============================================================================
