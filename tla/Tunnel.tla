------------------------------- MODULE Tunnel -------------------------------
(***************************************************************************)
(* examples/socks4a: a tunnel joins an accepted connection (server) to an  *)
(* outgoing one (client) and relays both ways with back-pressure.  Three   *)
(* programs use it: tcprelay and balancer pause the accepted connection    *)
(* until the outgoing one is up; socks4a first reads a request from it.    *)
(* The connections behave as module TcpConnection has them; everything     *)
(* runs in one loop, and a callback is a functor that runs later.          *)
(***************************************************************************)
EXTENDS Naturals, Sequences, SequencesExt, FiniteSets

CONSTANTS
  Kinds,        \* the programs: tcprelay, balancer, socks4a
  Mark,         \* the high-water mark, 1 MB in the code
  Request,      \* the length of a socks4a request
  MaxRequest,   \* 128 in the code
  MaxBytes      \* bound: bytes each peer sends

VARIABLES
  kind,
  state,        \* side -> none, connecting, up, disconnecting, down
  reading,      \* side -> reading_
  wire,         \* side -> bytes its peer has sent that were not read
  in,           \* side -> inputBuffer_
  out,          \* side -> outputBuffer_
  taken,        \* side -> bytes its peer has been sent
  eof,          \* side -> whether its peer has closed
  wc,           \* side -> whether the write-complete callback is set
  functors,     \* pending callbacks, [do, side]
  context,      \* whether serverConn_'s context holds the client connection
  clientConn,   \* whether clientConn_ is set
  inMap,        \* whether g_tunnels has the tunnel
  sent,         \* side -> number of bytes its peer has produced
  failed        \* what has failed: an assertion, or a null clientConn_ that was followed

vars == <<kind, state, reading, wire, in, out, taken, eof, wc, functors, context, clientConn,
          inMap, sent, failed>>

Sides == {"server", "client"}
Other(side) == CHOOSE s \in Sides : s # side

Init ==
  /\ kind \in Kinds
  /\ LET joined == kind # "socks4a"      \* onServerConnection() has made the tunnel
     IN  /\ state = [server |-> "up", client |-> IF joined THEN "connecting" ELSE "none"]
         /\ reading = [server |-> ~joined, client |-> FALSE]
         /\ inMap = joined
  /\ wire = [s \in Sides |-> <<>>] /\ in = [s \in Sides |-> <<>>] /\ out = [s \in Sides |-> <<>>]
  /\ taken = [s \in Sides |-> <<>>] /\ eof = [s \in Sides |-> FALSE] /\ wc = [s \in Sides |-> FALSE]
  /\ functors = <<>> /\ context = FALSE /\ clientConn = FALSE
  /\ sent = [s \in Sides |-> 0] /\ failed = {}

-----------------------------------------------------------------------------
\* conn->send(): accepted while connected; some of it may leave at once.
Callback(do, side) == <<[do |-> do, side |-> side]>>

Send(side, bytes) ==
  IF state[side] # "up" \/ bytes = <<>> THEN UNCHANGED <<out, taken, functors>>
  ELSE \E now \in (IF out[side] = <<>> THEN 0 .. Len(bytes) ELSE {0}) :
         LET left == SubSeq(bytes, now + 1, Len(bytes))
             old  == Len(out[side])
         IN  /\ taken' = [taken EXCEPT ![side] = @ \o SubSeq(bytes, 1, now)]
             /\ out' = [out EXCEPT ![side] = @ \o left]
             /\ functors' = functors
                  \o (IF left = <<>> /\ wc[side] THEN Callback("writeComplete", side) ELSE <<>>)
                  \o (IF old < Mark /\ old + Len(left) >= Mark THEN Callback("highWaterMark", side) ELSE <<>>)

\* shutdown(), and what it leads to once the output is gone.
ShutDown(st) == IF st = "up" THEN "disconnecting" ELSE st

\* Tunnel::setup() and connect().
Setup ==
  /\ inMap' = TRUE
  /\ state' = [state EXCEPT !.client = "connecting"]

\* send(Buffer*) empties the buffer of a connection only if it is connected.
Unsent(side, buf) == IF state[side] = "up" THEN <<>> ELSE buf

\* onServerMessage() of tcprelay and balancer, and of socks4a once it has a tunnel.
Relay(buf) ==
  IF context THEN Send("client", buf) /\ in' = [in EXCEPT !.server = Unsent("client", buf)]
             ELSE UNCHANGED <<out, taken, functors>> /\ in' = [in EXCEPT !.server = buf]

tcprelay_onServerMessage(buf) == Relay(buf) /\ UNCHANGED <<state, inMap>>
balancer_onServerMessage(buf) == Relay(buf) /\ UNCHANGED <<state, inMap>>

\* Before that it waits for a whole request; one that is too long, malformed or
\* that names a host that does not resolve is refused.
socks4a_onServerMessage(buf) ==
  CASE inMap -> Relay(buf) /\ UNCHANGED <<state, inMap>>
    [] ~inMap /\ Len(buf) > MaxRequest ->
         /\ state' = [state EXCEPT !.server = ShutDown(@)]
         /\ in' = [in EXCEPT !.server = buf]
         /\ UNCHANGED <<inMap, out, taken, functors>>
    [] ~inMap /\ Len(buf) \in Request .. MaxRequest ->
         \/ /\ Setup
            /\ in' = [in EXCEPT !.server = SubSeq(buf, Request + 1, Len(buf))]
            /\ Send("server", <<0>>)
         \/ /\ state' = [state EXCEPT !.server = ShutDown(@)]
            /\ in' = [in EXCEPT !.server = buf]
            /\ Send("server", <<0>>)
            /\ UNCHANGED inMap
    [] OTHER -> in' = [in EXCEPT !.server = buf] /\ UNCHANGED <<state, inMap, out, taken, functors>>

\* handleRead() of the accepted connection.
ReadServer ==
  /\ state.server \in {"up", "disconnecting"} /\ reading.server /\ wire.server # <<>>
  /\ wire' = [wire EXCEPT !.server = <<>>]
  /\ LET buf == in.server \o wire.server
     IN  CASE kind = "tcprelay" -> tcprelay_onServerMessage(buf)
           [] kind = "balancer" -> balancer_onServerMessage(buf)
           [] kind = "socks4a"  -> socks4a_onServerMessage(buf)
  /\ UNCHANGED <<kind, reading, eof, wc, context, clientConn, sent, failed>>

\* handleRead() of the outgoing connection.
onClientMessage ==
  /\ state.client \in {"up", "disconnecting"} /\ reading.client /\ wire.client # <<>>
  /\ wire' = [wire EXCEPT !.client = <<>>]
  /\ Send("server", in.client \o wire.client)
  /\ in' = [in EXCEPT !.client = Unsent("server", @ \o wire.client)]
  /\ UNCHANGED <<kind, state, reading, eof, wc, context, clientConn, inMap, sent, failed>>

\* What the accepted connection has read before the outgoing one was up.
EarlyBytes_Ignored == <<>>
EarlyBytes == in.server

\* The outgoing connection comes up.  startRead() acts on the accepted connection
\* whatever its state: one that is already down is put back into the poller.
onClientConnection ==
  /\ state.client = "connecting"
  /\ state' = [state EXCEPT !.client = "up"]
  /\ reading' = [server |-> TRUE, client |-> TRUE]
  /\ context' = TRUE /\ clientConn' = TRUE
  /\ LET bytes == EarlyBytes
     IN  /\ in' = [in EXCEPT !.server = <<>>]
         /\ IF bytes = <<>> THEN UNCHANGED <<out, taken, functors>>
            ELSE \E now \in 0 .. Len(bytes) :
                   LET left == SubSeq(bytes, now + 1, Len(bytes))
                   IN  /\ taken' = [taken EXCEPT !.client = SubSeq(bytes, 1, now)]
                       /\ out' = [out EXCEPT !.client = left]
                       /\ functors' = IF Len(left) >= Mark THEN functors \o Callback("highWaterMark", "client")
                                                          ELSE functors
  /\ UNCHANGED <<kind, wire, eof, wc, inMap, sent, failed>>

\* handleClose() of the outgoing connection runs teardown().
teardown ==
  /\ context' = FALSE /\ clientConn' = FALSE
  /\ state' = [server |-> ShutDown(state.server), client |-> "down"]

Closes(side) ==
  /\ eof[side] /\ state[side] \in {"up", "disconnecting"}
  /\ (reading[side] /\ wire[side] = <<>>) \/ (~reading[side] /\ out[side] # <<>>)   \* POLLHUP

ClientCloses ==
  /\ Closes("client")
  /\ teardown
  /\ reading' = [reading EXCEPT !.client = FALSE]
  /\ UNCHANGED <<kind, wire, in, out, taken, eof, wc, functors, inMap, sent, failed>>

\* handleClose() of the accepted one runs onServerConnection(): disconnect() only
\* shuts down a connection that exists; a connector goes on.
onServerConnection ==
  /\ inMap' = FALSE
  /\ failed' = IF kind # "socks4a" /\ ~inMap THEN failed \cup {"assert"} ELSE failed
  /\ state' = [server |-> "down", client |-> IF inMap THEN ShutDown(state.client) ELSE state.client]

ServerCloses ==
  /\ Closes("server") \/ (state.server = "down" /\ reading.server /\ eof.server)
  /\ onServerConnection
  /\ reading' = [reading EXCEPT !.server = FALSE]
  /\ UNCHANGED <<kind, wire, in, out, taken, eof, wc, functors, context, clientConn, sent>>

-----------------------------------------------------------------------------
\* Over the mark of one side, the other one stops reading, unless the output has
\* left meanwhile.
StillBuffered_Skipped(which) == TRUE
StillBuffered(which) == out[which] # <<>>

onHighWaterMark(which) ==
  IF ~clientConn /\ (which = "client" \/ StillBuffered(which))
  THEN failed' = failed \cup {"clientConn_"} /\ UNCHANGED <<reading, wc>>
  ELSE IF ~StillBuffered(which) THEN UNCHANGED <<reading, wc, failed>>
       ELSE /\ reading' = [reading EXCEPT ![Other(which)] = FALSE]
            /\ wc' = [wc EXCEPT ![which] = TRUE]
            /\ UNCHANGED failed

onWriteComplete(which) ==
  IF ~clientConn THEN failed' = failed \cup {"clientConn_"} /\ UNCHANGED <<reading, wc>>
  ELSE /\ reading' = [reading EXCEPT ![Other(which)] = TRUE]
       /\ wc' = [wc EXCEPT ![which] = FALSE]
       /\ UNCHANGED failed

\* The tunnel lives while the map or the outgoing connection's callbacks hold it.
Alive == inMap \/ state.client \in {"connecting", "up", "disconnecting"}

runFunctor ==
  /\ functors # <<>>
  /\ functors' = Tail(functors)
  /\ LET f == Head(functors)
     IN  CASE ~Alive -> UNCHANGED <<reading, wc, failed>>
           [] Alive /\ f.do = "highWaterMark" -> onHighWaterMark(f.side)
           [] Alive /\ f.do = "writeComplete" -> onWriteComplete(f.side)
  /\ UNCHANGED <<kind, state, wire, in, out, taken, eof, context, clientConn, inMap, sent>>

handleWrite(side) ==
  /\ out[side] # <<>> /\ state[side] \in {"up", "disconnecting"}
  /\ \E n \in 1 .. Len(out[side]) :
       /\ taken' = [taken EXCEPT ![side] = @ \o SubSeq(out[side], 1, n)]
       /\ out' = [out EXCEPT ![side] = SubSeq(@, n + 1, Len(@))]
       /\ functors' = IF n = Len(out[side]) /\ wc[side] THEN functors \o Callback("writeComplete", side)
                                                       ELSE functors
  /\ UNCHANGED <<kind, state, reading, wire, in, eof, wc, context, clientConn, inMap, sent, failed>>

\* The peers.
PeerSends(side) ==
  /\ ~eof[side] /\ sent[side] < MaxBytes /\ state[side] \in {"up", "disconnecting"}
  /\ sent' = [sent EXCEPT ![side] = @ + 1]
  /\ wire' = [wire EXCEPT ![side] = Append(@, sent[side] + 1)]
  /\ UNCHANGED <<kind, state, reading, in, out, taken, eof, wc, functors, context, clientConn, inMap, failed>>

PeerCloses(side) ==
  /\ ~eof[side] /\ state[side] \in {"up", "disconnecting"}
  /\ eof' = [eof EXCEPT ![side] = TRUE]
  /\ UNCHANGED <<kind, state, reading, wire, in, out, taken, wc, functors, context, clientConn,
                 inMap, sent, failed>>

\* To follow a null clientConn_ ends the program.
Next ==
  /\ "clientConn_" \notin failed
  /\ \/ ReadServer \/ onClientMessage \/ onClientConnection \/ ClientCloses \/ ServerCloses \/ runFunctor
     \/ \E side \in Sides : handleWrite(side) \/ PeerSends(side) \/ PeerCloses(side)

Spec == Init /\ [][Next]_vars

-----------------------------------------------------------------------------
Joined == kind # "socks4a" \/ inMap
Bytes(n) == [i \in 1 .. n |-> i]
FromServer == IF kind = "socks4a" THEN SubSeq(Bytes(sent.server), Request + 1, sent.server) ELSE Bytes(sent.server)
Payload(bytes) == SelectSeq(bytes, LAMBDA b : b # 0)

\* While both connections are up, every byte a peer has sent is relayed, buffered
\* or still to be read, once and in order, also those that came before the outgoing
\* connection was up (tunnel.h:82); what has been delivered is always a prefix.
RelayedInOrder ==
  /\ IsPrefix(taken.client, FromServer)
  /\ IsPrefix(Payload(taken.server), Bytes(sent.client))
  /\ state.server = "up" /\ state.client = "up" =>
       /\ taken.client \o out.client \o in.server \o wire.server = FromServer
       /\ Payload(taken.server \o out.server) \o wire.client = Bytes(sent.client)

\* Back-pressure never leaves a connection paused for good: while the tunnel is up,
\* a side that does not read waits for output of the other side that is still
\* buffered, or the callback that resumes it is queued (tunnel.h:123).
PausedOnlyWhileBuffered ==
  \A side \in Sides :
    state.server = "up" /\ state.client = "up" /\ ~reading[side] =>
      \/ out[Other(side)] # <<>> /\ wc[Other(side)]
      \/ \E i \in DOMAIN functors : functors[i] = [do |-> "writeComplete", side |-> Other(side)]

\* A null clientConn_ is followed (tunnel.h:125, :161) only after teardown() has reset it
\* (tunnel.h:65): the outgoing connection has gone down, and a callback about output of
\* one side that passed the mark, or left, was still queued.
NullOnlyAfterTeardown == "clientConn_" \in failed => state.client = "down"

\* What tcprelay.cc:29 and balancer.cc:38 assert: a connection that goes down has
\* its tunnel in the map.  It is not an invariant: a startRead() that comes after
\* the accepted connection is down (tunnel.h:79, tunnel.h:166) puts it back into the
\* poller, and it goes down a second time.
TunnelIsInMap == "assert" \notin failed
=============================================================================
