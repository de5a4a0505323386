------------------------------ MODULE Streams -------------------------------
(***************************************************************************)
(* One TCP connection whose bytes are read in pieces of any size by        *)
(* Buffer::readFd and given to the message callback of one of the          *)
(* protocols: the length-prefixed codecs, HTTP, FastCGI and the line       *)
(* protocols of the examples.  The peer sends a sequence of items.  An     *)
(* item is the bytes it is sent as, what the callback must make of it      *)
(* (out), whether it ends the conversation (ends) and how many bytes must  *)
(* have come, of it and of what follows, for the callback to look (needs). *)
(***************************************************************************)
EXTENDS Buffer, SequencesExt, FiniteSetsExt, FiniteSets

(***************************************************************************)
(* pubsub::parseMessage (examples/hub/codec.cc) and the loop around it:    *)
(* "sub topic", "unsub topic" and "pub topic" with a line of content.      *)
(* Tokens are those of module HttpServer.  A connection c is the input     *)
(* buffer (buf), the messages parsed (got) and shutdown() (down).          *)
(***************************************************************************)
Find(s, x) ==
  IF x \in ToSet(s) THEN CHOOSE i \in DOMAIN s : s[i] = x /\ \A j \in 1 .. i - 1 : s[j] # x
                    ELSE Len(s) + 1

\* findCRLF(start) of the buffer behind the first n bytes: an offset from peek().
findCRLFFrom(b, n) ==
  LET crlf == findCRLF(retrieve(b, n))
  IN  IF n = readableBytes(b) \/ crlf = -1 THEN -1 ELSE n + crlf

Parsed(result, m, b) == [result |-> result, message |-> m, buf |-> b]
NoMessage == [cmd |-> <<>>, topic |-> <<>>, content |-> <<>>]

parseMessage(b) ==
  LET s     == toStringPiece(b)
      crlf  == findCRLF(b)
      line  == SubSeq(s, 1, crlf)
      space == Find(line, " ")
      m     == [cmd |-> SubSeq(line, 1, space - 1),
                topic |-> SubSeq(line, space + 1, crlf), content |-> <<>>]
      crlf2 == findCRLFFrom(b, crlf + 2)
  IN  IF crlf = -1 THEN Parsed("kContinue", NoMessage, b)
      ELSE IF space > crlf THEN Parsed("kError", NoMessage, b)
      ELSE IF m.cmd # <<"pub">> THEN Parsed("kSuccess", m, retrieveUntil(b, crlf + 2))
      ELSE IF crlf2 = -1 THEN Parsed("kContinue", NoMessage, b)
      ELSE Parsed("kSuccess", [m EXCEPT !.content = SubSeq(s, crlf + 3, crlf2)],
                  retrieveUntil(b, crlf2 + 2))

Commands == {<<"pub">>, <<"sub">>, <<"unsub">>}

RECURSIVE onHubMessage(_)
onHubMessage(c) ==
  LET p    == parseMessage(c.buf)
      next == [c EXCEPT !.buf = p.buf]
  IN  CASE p.result = "kContinue" -> c
        [] p.result = "kError" -> [c EXCEPT !.down = TRUE]
        [] p.message.cmd \notin Commands -> [next EXCEPT !.down = TRUE]
        [] OTHER -> onHubMessage([next EXCEPT !.got = Append(@, p.message)])

-----------------------------------------------------------------------------
(***************************************************************************)
(* The line protocol of the sudoku servers (examples/sudoku): "id:puzzle"  *)
(* or "puzzle", with \r\n.  The five servers share onMessage() and the     *)
(* split of the line; what they do with a request is module SudokuServer.  *)
(* got records the requests accepted and the complaints sent.              *)
(***************************************************************************)
CONSTANTS kCells,     \* length of a puzzle, 81 in the code
          kMaxLine    \* 100 in the code

\* processRequest: the part before the first colon is the id.
Request(line) ==
  LET colons == {i \in DOMAIN line : line[i] = ":"}
      colon  == CHOOSE i \in colons : \A j \in colons : i <= j
  IN  IF colons = {} THEN [id |-> <<>>, puzzle |-> line]
      ELSE [id |-> SubSeq(line, 1, colon - 1), puzzle |-> SubSeq(line, colon + 1, Len(line))]

\* Which complaint is sent depends on how much of the line was read; errors has
\* the text.
Complaint == [id |-> <<>>, puzzle |-> <<>>]

Complain(c, text) ==
  [c EXCEPT !.got = IF c.down THEN @ ELSE Append(@, Complaint),
            !.errors = Append(@, text), !.down = TRUE]

Accept(c, req) == [c EXCEPT !.got = IF c.down THEN @ ELSE Append(@, req)]

RECURSIVE onSudokuMessage(_)
onSudokuMessage(c) ==
  LET len  == readableBytes(c.buf)
      crlf == findCRLF(c.buf)
      req  == Request(SubSeq(toStringPiece(c.buf), 1, crlf))
      next == [c EXCEPT !.buf = retrieveUntil(@, crlf + 2)]
  IN  IF len < kCells + 2 THEN c
      ELSE IF crlf # -1
        THEN IF Len(req.puzzle) = kCells THEN onSudokuMessage(Accept(next, req))
                                         ELSE Complain(next, "Bad Request!")
      ELSE IF len > kMaxLine THEN Complain(c, "Id too long!")
      ELSE c

-----------------------------------------------------------------------------
(* The connection.                                                         *)
CONSTANTS kMaxLength, kMaxMessageLen, tag_, KnownTypes, Registered,
          modules_, redirections,
          MaxItems      \* items sent on the connection

VARIABLES
  proto,     \* the protocol of the connection
  items,     \* what the peer sends
  rest,      \* bytes that were not read yet
  conn,      \* the connection: input buffer, parser state, results
  lag        \* requests read that wait for the next read (HTTP)

vars == <<proto, items, rest, conn, lag>>

Binary == INSTANCE BinaryCodecs
Http == INSTANCE HttpServer

Protocols == {"length", "lite", "raw", "protobuf", "http", "shorturl", "hub", "sudoku", "fastcgi"}

-----------------------------------------------------------------------------
(* The items of each protocol.                                             *)

Item(bytes, out) == [bytes |-> bytes, out |-> <<out>>, ends |-> FALSE, needs |-> Len(bytes)]
LastItem(bytes, out) == [bytes |-> bytes, out |-> out, ends |-> TRUE, needs |-> Len(bytes)]

\* A bad item that is shorter than the shortest good one, which the callback waits for.
ShortItem(bytes, out, needs) == [LastItem(bytes, out) EXCEPT !.needs = needs]

Payloads == {<<>>, <<9>>, <<1, 255>>}

LengthItems ==
  {Item(Binary!sendLengthHeader(p), p) : p \in Payloads}
  \cup {LastItem(hostToNetwork(n, 4), <<>>) : n \in {-1, kMaxLength + 1}}

\* A frame whose checksum, tag or payload is bad, and one too short to be one.
Garbled(frame) == [frame EXCEPT ![Len(frame)] = (@ + 1) % 256]

LiteItems ==
  {Item(Binary!sendLite(p), p) : p \in Payloads}
  \cup {LastItem(Garbled(Binary!sendLite(<<9>>)), <<>>), LastItem(Binary!sendLite(<<0>>), <<>>),
        LastItem(hostToNetwork(Len(tag_) + 3, 4) \o [i \in 1 .. Len(tag_) + 4 |-> 0], <<>>),
        ShortItem(hostToNetwork(0, 4), <<>>, Len(tag_) + 8)}

RawItems == {Item(Binary!sendLite(p), Binary!sendLite(p)) : p \in Payloads}

Frame(type, data) == toStringPiece(Binary!fillTypedBuffer([type |-> type, data |-> data]))

\* A frame whose nameLen n does not fit, with its checksum redone.
BadName(type, n) ==
  LET body == hostToNetwork(n, 4) \o type \o <<0>>
  IN  hostToNetwork(Len(body) + 4, 4) \o body \o Binary!checksum(body)

ProtobufItems ==
  {Item(Frame(type, data), [to |-> IF type \in Registered THEN type ELSE <<>>, data |-> data]) :
     type \in KnownTypes, data \in {<<>>, <<5>>}}
  \cup {LastItem(Frame(<<99>>, <<>>), <<>>), LastItem(BadName(<<65>>, 0), <<>>),
        LastItem(BadName(<<65>>, 100), <<>>), LastItem(Garbled(Frame(<<65>>, <<>>)), <<>>),
        ShortItem(hostToNetwork(kMaxMessageLen + 1, 4), <<>>, 14)}

CRLF == <<"\r", "\n">>

HttpBytes(method, target, version, headers) ==
  method \o <<" ">> \o target \o <<" ", "HTTP/1.">> \o version \o CRLF \o headers \o CRLF

Answer(status, body, close) ==
  [status |-> status, body |-> body, connection |-> IF close THEN "close" ELSE "Keep-Alive",
   length |-> IF close THEN <<>> ELSE <<Len(body)>>]
Header(value) == <<"Connection", ":", " ", value>> \o CRLF

HttpItems ==
  {Item(HttpBytes(<<"GET">>, <<"/">>, <<"1">>, <<"Host", ":", "h", " ">> \o CRLF),
        Answer("k200Ok", <<"index">>, FALSE)),
   Item(HttpBytes(<<"POST">>, <<"/", "proc", "/", "pid", "/", "x", "?", "q">>, <<"0">>, Header("Keep-Alive")),
        Answer("k200Ok", << <<"proc">>, <<"pid">>, <<"x">> >>, FALSE)),
   Item(HttpBytes(<<"GET">>, <<"/", "sys", "/", "pid">>, <<"1">>, <<>>),
        Answer("k404NotFound", <<>>, FALSE)),
   LastItem(HttpBytes(<<"GET">>, <<"/", "favicon.ico">>, <<"0">>, <<>>),
            <<Answer("k200Ok", <<"favicon">>, TRUE)>>),
   LastItem(HttpBytes(<<"GET">>, <<"/">>, <<"1">>, Header("Keep-Alive") \o Header("close")),
            <<Answer("k200Ok", <<"index">>, TRUE)>>),
   LastItem(<<"GET", " ", "/", "\r", "\n">>, <<Http!BadRequest>>)}

ShortItems ==
  {Item(HttpBytes(<<"GET">>, <<"/", "1">>, <<"1">>, <<>>), Answer("k301MovedPermanently", <<"/", "1">>, FALSE)),
   LastItem(HttpBytes(<<"GET">>, <<"/", "3">>, <<"1">>, <<>>), <<Answer("k404NotFound", <<>>, TRUE)>>)}

HubItems ==
  {Item(<<cmd, " ", "t">> \o CRLF, [cmd |-> <<cmd>>, topic |-> <<"t">>, content |-> <<>>]) :
     cmd \in {"sub", "unsub"}}
  \cup {Item(<<"pub", " ", "t">> \o CRLF \o <<"x", "y">> \o CRLF,
             [cmd |-> <<"pub">>, topic |-> <<"t">>, content |-> <<"x", "y">>]),
        LastItem(<<"nonsense">> \o CRLF, <<>>), LastItem(<<"stop", " ", "t">> \o CRLF, <<>>)}

SudokuItems ==
  LET puzzle == [i \in 1 .. kCells |-> "0"]
  IN  {Item(puzzle \o CRLF, [id |-> <<>>, puzzle |-> puzzle]),
       Item(<<"a", ":">> \o puzzle \o CRLF, [id |-> <<"a">>, puzzle |-> puzzle]),
       LastItem(<<"0">> \o puzzle \o CRLF, <<Complaint>>),
       ShortItem(<<"0">> \o CRLF, <<Complaint>>, kCells + 2),
       LastItem([i \in 1 .. kMaxLine + 1 |-> "0"], <<Complaint>>)}

Record(type, content, padding) ==
  Binary!RecordHeader(type, Len(content), padding) \o content \o [i \in 1 .. padding |-> 0]

CgiItem(params, bytes, stdin, keep, answer) ==
  LET sent == Record(Binary!kFcgiBeginRequest, <<0, 1, IF keep THEN 1 ELSE 0, 0, 0, 0, 0, 0>>, 0)
              \o Record(Binary!kFcgiParams, bytes, 1) \o Record(Binary!kFcgiParams, <<>>, 0)
              \o (IF stdin = <<>> THEN <<>> ELSE Record(Binary!kFcgiStdin, stdin, 2))
              \o Record(Binary!kFcgiStdin, <<>>, 0)
      reply == Record(Binary!kFcgiStdout, answer, 8 - Len(answer)) \o Record(Binary!kFcgiStdout, <<>>, 0)
               \o Record(Binary!kFcgiEndRequest, <<0, 0, 0, 0, 0, 0, 0, 0>>, 0)
      out  == [params |-> params, stdin |-> stdin, reply |-> reply]
  IN  [Item(sent, out) EXCEPT !.ends = ~keep]

CgiItems ==
  {CgiItem([n \in {<<85>>} |-> <<47, 1, 2, 3>>], <<1, 4, 85, 47, 1, 2, 3>>, <<>>, TRUE, <<13, 1, 2, 3>>),
   CgiItem([n \in {<<65>>} |-> <<66>>], <<1, 1, 65, 66>>, <<7>>, FALSE, <<13, 63>>),
   CgiItem([n \in {<<65>>, <<66>>} |-> <<>>], <<1, 128, 0, 0, 0, 65, 1, 0, 66>>, <<7>>, TRUE, <<13, 63>>)}

Items(p) ==
  CASE p = "length" -> LengthItems
    [] p = "lite" -> LiteItems
    [] p = "raw" -> RawItems
    [] p = "protobuf" -> ProtobufItems
    [] p = "http" -> HttpItems
    [] p = "shorturl" -> ShortItems
    [] p = "hub" -> HubItems
    [] p = "sudoku" -> SudokuItems
    [] OTHER -> CgiItems

onMessage(p, c) ==
  CASE p = "length" -> Binary!onLengthHeaderMessage(c)
    [] p \in {"lite", "raw"} -> Binary!onLiteMessage(c)
    [] p = "protobuf" -> Binary!onTypedMessage(c)
    [] p \in {"http", "shorturl"} -> Http!onMessage(p, c)
    [] p = "hub" -> onHubMessage(c)
    [] p = "sudoku" -> onSudokuMessage(c)
    [] OTHER -> Binary!onFastCgiMessage(c)

\* A connection as onConnection leaves it: an empty buffer and a new parser.
NewConn(p) ==
  [buf |-> NewBuffer(kInitialSize), got |-> <<>>, errors |-> <<>>, down |-> FALSE,
   rawCb |-> p = "raw", raw |-> <<>>,
   state |-> "kExpectRequestLine", request |-> Http!NewRequest,
   stdin |-> <<>>, paramsStream |-> <<>>, params |-> <<>>, gotRequest |-> FALSE,
   keepConn |-> FALSE]

-----------------------------------------------------------------------------
Concat(s) == FoldLeft(LAMBDA acc, x : acc \o x, <<>>, s)

BytesOf(s) == Concat([i \in DOMAIN s |-> s[i].bytes])

\* How many items have arrived when n bytes are still to come.
Whole(n) ==
  CHOOSE k \in 0 .. Len(items) :
    /\ Len(BytesOf(SubSeq(items, k + 1, Len(items)))) >= n
    /\ k = Len(items) \/ Len(BytesOf(SubSeq(items, k + 2, Len(items)))) < n

Init ==
  /\ proto \in Protocols
  /\ items \in SeqOf(Items(proto), MaxItems) \ {<<>>}
  /\ rest = BytesOf(items)
  /\ conn = NewConn(proto)
  /\ lag = 0

\* One readable event: readFd takes n bytes and the message callback runs.  A
\* FastCGI peer waits for the answer before its next request (fastcgi.h:10).
Receive(n) ==
  LET left   == Len(rest) - n
      before == Whole(Len(rest))
      c      == [conn EXCEPT !.buf = readFd(@, SubSeq(rest, 1, n))]
  IN  /\ n <= ReadLimit(conn.buf)
      /\ proto = "fastcgi" => left >= Len(BytesOf(SubSeq(items, before + 2, Len(items))))
      /\ rest' = SubSeq(rest, n + 1, Len(rest))
      /\ conn' = onMessage(proto, c)
      /\ lag' = IF proto \in {"http", "shorturl"} /\ lag + Whole(left) - before > 0
                  THEN lag + Whole(left) - before - 1 ELSE lag
      /\ UNCHANGED <<proto, items>>

Next == \E n \in 1 .. Len(rest) : Receive(n)

Spec == Init /\ [][Next]_vars

-----------------------------------------------------------------------------
\* What the first k items must have led to: the outputs up to the first item
\* that ends the conversation, and without it until the callback looks at it.
Ending(k) == {i \in 1 .. k : items[i].ends}
LookedAt(i) == items[i].needs + Len(rest) <= Len(BytesOf(SubSeq(items, i, Len(items))))
Ended(k) == Ending(k) # {} /\ LookedAt(Min(Ending(k)))
Outputs(k) ==
  LET last == IF Ending(k) = {} THEN k
              ELSE IF Ended(k) THEN Min(Ending(k)) ELSE Min(Ending(k)) - 1
  IN  Concat([i \in 1 .. last |-> items[i].out])

\* However the stream is cut into reads, the callback has been given exactly the
\* items that have arrived whole, each once, in order and unchanged, and nothing
\* after a bad one or after one that closes; the connection is shut down exactly
\* when such an item has arrived, with as many bytes as the callback waits for
\* (codec.cc:119).  An HTTP connection answers one request per read and may lag by
\* the others of the same read (HttpServer.cc:86); the hub goes on with the
\* commands that arrive after one it does not know.
DeliversWholeItems ==
  LET k   == Whole(Len(rest)) - lag
      got == IF proto = "raw" THEN conn.raw ELSE conn.got
  IN  /\ IF proto = "hub" /\ Ended(k) THEN IsPrefix(Outputs(k), got)
                                             ELSE got = Outputs(k)
      /\ conn.down = Ended(k)
=============================================================================
