---------------------------- MODULE BinaryCodecs ----------------------------
(***************************************************************************)
(* The codecs whose messages carry their length: LengthHeaderCodec of the  *)
(* chat example, ProtobufCodecLite, ProtobufCodec with its dispatcher, and *)
(* FastCgiCodec.  Their message callbacks are operators on a connection;   *)
(* module Streams feeds them.                                              *)
(***************************************************************************)
EXTENDS Buffer

(***************************************************************************)
(* LengthHeaderCodec (examples/asio/chat/codec.h): a message is its length *)
(* in four bytes and its bytes.  A connection c is a record: the input     *)
(* buffer (buf), what the message callback was given (got), the errors     *)
(* reported (errors) and whether shutdown() was called (down).             *)
(***************************************************************************)
CONSTANT kMaxLength   \* 65536 in the code

kHeaderLen == 4

\* The bytes that send() hands to the connection.
sendLengthHeader(message) ==
  toStringPiece(prependInt(append(NewBuffer(kInitialSize), message),
                           Len(message), kHeaderLen))

IsWhole(buf, len) == readableBytes(buf) >= len + kHeaderLen

RECURSIVE onLengthHeaderMessage(_)
onLengthHeaderMessage(c) ==
  LET len  == peekInt(c.buf, kHeaderLen)
      body == retrieve(c.buf, kHeaderLen)
  IN  IF readableBytes(c.buf) < kHeaderLen THEN c
      ELSE IF len > kMaxLength \/ len < 0
        THEN [c EXCEPT !.down = TRUE, !.errors = Append(@, "Invalid length")]
      ELSE IF IsWhole(c.buf, len)
        THEN onLengthHeaderMessage([c EXCEPT
               !.got = Append(@, SubSeq(toStringPiece(body), 1, len)),
               !.buf = retrieve(body, len)])
      ELSE c

-----------------------------------------------------------------------------
(***************************************************************************)
(* ProtobufCodecLite (net/protobuf): length, tag, payload and checksum, as *)
(* the RPC messages travel.  A message is its serialised payload; a        *)
(* connection c is the record of LengthHeaderCodec, with the raw frames    *)
(* given to rawCb_ (raw) and whether rawCb_ is set and takes every frame   *)
(* (rawCb), as the RPC balancer sets it.                                   *)
(***************************************************************************)
CONSTANTS tag_, kMaxMessageLen

kChecksumLen == 4
kMinMessageLen == Len(tag_) + kChecksumLen

\* zlib's adler32(1, s, len), as the four bytes of the result.
checksum(s) ==
  LET a[i \in 0 .. Len(s)] == IF i = 0 THEN 1 ELSE (a[i - 1] + s[i]) % 65521
      b[i \in 0 .. Len(s)] == IF i = 0 THEN 0 ELSE (b[i - 1] + a[i]) % 65521
  IN  hostToNetwork(b[Len(s)], 2) \o hostToNetwork(a[Len(s)], 2)

\* A protobuf never starts with a zero byte (a field number is positive).
ParseFromArray(data) == data = <<>> \/ data[1] # 0

serializeToBuffer(message, buf) ==
  LET b == ensureWritableBytes(buf, Len(message) + kChecksumLen)
  IN  hasWritten(CopyTo(b, message, b.writer), Len(message))

fillEmptyBuffer(message) ==
  LET b == serializeToBuffer(message, append(NewBuffer(kInitialSize), tag_))
      s == append(b, checksum(toStringPiece(b)))
  IN  prependInt(s, readableBytes(s), kHeaderLen)

sendLite(message) == toStringPiece(fillEmptyBuffer(message))

Prefix(s, n) == SubSeq(s, 1, n)

validateChecksum(s) ==
  checksum(Prefix(s, Len(s) - kChecksumLen)) = SubSeq(s, Len(s) - kChecksumLen + 1, Len(s))

Payload(s) == SubSeq(s, Len(tag_) + 1, Len(s) - kChecksumLen)

\* The error of the frame s, the bytes after the length.
parse(s) ==
  IF ~validateChecksum(s) THEN "kCheckSumError"
  ELSE IF Prefix(s, Len(tag_)) # tag_ THEN "kUnknownMessageType"
  ELSE IF ~ParseFromArray(Payload(s)) THEN "kParseError"
  ELSE "kNoError"

\* shutdown() is called on a connected connection only, once.
defaultErrorCallback(c, error) ==
  [c EXCEPT !.errors = Append(@, error), !.down = TRUE]

RECURSIVE onLiteMessage(_)
onLiteMessage(c) ==
  LET len   == peekInt(c.buf, kHeaderLen)
      total == kHeaderLen + len
      frame == SubSeq(toStringPiece(c.buf), kHeaderLen + 1, total)
      next  == [c EXCEPT !.buf = retrieve(@, total)]
  IN  IF readableBytes(c.buf) < kMinMessageLen + kHeaderLen THEN c
      ELSE IF len > kMaxMessageLen \/ len < kMinMessageLen
        THEN defaultErrorCallback(c, "kInvalidLength")
      ELSE IF readableBytes(c.buf) < total THEN c
      ELSE IF c.rawCb
        THEN onLiteMessage([next EXCEPT !.raw = Append(@, Prefix(toStringPiece(c.buf), total))])
      ELSE IF parse(frame) = "kNoError"
        THEN onLiteMessage([next EXCEPT !.got = Append(@, Payload(frame))])
      ELSE defaultErrorCallback(c, parse(frame))

-----------------------------------------------------------------------------
(***************************************************************************)
(* ProtobufCodec and ProtobufDispatcher (examples/protobuf/codec): a frame *)
(* names the type of its message, and the dispatcher chooses a callback by *)
(* the type.  A message is [type, data]; type names are sequences of       *)
(* bytes.  got records the callback (its type, or <<>> for the default     *)
(* callback) and the data.                                                 *)
(***************************************************************************)
CONSTANTS
  KnownTypes,     \* type names the generated pool finds
  Registered      \* those with a callback in the dispatcher

kMinTypedLen == 2 * kHeaderLen + 2

\* c_str() with nameLen bytes: the name and its terminating zero.
fillTypedBuffer(message) ==
  LET name == message.type \o <<0>>
      b    == append(append(NewBuffer(kInitialSize), hostToNetwork(Len(name), 4)), name)
      d    == append(b, message.data)
      s    == append(d, checksum(toStringPiece(d)))
  IN  prependInt(s, readableBytes(s), kHeaderLen)

asInt32(s) == networkToHost(SubSeq(s, 1, 4))

TypeName(s) == SubSeq(s, kHeaderLen + 1, kHeaderLen + asInt32(s) - 1)
Data(s) == SubSeq(s, kHeaderLen + asInt32(s) + 1, Len(s) - kHeaderLen)

\* createMessage finds a prototype for the known types only.
createMessage(typeName) == typeName \in KnownTypes

parseTyped(s) ==
  IF ~validateChecksum(s) THEN "kCheckSumError"
  ELSE IF asInt32(s) < 2 \/ asInt32(s) > Len(s) - 2 * kHeaderLen THEN "kInvalidNameLen"
  ELSE IF ~createMessage(TypeName(s)) THEN "kUnknownMessageType"
  ELSE IF ~ParseFromArray(Data(s)) THEN "kParseError"
  ELSE "kNoError"

\* ProtobufDispatcher: the callback of the message's type, or the default one.
onProtobufMessage(c, message) ==
  [c EXCEPT !.got = Append(@, [to   |-> IF message.type \in Registered
                                          THEN message.type ELSE <<>>,
                               data |-> message.data])]

RECURSIVE onTypedMessage(_)
onTypedMessage(c) ==
  LET len   == peekInt(c.buf, kHeaderLen)
      total == kHeaderLen + len
      frame == SubSeq(toStringPiece(c.buf), kHeaderLen + 1, total)
  IN  IF readableBytes(c.buf) < kMinTypedLen + kHeaderLen THEN c
      ELSE IF len > kMaxMessageLen \/ len < kMinTypedLen
        THEN defaultErrorCallback(c, "kInvalidLength")
      ELSE IF readableBytes(c.buf) < total THEN c
      ELSE IF parseTyped(frame) = "kNoError"
        THEN onTypedMessage([onProtobufMessage(c, [type |-> TypeName(frame), data |-> Data(frame)])
                          EXCEPT !.buf = retrieve(@, total)])
      ELSE defaultErrorCallback(c, parseTyped(frame))

-----------------------------------------------------------------------------
(***************************************************************************)
(* FastCgiCodec (examples/fastcgi): records with an eight-byte header carry*)
(* the parameters and the standard input of a request; an empty record     *)
(* ends each.  A connection c adds to the input buffer (buf) the members   *)
(* stdin_, paramsStream_, params_, gotRequest_ and keepConn_ of its codec  *)
(* (the two inner buffers as the bytes they hold), the requests given to   *)
(* the callback (got) and whether shutdown() was called (down).            *)
(***************************************************************************)
CONSTANT kCells      \* length of a puzzle

REQUEST_URI == <<85>>
kPath == <<47>>

kRecordHeader == 8
kFcgiBeginRequest == 1
kFcgiEndRequest == 3
kFcgiParams == 4
kFcgiStdin == 5
kFcgiStdout == 6
kFcgiResponder == 1
kFcgiKeepConn == 1

RecordHeader(type, length, padding) ==
  <<1, type>> \o hostToNetwork(1, 2) \o hostToNetwork(length, 2) \o <<padding, 0>>

\* readLen(): [len, rest], with len = -1 when the length is cut off.
readLen(s) ==
  IF s = <<>> THEN [len |-> -1, rest |-> s]
  ELSE IF s[1] < 128 THEN [len |-> s[1], rest |-> Tail(s)]
  ELSE IF Len(s) >= 4
    THEN [len |-> networkToHost(<<s[1] % 128>> \o SubSeq(s, 2, 4)), rest |-> SubSeq(s, 5, Len(s))]
  ELSE [len |-> -1, rest |-> s]

\* parseAllParams(): what it read before an error stays in params_.
RECURSIVE parseAllParams(_)
parseAllParams(c) ==
  LET name  == readLen(c.paramsStream)
      value == readLen(name.rest)
      rest  == value.rest
      end   == name.len + value.len
  IN  IF c.paramsStream = <<>> THEN c
      ELSE IF name.len = -1 \/ value.len = -1 \/ Len(rest) < end
        THEN [c EXCEPT !.paramsStream = IF name.len = -1 THEN @ ELSE rest]
      ELSE parseAllParams([c EXCEPT
             !.params = [n \in DOMAIN @ \cup {SubSeq(rest, 1, name.len)} |->
                           IF n = SubSeq(rest, 1, name.len)
                             THEN SubSeq(rest, name.len + 1, end) ELSE @[n]],
             !.paramsStream = SubSeq(rest, end + 1, Len(rest))])

onParams(c, content) ==
  IF content # <<>> THEN [c EXCEPT !.paramsStream = @ \o content] ELSE parseAllParams(c)

onStdin(c, content) ==
  IF content # <<>> THEN [c EXCEPT !.stdin = @ \o content] ELSE [c EXCEPT !.gotRequest = TRUE]

onBeginRequest(c, content) ==
  IF Len(content) >= kRecordHeader /\ networkToHost(SubSeq(content, 1, 2)) = kFcgiResponder
    THEN [c EXCEPT !.keepConn = (content[3] = kFcgiKeepConn)]
    ELSE c

onRecord(c, type, content) ==
  CASE type = kFcgiBeginRequest -> onBeginRequest(c, content)
    [] type = kFcgiParams -> onParams(c, content)
    [] type = kFcgiStdin -> onStdin(c, content)
    [] OTHER -> c

TotalLength_NoPadding(length, padding) == kRecordHeader + length

TotalLength(length, padding) == kRecordHeader + length + padding

RECURSIVE parseRequest(_)
parseRequest(c) ==
  LET s      == toStringPiece(c.buf)
      length == s[5] * 256 + s[6]
      total  == TotalLength(length, s[7])
  IN  IF readableBytes(c.buf) < kRecordHeader THEN c
      ELSE IF readableBytes(c.buf) < total THEN c
      ELSE parseRequest(
             [onRecord(c, s[2], SubSeq(s, kRecordHeader + 1, kRecordHeader + length))
                EXCEPT !.buf = retrieve(@, total)])

-----------------------------------------------------------------------------
(* The response: a record padded to eight bytes, an empty record and the   *)
(* end of the request.                                                     *)

endStdout == RecordHeader(kFcgiStdout, 0, 0)
endRequest ==
  RecordHeader(kFcgiEndRequest, kRecordHeader, 0) \o hostToNetwork(0, 4) \o hostToNetwork(0, 4)

respond(response) ==
  LET padding == (-Len(response)) % 8
  IN  (IF Len(response) < 65536
         THEN RecordHeader(kFcgiStdout, Len(response), padding) \o response
              \o [i \in 1 .. padding |-> 0]
         ELSE response)
      \o endStdout \o endRequest

\* The callback of fastcgi_test.cc: the puzzle in the URI, solved, or a
\* complaint.  The header and the complaint are one byte each, and the puzzle
\* stands for its solution.
onRequest(params) ==
  LET uri == IF REQUEST_URI \in DOMAIN params THEN params[REQUEST_URI] ELSE <<>>
  IN  respond(<<13>> \o IF Len(uri) = kCells + Len(kPath) /\ SubSeq(uri, 1, Len(kPath)) = kPath
                          THEN SubSeq(uri, Len(kPath) + 1, Len(uri)) ELSE <<63>>)

\* One callback, however many requests the bytes completed; a request that
\* does not keep the connection shuts it down.
onFastCgiMessage(c) ==
  LET p == parseRequest(c)
  IN  IF ~p.gotRequest THEN p
      ELSE [p EXCEPT !.got = IF p.down THEN @
                             ELSE Append(@, [params |-> p.params, stdin |-> p.stdin,
                                                reply |-> onRequest(p.params)]),
                     !.stdin = <<>>, !.paramsStream = <<>>, !.params = <<>>,
                     !.gotRequest = FALSE, !.down = @ \/ ~p.keepConn]
=============================================================================
