----------------------------- MODULE HttpServer -----------------------------
(***************************************************************************)
(* HttpContext, HttpRequest, HttpResponse and HttpServer (net/http).  The  *)
(* input is a sequence of tokens, each one byte long to the buffer: words, *)
(* " ", "?", ":", "\r" and "\n".  A connection c holds the input buffer    *)
(* (buf), its HttpContext (state, request), the responses sent (got) and   *)
(* whether shutdown() was called (down), after which send() does nothing.  *)
(***************************************************************************)
EXTENDS Buffer, SequencesExt, FiniteSetsExt, Sequences, Integers, FiniteSets

Methods == {"GET", "POST", "HEAD", "PUT", "DELETE"}

NewRequest ==
  [method |-> "kInvalid", version |-> "kUnknown", path |-> <<>>, query |-> <<>>,
   headers |-> <<>>]

\* HttpContext as constructed and as reset() leaves it.
NewContext(c) == [c EXCEPT !.state = "kExpectRequestLine", !.request = NewRequest]

\* std::find: the position of x in s, or one past the end.
Find(s, x) ==
  IF x \in ToSet(s) THEN CHOOSE i \in DOMAIN s : s[i] = x /\ \A j \in 1 .. i - 1 : s[j] # x
                    ELSE Len(s) + 1

Before(s, i) == SubSeq(s, 1, i - 1)
After(s, i) == SubSeq(s, i + 1, Len(s))

setMethod(req, m) ==
  [req EXCEPT !.method = IF \E w \in Methods : m = <<w>> THEN m[1] ELSE "kInvalid"]

Version(s) ==
  IF s = <<"HTTP/1.", "1">> THEN "kHttp11"
  ELSE IF s = <<"HTTP/1.", "0">> THEN "kHttp10" ELSE "kUnknown"

\* The request after the line, and whether the line was accepted.  Fields set
\* before a later part of the line is found bad stay set.
processRequestLine(req, line) ==
  LET space  == Find(line, " ")
      r1     == setMethod(req, Before(line, space))
      rest   == After(line, space)
      space2 == Find(rest, " ")
      target == Before(rest, space2)
      quest  == Find(target, "?")
      version == Version(After(rest, space2))
      r2     == [r1 EXCEPT !.path = Before(target, quest),
                           !.query = IF quest <= Len(target)
                                       THEN SubSeq(target, quest, Len(target)) ELSE @]
  IN  IF space > Len(line) THEN [ok |-> FALSE, request |-> req]
      ELSE IF r1.method = "kInvalid" \/ space2 > Len(rest)
        THEN [ok |-> FALSE, request |-> r1]
      ELSE IF version = "kUnknown" THEN [ok |-> FALSE, request |-> r2]
      ELSE [ok |-> TRUE, request |-> [r2 EXCEPT !.version = version]]

Trimmed(s) ==
  LET words == {i \in DOMAIN s : s[i] # " "}
  IN  IF words = {} THEN <<>> ELSE SubSeq(s, Min(words), Max(words))

\* headers_ is a map: getHeader() finds the last value given to a field.
addHeader(req, line) ==
  LET colon == Find(line, ":")
  IN  [req EXCEPT !.headers =
         Append(@, [field |-> Before(line, colon), value |-> Trimmed(After(line, colon))])]

getHeader(req, field) ==
  LET hits == {i \in DOMAIN req.headers : req.headers[i].field = <<field>>}
  IN  IF hits = {} THEN <<>> ELSE req.headers[Max(hits)].value

\* parseRequest(): [ok, c].
RECURSIVE parseRequest(_)
parseRequest(c) ==
  LET crlf == findCRLF(c.buf)
      line == SubSeq(toStringPiece(c.buf), 1, crlf)
      rest == [c EXCEPT !.buf = retrieveUntil(@, crlf + 2)]
      done == processRequestLine(c.request, line)
  IN  IF c.state = "kGotAll" \/ crlf = -1 THEN [ok |-> TRUE, c |-> c]
      ELSE IF c.state = "kExpectRequestLine"
        THEN IF done.ok
               THEN parseRequest([rest EXCEPT !.request = done.request,
                                              !.state = "kExpectHeaders"])
               ELSE [ok |-> FALSE, c |-> [c EXCEPT !.request = done.request]]
      ELSE IF Find(line, ":") <= Len(line)
        THEN parseRequest([rest EXCEPT !.request = addHeader(@, line)])
      ELSE [ok |-> TRUE, c |-> [rest EXCEPT !.state = "kGotAll"]]

\* TcpConnection::send() and shutdown(), as the server uses them.
Send(c, response) == IF c.down THEN c ELSE [c EXCEPT !.got = Append(@, response)]
Shutdown(c) == [c EXCEPT !.down = TRUE]

MustClose(req) ==
  \/ getHeader(req, "Connection") = <<"close">>
  \/ req.version = "kHttp10" /\ getHeader(req, "Connection") # <<"Keep-Alive">>

NewResponse(close) == [status |-> "kUnknown", close |-> close, body |-> <<>>]

\* What appendToBuffer() writes: a kept connection needs the length of the body.
appendToBuffer(response) ==
  [status |-> response.status, body |-> response.body,
   connection |-> IF response.close THEN "close" ELSE "Keep-Alive",
   length |-> IF response.close THEN <<>> ELSE <<Len(response.body)>>]

-----------------------------------------------------------------------------
(***************************************************************************)
(* The HTTP callbacks of the Inspector (net/inspect) and of the URL        *)
(* shortener (examples/shorturl).  A path is a sequence of tokens, "/" and *)
(* words.  A body stands for what it was made from.                        *)
(***************************************************************************)
CONSTANTS modules_,       \* module -> its commands, as add() registered them
          redirections    \* the paths the URL shortener knows

\* split(): the non-empty parts between slashes.
split(path) ==
  LET step(parts, t) ==
        IF t = "/" THEN Append(parts, <<>>)
        ELSE Append(Front(parts), Append(Last(parts), t))
  IN  SelectSeq(FoldLeft(step, << <<>> >>, path), LAMBDA part : part # <<>>)

Ok(response, body) == [response EXCEPT !.status = "k200Ok", !.body = body]
NotFound(response) == [response EXCEPT !.status = "k404NotFound"]

\* Word w as one part of a path.
IsWord(part, w) == part = <<w>>

HasCommand(parts) ==
  \E m \in DOMAIN modules_ :
    IsWord(parts[1], m) /\ \E command \in modules_[m] : IsWord(parts[2], command)

\* Inspector::onRequest: the index, the icon, or the command's answer to the
\* remaining parts of the path.
inspect(req, response) ==
  LET parts == split(req.path)
  IN  IF req.path = <<"/">> THEN Ok(response, <<"index">>)
      ELSE IF Len(parts) = 1 /\ IsWord(parts[1], "favicon.ico") THEN Ok(response, <<"favicon">>)
      ELSE IF Len(parts) > 1 /\ HasCommand(parts) THEN Ok(response, parts)
      ELSE NotFound(response)

\* shorturl's inspect: redirections, and everything else closes.
shorturl(req, response) ==
  IF req.path \in redirections
    THEN [response EXCEPT !.status = "k301MovedPermanently", !.body = req.path]
  ELSE IF req.path = <<"/">> THEN Ok(response, <<"index">>)
  ELSE IF req.path = <<"/", "favicon.ico">> THEN Ok(response, <<"favicon">>)
  ELSE [NotFound(response) EXCEPT !.close = TRUE]

-----------------------------------------------------------------------------
\* HttpServer with the callback that the application sets.
httpCallback(server, req, response) ==
  IF server = "shorturl" THEN shorturl(req, response) ELSE inspect(req, response)

onRequest(server, c, req) ==
  LET response == httpCallback(server, req, NewResponse(MustClose(req)))
      sent     == Send(c, appendToBuffer(response))
  IN  IF response.close THEN Shutdown(sent) ELSE sent

BadRequest ==
  [status |-> "k400BadRequest", body |-> <<>>, connection |-> "", length |-> <<>>]

onMessage(server, c) ==
  LET p == parseRequest(c)
      d == IF p.ok THEN p.c ELSE Shutdown(Send(p.c, BadRequest))
  IN  IF d.state = "kGotAll" THEN NewContext(onRequest(server, d, d.request)) ELSE d
=============================================================================
