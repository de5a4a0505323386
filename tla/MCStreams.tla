------------------------------ MODULE MCStreams ------------------------------
(***************************************************************************)
(* The streams of every protocol, the buffer on its own, the calendar and  *)
(* the log stream, in one state space: a behaviour is about one of them,   *)
(* `which', and the variables of the others stay as they are.              *)
(***************************************************************************)
EXTENDS BufferQueue

CONSTANTS kMaxLength, kMaxMessageLen, kCells, kMaxLine, MaxItems

VARIABLES which,
          proto, items, rest, conn, lag,
          year, month, day, days, zone, now,
          data, touched, given

MCChunks == {<<1>>, <<0, 1>>}
MCmodules == [m \in {"proc", "sys"} |-> IF m = "proc" THEN {"pid"} ELSE {"uptime"}]

S == INSTANCE Streams WITH
       tag_ <- <<82>>, KnownTypes <- {<<65>>, <<66, 67>>}, Registered <- {<<65>>},
       modules_ <- MCmodules, redirections <- {<<"/", "1">>, <<"/", "2">>}
C == INSTANCE Conversions WITH
       FirstYear <- 1899, LastYear <- 2104, Hour <- 2, LastUnit <- 80,
       SIZE <- 8, kMaxNumericSize <- 5, Width <- 5, MaxOperands <- 2

streamVars == <<proto, items, rest, conn, lag>>
calendarVars == <<year, month, day, days, zone, now>>
mcvars == <<which, b, op, streamVars, calendarVars, data, touched, given>>

MCInit ==
  /\ which \in {"streams", "buffer", "calendar", "log"}
  /\ Init /\ C!StreamInit
  /\ IF which = "streams" THEN S!Init ELSE proto = "" /\ items = <<>> /\ rest = <<>> /\ conn = <<>> /\ lag = 0
  /\ IF which = "calendar" THEN C!CalendarInit
     ELSE year = 0 /\ month = 0 /\ day = 0 /\ days = 0 /\ zone = <<>> /\ now = 0

MCNext ==
  \/ which = "streams" /\ S!Next /\ UNCHANGED <<which, b, op, calendarVars, data, touched, given>>
  \/ which = "buffer" /\ Next /\ UNCHANGED <<which, streamVars, calendarVars, data, touched, given>>
  \/ which = "calendar" /\ C!CalendarNext /\ UNCHANGED <<which, b, op, streamVars, data, touched, given>>
  \/ which = "log" /\ C!StreamNext /\ UNCHANGED <<which, b, op, streamVars, calendarVars>>

MCSpec == MCInit /\ [][MCNext]_mcvars

-----------------------------------------------------------------------------
\* However the network cuts a stream, a connection delivers the items that were sent, whole
\* and in order, and stops at the first that is bad: Streams!DeliversWholeItems, for each
\* codec of the repository.
DeliversWholeItems == which = "streams" => S!DeliversWholeItems

\* Conversions lose nothing: dates to day numbers and back, moments to local time and back,
\* numbers to the digits in a fixed buffer (Date.cc:25, TimeZone.cc:312, LogStream.cc:33).
ConversionsAreExact ==
  /\ which = "calendar" => C!DateAgrees /\ C!ZoneRoundTrips
  /\ which = "log" => C!StreamIsWhole
=============================================================================
