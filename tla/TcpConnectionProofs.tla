------------------------ MODULE TcpConnectionProofs ------------------------
(***************************************************************************)
(* Theorems about TcpConnection, for any messages, any size of them and    *)
(* any number of calls.                                                    *)
(***************************************************************************)
EXTENDS TcpConnection, SequenceTheorems, TLAPS

(* The prover of each step that names none. *)
USE ZenonT(60)

-----------------------------------------------------------------------------
(* Queues.                                                                 *)

(* What a queue holds after one more was pushed. *)
LEMMA Pushed ==
  ASSUME NEW S, NEW q \in Seq(S), NEW f \in S
  PROVE  /\ q \o <<f>> \in Seq(S)
         /\ q \o <<f>> # <<>>
         /\ Range(q \o <<f>>) = Range(q) \cup {f}
         /\ DOMAIN (q \o <<f>>) = DOMAIN q \cup {Len(q) + 1}
         /\ Len(q) + 1 \notin DOMAIN q
         /\ (q \o <<f>>)[Len(q) + 1] = f
         /\ \A i \in DOMAIN q : (q \o <<f>>)[i] = q[i]
  <1> DEFINE r == q \o <<f>>
  <1>1. r \in Seq(S) /\ Len(r) = Len(q) + 1 /\ Len(q) \in Nat
    BY SMT
  <1>2. DOMAIN q = 1..Len(q) /\ DOMAIN r = 1..(Len(q) + 1)
    BY SMT, <1>1
  <1>3. (\A i \in DOMAIN q : r[i] = q[i]) /\ r[Len(q) + 1] = f
    BY SMT, <1>2
  <1>4. DOMAIN r = DOMAIN q \cup {Len(q) + 1} /\ Len(q) + 1 \notin DOMAIN q
    BY SMT, <1>1, <1>2
  <1>5. r # <<>>
    BY SMT, <1>1
  <1> HIDE DEF r
  <1>6. Range(r) = Range(q) \cup {f}
    BY <1>3, <1>4 DEF Range
  <1>7. QED
    BY <1>1, <1>3, <1>4, <1>5, <1>6 DEF r

LEMMA PushedNone ==
  ASSUME NEW S, NEW q \in Seq(S)
  PROVE  q \o <<>> = q
  BY SMT

LEMMA EmptyRange == Range(<<>>) = {} /\ DOMAIN <<>> = {}
  BY SMT DEF Range

(* What is left once the first was taken. *)
LEMMA Popped ==
  ASSUME NEW S, NEW q \in Seq(S), q # <<>>
  PROVE  /\ Head(q) \in S /\ Tail(q) \in Seq(S)
         /\ Range(q) = {Head(q)} \cup Range(Tail(q))
         /\ 1 \in DOMAIN q /\ q[1] = Head(q)
         /\ \A i \in DOMAIN Tail(q) : i + 1 \in DOMAIN q /\ i + 1 # 1 /\ Tail(q)[i] = q[i + 1]
         /\ \A i, j \in DOMAIN Tail(q) : i + 1 = j + 1 => i = j
  <1> DEFINE r == Tail(q)
  <1>1. Len(q) \in Nat \ {0} /\ DOMAIN q = 1..Len(q)
    BY SMT
  <1>2. r \in Seq(S) /\ Len(r) = Len(q) - 1 /\ DOMAIN r = 1..(Len(q) - 1)
    BY SMT, <1>1
  <1>3. \A i \in DOMAIN r : r[i] = q[i + 1]
    BY SMT, <1>1, <1>2
  <1>4. Head(q) \in S /\ Head(q) = q[1]
    BY SMT, <1>1
  <1> HIDE DEF r
  <1>5. \A i \in DOMAIN r : i + 1 \in DOMAIN q /\ i + 1 # 1
    BY SMT, <1>1, <1>2
  <1>6. \A j \in DOMAIN q : j = 1 \/ (j - 1 \in DOMAIN r /\ j - 1 + 1 = j)
    BY SMT, <1>1, <1>2
  <1>7. Range(q) \subseteq {Head(q)} \cup Range(r)
    BY SMT, <1>3, <1>4, <1>6 DEF Range
  <1>8. {Head(q)} \cup Range(r) \subseteq Range(q)
    BY SMT, <1>1, <1>3, <1>4, <1>5 DEF Range
  <1>9. \A i, j \in DOMAIN r : i + 1 = j + 1 => i = j
    BY SMT, <1>1, <1>2
  <1>10. QED
    BY SMT, <1>1, <1>2, <1>3, <1>4, <1>5, <1>7, <1>8, <1>9 DEF r

LEMMA PushedOnce ==
  ASSUME NEW op, NEW q \in Seq(Functors), NEW f \in Functors,
         AtMostOnce(q, op), f.op = op => \A g \in Range(q) : g.op # op
  PROVE  AtMostOnce(q \o <<f>>, op)
  BY SMTT(60), Pushed DEF AtMostOnce, Range

LEMMA PoppedOnce ==
  ASSUME NEW op, NEW q \in Seq(Functors), q # <<>>, AtMostOnce(q, op)
  PROVE  /\ AtMostOnce(Tail(q), op)
         /\ Head(q).op = op => \A g \in Range(Tail(q)) : g.op # op
  BY SMT, Popped DEF AtMostOnce, Range

-----------------------------------------------------------------------------
(* The callbacks of one handleEvent().                                     *)

Reactions == {"close", "error", "read", "write"}

LEMMA CallbacksShape ==
  ASSUME NEW r \in SUBSET {"in", "out", "err", "hup"}
  PROVE  /\ Callbacks(r) \in Seq(Reactions)
         /\ OneCloser(Callbacks(r)) /\ ClosesFirst(Callbacks(r))
  <1> DEFINE hung == "hup" \in r /\ "in" \notin r
             c1 == IF hung THEN <<"close">> ELSE <<>>
             c2 == c1 \o (IF "err" \in r THEN <<"error">> ELSE <<>>)
             c3 == c2 \o (IF r \cap kReadEvent # {} THEN <<"read">> ELSE <<>>)
             c4 == c3 \o (IF "out" \in r THEN <<"write">> ELSE <<>>)
  <1>0. Callbacks(r) = c4
    BY DEF Callbacks
  <1>1. /\ c1 \in Seq(Reactions) /\ OneCloser(c1)
        /\ Range(c1) \cap Closers = {} \/ hung
    <2>1. CASE hung
      BY SMT, <2>1 DEF OneCloser, Reactions
    <2>2. CASE ~hung
      BY SMT, <2>2, EmptyRange DEF OneCloser
    <2>3. QED BY <2>1, <2>2
  <1> HIDE DEF c1
  <1>2. /\ c2 \in Seq(Reactions) /\ OneCloser(c2)
        /\ Range(c2) \cap Closers = {} \/ hung
    <2>1. CASE "err" \in r
      BY SMT, <1>1, <2>1, Pushed DEF OneCloser, Reactions, Closers
    <2>2. CASE "err" \notin r
      BY <1>1, <2>2, PushedNone
    <2>3. QED BY <2>1, <2>2
  <1> HIDE DEF c2
  <1>a. c1 \in Seq(Reactions \ {"write"})
    <2>1. "close" \in Reactions \ {"write"}
      BY DEF Reactions
    <2>2. <<"close">> \in Seq(Reactions \ {"write"}) /\ <<>> \in Seq(Reactions \ {"write"})
      BY SMT, <2>1
    <2>3. QED
      BY <2>2 DEF c1
  <1>b. c2 \in Seq(Reactions \ {"write"})
    <2>1. "error" \in Reactions \ {"write"}
      BY DEF Reactions
    <2>2. c1 \o <<"error">> \in Seq(Reactions \ {"write"}) /\ c1 \o <<>> = c1
      BY <1>a, <2>1, Pushed, PushedNone
    <2>3. QED
      BY <1>a, <2>2 DEF c2
  <1>3. /\ c3 \in Seq(Reactions) /\ OneCloser(c3)
    <2>1. CASE r \cap kReadEvent # {}
      <3>1. ~hung
        BY <2>1 DEF kReadEvent
      <3>2. \A i \in DOMAIN c2 : c2[i] \notin Closers
        BY <1>2, <3>1 DEF Range
      <3>3. c3 = c2 \o <<"read">> /\ "read" \in Reactions
        BY <2>1 DEF Reactions
      <3>4. QED
        BY SMT, <1>2, <3>2, <3>3, Pushed DEF OneCloser
    <2>2. CASE r \cap kReadEvent = {}
      BY <1>2, <2>2, PushedNone
    <2>3. QED BY <2>1, <2>2
  <1>c. c3 \in Seq(Reactions \ {"write"})
    BY <1>b, Pushed, PushedNone DEF Reactions
  <1> HIDE DEF c3
  <1>d. ClosesFirst(c4)
    <2>0. \A i \in DOMAIN c3 : c3[i] # "write"
      BY SMT, <1>c
    <2>1. CASE "out" \in r
      <3>1. c4 = c3 \o <<"write">> /\ "write" \in Reactions
        BY <2>1 DEF Reactions
      <3>2. DOMAIN c3 = 1..Len(c3) /\ Len(c3) \in Nat
        BY SMT, <1>3
      <3>3. \A i \in DOMAIN c4 : c4[i] \in Closers => i \in DOMAIN c3
        BY SMT, <1>3, <3>1, Pushed DEF Closers
      <3>4. \A j \in DOMAIN c4 : c4[j] = "write" => j = Len(c3) + 1
        BY SMT, <1>3, <2>0, <3>1, Pushed
      <3>5. QED
        BY SMT, <3>2, <3>3, <3>4 DEF ClosesFirst
    <2>2. CASE "out" \notin r
      <3>1. c4 = c3
        BY <1>3, <2>2, PushedNone
      <3>2. QED
        BY <2>0, <3>1 DEF ClosesFirst
    <2>3. QED BY <2>1, <2>2
  <1>4. /\ c4 \in Seq(Reactions) /\ OneCloser(c4)
    <2>1. CASE "out" \in r
      BY SMT, <1>3, <2>1, Pushed DEF OneCloser, Reactions, Closers
    <2>2. CASE "out" \notin r
      BY <1>3, <2>2, PushedNone
    <2>3. QED BY <2>1, <2>2
  <1>5. QED
    BY <1>0, <1>4, <1>d

-----------------------------------------------------------------------------
(* The channel of a connection.                                            *)

LEMMA InterestFacts ==
  ASSUME NEW e \in Interests
  PROVE  /\ {} \in Interests /\ ~isReading({}) /\ ~isWriting({})
         /\ e = {} <=> ~isReading(e) /\ ~isWriting(e)
         /\ enableReading(e) \in Interests /\ isReading(enableReading(e))
         /\ isWriting(enableReading(e)) = isWriting(e)
         /\ disableReading(e) \in Interests /\ ~isReading(disableReading(e))
         /\ isWriting(disableReading(e)) = isWriting(e)
         /\ enableWriting(e) \in Interests /\ isWriting(enableWriting(e))
         /\ isReading(enableWriting(e)) = isReading(e)
         /\ disableWriting(e) \in Interests /\ ~isWriting(disableWriting(e))
         /\ isReading(disableWriting(e)) = isReading(e)
         /\ isReading(e) \in BOOLEAN /\ isWriting(e) \in BOOLEAN
  BY DEF Interests, enableReading, disableReading, enableWriting, disableWriting, isReading,
         isWriting, kReadEvent, kWriteEvent

LEMMA UpdatedFacts ==
  ASSUME NEW c \in Connections, NEW e \in Interests
  PROVE  /\ Updated(c, e) \in Connections
         /\ Updated(c, e).state = c.state /\ Updated(c, e).reading = c.reading
         /\ Updated(c, e).events = e
         /\ Updated(c, e).index = IF c.index = "kAdded" /\ e = {} THEN "kDeleted" ELSE "kAdded"
         /\ Updated(c, e).output = c.output /\ Updated(c, e).writeShut = c.writeShut
  BY DEF Updated, Connections

LEMMA ClosedFacts ==
  ASSUME NEW c \in Connections
  PROVE  /\ Closed(c) \in Connections
         /\ Closed(c).state = "kDisconnected" /\ Closed(c).events = {}
         /\ Closed(c).index = IF c.index = "kAdded" THEN "kDeleted" ELSE "kAdded"
         /\ Closed(c).reading = c.reading
         /\ Closed(c).output = c.output /\ Closed(c).writeShut = c.writeShut
  BY InterestFacts DEF Closed, Updated, Connections, States, Interests

LEMMA DrainedFacts ==
  ASSUME NEW c \in Connections
  PROVE  /\ Drained(c) \in Connections
         /\ Drained(c).state = c.state /\ Drained(c).reading = c.reading
         /\ Drained(c).events = disableWriting(c.events)
         /\ Drained(c).index = IF c.index = "kAdded" /\ Drained(c).events = {}
                               THEN "kDeleted" ELSE "kAdded"
         /\ Drained(c).output = <<>>
         /\ c.state = "kDisconnecting" => Drained(c).writeShut
         /\ c.writeShut => Drained(c).writeShut
  <1> DEFINE u == Unwatched(c)
  <1>1. disableWriting(c.events) \in Interests /\ ~isWriting(disableWriting(c.events))
    BY InterestFacts DEF Connections
  <1>2. /\ u \in Connections /\ u.state = c.state /\ u.reading = c.reading
        /\ u.events = disableWriting(c.events) /\ u.output = <<>> /\ u.writeShut = c.writeShut
        /\ u.index = IF c.index = "kAdded" /\ u.events = {} THEN "kDeleted" ELSE "kAdded"
    <2> DEFINE v == Updated(c, disableWriting(c.events))
    <2>1. /\ v \in Connections /\ v.state = c.state /\ v.reading = c.reading
          /\ v.events = disableWriting(c.events) /\ v.writeShut = c.writeShut
          /\ v.index = IF c.index = "kAdded" /\ v.events = {} THEN "kDeleted" ELSE "kAdded"
      BY SMT, <1>1, UpdatedFacts
    <2>2. u = [v EXCEPT !.output = <<>>] /\ <<>> \in Seq(Messages)
      BY SMT DEF Unwatched
    <2> HIDE DEF u, v
    <2>3. QED
      BY <2>1, <2>2 DEF Connections
  <1> HIDE DEF u
  <1>3. /\ Shut(u) \in Connections /\ Shut(u).state = c.state /\ Shut(u).reading = c.reading
        /\ Shut(u).events = u.events /\ Shut(u).output = <<>> /\ Shut(u).writeShut
        /\ Shut(u).index = u.index
    BY <1>1, <1>2 DEF Shut, ShutNow, Connections
  <1>4. QED
    BY <1>2, <1>3 DEF Drained, u

LEMMA ReadFacts ==
  ASSUME NEW c \in Connections
  PROVE  /\ StartedRead(c) \in Connections /\ StoppedRead(c) \in Connections
         /\ \A d \in {StartedRead(c), StoppedRead(c)} :
              /\ d.state = c.state /\ d.output = c.output /\ d.writeShut = c.writeShut
              /\ isWriting(d.events) = isWriting(c.events)
         /\ StartedRead(c).reading /\ isReading(StartedRead(c).events)
         /\ ~StoppedRead(c).reading /\ ~isReading(StoppedRead(c).events)
         /\ \/ StartedRead(c) = c
            \/ StartedRead(c).index = "kAdded"
         /\ \/ StoppedRead(c) = c
            \/ StoppedRead(c).index = IF c.index = "kAdded" /\ StoppedRead(c).events = {}
                                      THEN "kDeleted" ELSE "kAdded"
  <1> DEFINE on == Updated(c, enableReading(c.events))
             off == Updated(c, disableReading(c.events))
             r == enableReading(c.events)
             n == disableReading(c.events)
  <1>1. c.events \in Interests /\ c.reading \in BOOLEAN
    BY DEF Connections
  <1>a. r \in Interests /\ isReading(r) /\ isWriting(r) = isWriting(c.events)
    BY <1>1, InterestFacts
  <1>b. n \in Interests /\ ~isReading(n) /\ isWriting(n) = isWriting(c.events)
    BY <1>1, InterestFacts
  <1>c. r # {}
    BY <1>a, InterestFacts
  <1> HIDE DEF r, n
  <1>2. /\ on \in Connections /\ on.state = c.state /\ on.output = c.output
        /\ on.writeShut = c.writeShut /\ on.events = r /\ on.index = "kAdded"
    BY <1>a, <1>c, UpdatedFacts DEF r
  <1>3. /\ off \in Connections /\ off.state = c.state /\ off.output = c.output
        /\ off.writeShut = c.writeShut /\ off.events = n
        /\ off.index = IF c.index = "kAdded" /\ off.events = {} THEN "kDeleted" ELSE "kAdded"
    BY SMT, <1>b, UpdatedFacts DEF n
  <1>4. /\ StartedRead(c) = IF ~c.reading \/ ~isReading(c.events)
                            THEN [on EXCEPT !.reading = TRUE] ELSE c
        /\ StoppedRead(c) = IF c.reading \/ isReading(c.events)
                            THEN [off EXCEPT !.reading = FALSE] ELSE c
    BY DEF StartedRead, StoppedRead
  <1> HIDE DEF on, off
  <1>5. /\ StartedRead(c) \in Connections
        /\ StartedRead(c).state = c.state /\ StartedRead(c).output = c.output
        /\ StartedRead(c).writeShut = c.writeShut
        /\ isWriting(StartedRead(c).events) = isWriting(c.events)
        /\ StartedRead(c).reading /\ isReading(StartedRead(c).events)
        /\ StartedRead(c) = c \/ StartedRead(c).index = "kAdded"
    BY <1>1, <1>2, <1>4, <1>a DEF Connections
  <1>6. /\ StoppedRead(c) \in Connections
        /\ StoppedRead(c).state = c.state /\ StoppedRead(c).output = c.output
        /\ StoppedRead(c).writeShut = c.writeShut
        /\ isWriting(StoppedRead(c).events) = isWriting(c.events)
        /\ ~StoppedRead(c).reading /\ ~isReading(StoppedRead(c).events)
        /\ \/ StoppedRead(c) = c
           \/ StoppedRead(c).index = IF c.index = "kAdded" /\ StoppedRead(c).events = {}
                                     THEN "kDeleted" ELSE "kAdded"
    BY <1>1, <1>3, <1>4, <1>b DEF Connections
  <1>7. QED
    BY <1>5, <1>6

-----------------------------------------------------------------------------
(* What the handlers do, without what they do it to.                       *)

LEMMA FunctorFacts ==
  /\ \A op \in SharedFunctors : Functor(op) \in Functors /\ Functor(op).op = op
  /\ \A m \in Messages : [op |-> "send", msg |-> m] \in Functors
  /\ \A f \in Functors : f.op = "send" => f.msg \in Messages
  /\ \A f \in Functors : f.op \in SharedFunctors \cup {"send"}
  /\ "send" \notin SharedFunctors
  /\ "connectEstablished" \in SharedFunctors /\ "connectDestroyed" \in SharedFunctors
  /\ "forceClose" \in SharedFunctors
  /\ "writeComplete" \in SharedFunctors /\ "highWater" \in SharedFunctors
  BY DEF Functor, Functors, SharedFunctors

(* The functors that the output side queues. *)
Told == {Functor("writeComplete"), Functor("highWater")}

LEMMA WritesFacts ==
  ASSUME NEW n \in Nat, NEW w \in Writes(n)
  PROVE  /\ w.n \in 0..n /\ w.fault \in BOOLEAN
         /\ w.fault => w.n = 0
         /\ conn.writeShut => w.fault
  <1>1. CASE w = [n |-> 0, fault |-> TRUE]
    BY SMT, <1>1
  <1>2. CASE ~conn.writeShut /\ w \in [n : 0..n, fault : {FALSE}]
    BY <1>2
  <1>3. QED
    BY <1>1, <1>2 DEF Writes

LEMMA ChunkFacts ==
  ASSUME NEW m \in Messages, NEW n \in 0..Size
  PROVE  /\ Chunks(m) \in Seq(Messages) /\ Len(Chunks(m)) = Size
         /\ SubSeq(Chunks(m), 1, n) \in Seq(Messages)
         /\ SubSeq(Chunks(m), n + 1, Size) \in Seq(Messages)
  BY SMT, SizeAssumption DEF Chunks

(* sendInLoop() while the connection is up: n chunks go out at once, and   *)
(* then either the write failed, or all is written, or the rest waits.     *)
SendCase(m, n) ==
  LET rest == SubSeq(Chunks(m), n + 1, Size)
  IN  /\ wire' = wire \o SubSeq(Chunks(m), 1, n)
      /\ ~WritesDirectly => n = 0
      /\ \/ n = 0 /\ UNCHANGED <<conn, taken, pending>>
         \/ /\ conn.writeShut => ~WritesDirectly
            /\ taken' = Append(taken, m)
            /\ rest = <<>>
            /\ conn' = conn
            /\ pending' = pending \o <<Functor("writeComplete")>>
         \/ /\ conn.writeShut => ~WritesDirectly
            /\ taken' = Append(taken, m)
            /\ rest # <<>>
            /\ conn' = [Updated(conn, enableWriting(conn.events)) EXCEPT !.output = conn.output \o rest]
            /\ pending' = pending \/ pending' = pending \o <<Functor("highWater")>>

LEMMA SendCases ==
  ASSUME TypeOK, NEW m \in Messages, sendInLoop(m), conn.state # "kDisconnected"
  PROVE  \E n \in 0..Size : SendCase(m, n)
  <1> DEFINE Choices == IF WritesDirectly THEN Writes(Size) ELSE {[n |-> 0, fault |-> FALSE]}
             Rest(n) == SubSeq(Chunks(m), n + 1, Size)
             Crosses(n) == CrossesHighWater(Len(conn.output), Len(conn.output \o Rest(n)))
             Waiting(n) == [Updated(conn, enableWriting(conn.events))
                              EXCEPT !.output = conn.output \o Rest(n)]
  <1>1. PICK w \in Choices :
          /\ wire' = wire \o SubSeq(Chunks(m), 1, w.n)
          /\ IF w.fault
             THEN UNCHANGED <<conn, taken, pending>>
             ELSE /\ taken' = Append(taken, m)
                  /\ conn' = IF Rest(w.n) = <<>> THEN conn ELSE Waiting(w.n)
                  /\ pending' = pending \o (IF Rest(w.n) = <<>> THEN <<Functor("writeComplete")>>
                                            ELSE IF Crosses(w.n)
                                            THEN <<Functor("highWater")>> ELSE <<>>)
    BY DEF sendInLoop, Queue
  <1>2. /\ w.n \in 0..Size /\ w.fault \in BOOLEAN /\ (w.fault => w.n = 0)
        /\ (~WritesDirectly => w.n = 0) /\ (WritesDirectly /\ conn.writeShut => w.fault)
    <2>1. CASE WritesDirectly
      BY <2>1, SizeAssumption, WritesFacts
    <2>2. CASE ~WritesDirectly
      <3>1. w = [n |-> 0, fault |-> FALSE]
        BY <1>1, <2>2
      <3>2. w.n = 0 /\ ~w.fault /\ w.fault \in BOOLEAN
        BY <3>1
      <3>3. QED
        BY SMT, <2>2, <3>2, SizeAssumption
    <2>3. QED
      BY <2>1, <2>2
  <1>3. pending \o <<>> = pending
    BY PushedNone DEF TypeOK
  <1> DEFINE n == w.n
  <1> HIDE DEF Choices, Rest, Waiting, Crosses
  <1>4. CASE w.fault
    BY <1>1, <1>2, <1>4 DEF SendCase
  <1>5. CASE ~w.fault /\ Rest(n) = <<>>
    BY <1>1, <1>2, <1>5 DEF Rest, SendCase
  <1>6. CASE ~w.fault /\ Rest(n) # <<>>
    <2>1. taken' = Append(taken, m) /\ conn' = Waiting(n) /\ (conn.writeShut => ~WritesDirectly)
      BY <1>1, <1>2, <1>6
    <2>2. pending' = pending \/ pending' = pending \o <<Functor("highWater")>>
      BY <1>1, <1>3, <1>6
    <2>3. QED
      BY <1>1, <1>2, <1>6, <2>1, <2>2 DEF Rest, Waiting, SendCase
  <1>7. QED
    BY <1>2, <1>4, <1>5, <1>6

LEMMA SendEffect ==
  ASSUME TypeOK, NEW m \in Messages, sendInLoop(m)
  PROVE  /\ conn' \in Connections /\ wire' \in Seq(Messages) /\ taken' \in Seq(Messages)
         /\ conn'.state = conn.state /\ conn'.reading = conn.reading
         /\ conn'.writeShut = conn.writeShut
         /\ isReading(conn'.events) = isReading(conn.events)
         /\ \/ conn' = conn
            \/ /\ conn.state # "kDisconnected"
               /\ conn'.index = "kAdded" /\ isWriting(conn'.events)
         /\ pending' = pending \/ \E f \in Told : pending' = pending \o <<f>>
  <1>1. CASE conn.state = "kDisconnected"
    BY <1>1 DEF sendInLoop, TypeOK, outVars
  <1>2. CASE conn.state # "kDisconnected"
    <2> DEFINE e == enableWriting(conn.events)
               u == Updated(conn, e)
               Rest(n) == SubSeq(Chunks(m), n + 1, Size)
    <2>0. PICK n \in 0..Size : SendCase(m, n)
      BY <1>2, SendCases
    <2>1. /\ wire' = wire \o SubSeq(Chunks(m), 1, n)
          /\ taken' = taken \/ taken' = Append(taken, m)
          /\ conn' = conn \/ conn' = [u EXCEPT !.output = conn.output \o Rest(n)]
          /\ pending' = pending \/ \E f \in Told : pending' = pending \o <<f>>
      <3>1. CASE UNCHANGED <<conn, taken, pending>>
        BY <2>0, <3>1 DEF SendCase
      <3>2. CASE taken' = Append(taken, m) /\ conn' = conn /\ pending' = pending \o <<Functor("writeComplete")>>
        BY <2>0, <3>2 DEF SendCase, Told
      <3>3. CASE /\ taken' = Append(taken, m) /\ conn' = [u EXCEPT !.output = conn.output \o Rest(n)]
                 /\ pending' = pending \/ pending' = pending \o <<Functor("highWater")>>
        BY <2>0, <3>3 DEF SendCase, Told
      <3>4. QED
        BY <2>0, <3>1, <3>2, <3>3 DEF SendCase
    <2>2. /\ wire \in Seq(Messages) /\ taken \in Seq(Messages) /\ conn \in Connections
          /\ conn.events \in Interests /\ conn.output \in Seq(Messages)
      BY DEF TypeOK, Connections
    <2>3. SubSeq(Chunks(m), 1, n) \in Seq(Messages) /\ Rest(n) \in Seq(Messages)
      BY ChunkFacts
    <2>4. /\ wire' \in Seq(Messages) /\ taken' \in Seq(Messages)
          /\ conn.output \o Rest(n) \in Seq(Messages)
      <3>1. wire' = wire \o SubSeq(Chunks(m), 1, n) /\ (taken' = taken \/ taken' = Append(taken, m))
        BY <2>1
      <3> DEFINE first == SubSeq(Chunks(m), 1, n)
                 last == Rest(n)
      <3>2. first \in Seq(Messages) /\ last \in Seq(Messages)
        BY <2>3
      <3> HIDE DEF first, last
      <3>3. conn.output \o last \in Seq(Messages) /\ wire \o first \in Seq(Messages)
        BY SMT, <2>2, <3>2
      <3>4. Append(taken, m) \in Seq(Messages)
        BY SMT, <2>2
      <3>5. QED
        BY <2>2, <3>1, <3>3, <3>4 DEF first, last
    <2>5. e \in Interests /\ isWriting(e) /\ isReading(e) = isReading(conn.events)
      BY <2>2, InterestFacts
    <2>6. e # {}
      BY <2>5, InterestFacts
    <2> HIDE DEF e
    <2>7. /\ u \in Connections /\ u.state = conn.state /\ u.reading = conn.reading
          /\ u.writeShut = conn.writeShut /\ u.events = e /\ u.index = "kAdded"
      BY <2>2, <2>5, <2>6, UpdatedFacts
    <2> HIDE DEF u, Rest
    <2>8. QED
      BY <1>2, <2>1, <2>2, <2>4, <2>5, <2>7 DEF Connections
  <1>3. QED
    BY <1>1, <1>2

LEMMA WriteEffect ==
  ASSUME TypeOK, handleWrite
  PROVE  /\ conn' \in Connections /\ wire' \in Seq(Messages) /\ taken' = taken
         /\ conn'.state = conn.state /\ conn'.reading = conn.reading
         /\ isReading(conn'.events) = isReading(conn.events)
         /\ UNCHANGED <<cbVars, failed>>
         /\ \/ conn'.events = conn.events /\ conn'.index = conn.index
            \/ /\ isWriting(conn.events)
               /\ conn'.index = IF conn.index = "kAdded" /\ conn'.events = {}
                                THEN "kDeleted" ELSE "kAdded"
         /\ ~isWriting(conn.events) => conn' = conn
         /\ pending' = pending \/ \E f \in Told : pending' = pending \o <<f>>
  <1>0. /\ conn \in Connections /\ conn.events \in Interests /\ conn.output \in Seq(Messages)
        /\ wire \in Seq(Messages) /\ pending \in Seq(Functors)
    BY DEF TypeOK, Connections
  <1>1. CASE ~isWriting(conn.events)
    BY <1>0, <1>1 DEF handleWrite
  <1>2. CASE isWriting(conn.events)
    <2> DEFINE len == Len(conn.output)
               Rest(w) == SubSeq(conn.output, w.n + 1, len)
    <2>1. PICK w \in Writes(len) :
            /\ wire' = wire \o SubSeq(conn.output, 1, w.n)
            /\ conn' = IF w.n > 0 /\ Rest(w) = <<>> THEN Drained(conn)
                       ELSE [conn EXCEPT !.output = Rest(w)]
            /\ pending' = pending \o (IF w.n > 0 /\ Rest(w) = <<>>
                                      THEN <<Functor("writeComplete")>> ELSE <<>>)
      BY <1>2 DEF handleWrite, Queue
    <2>2. w.n \in 0..len /\ len \in Nat
      BY SMTT(60), <1>0, <2>1, WritesFacts
    <2>3. SubSeq(conn.output, 1, w.n) \in Seq(Messages) /\ Rest(w) \in Seq(Messages)
      BY SMTT(60), <1>0, <2>2
    <2>4. wire' \in Seq(Messages)
      BY SMT, <1>0, <2>1, <2>3
    <2>5. pending' = pending \/ \E f \in Told : pending' = pending \o <<f>>
      BY SMTT(60), <1>0, <2>1 DEF Told
    <2>6. UNCHANGED <<taken, cbVars, failed>>
      BY DEF handleWrite
    <2>7. isReading(disableWriting(conn.events)) = isReading(conn.events)
      BY <1>0, InterestFacts
    <2> HIDE DEF Rest
    <2>8. CASE conn' = Drained(conn)
      BY <1>0, <1>2, <2>4, <2>5, <2>6, <2>7, <2>8, DrainedFacts
    <2>9. CASE conn' = [conn EXCEPT !.output = Rest(w)]
      BY <1>0, <1>2, <2>3, <2>4, <2>5, <2>6, <2>9 DEF Connections
    <2>10. QED
      BY <2>1, <2>8, <2>9
  <1>3. QED
    BY <1>1, <1>2

-----------------------------------------------------------------------------
(* Types, the order of a loop's iteration, and the time before             *)
(* connectEstablished(), whatever the program does.                        *)

LEMMA StateChange ==
  ASSUME NEW c \in Connections, NEW st \in States
  PROVE  /\ [c EXCEPT !.state = st] \in Connections
         /\ [c EXCEPT !.state = st].state = st
         /\ [c EXCEPT !.state = st].events = c.events
         /\ [c EXCEPT !.state = st].index = c.index
         /\ [c EXCEPT !.state = st].reading = c.reading
         /\ [c EXCEPT !.state = st].output = c.output
         /\ [c EXCEPT !.state = st].writeShut = c.writeShut
  BY DEF Connections

LEMMA ShutFacts ==
  ASSUME NEW c \in Connections
  PROVE  /\ Shut(c) \in Connections /\ Shut(c).state = c.state /\ Shut(c).events = c.events
         /\ Shut(c).index = c.index /\ Shut(c).reading = c.reading /\ Shut(c).output = c.output
         /\ Shut(c).writeShut = (c.writeShut \/ ~isWriting(c.events))
  BY DEF Shut, ShutNow, Connections

LEMMA EstablishedFacts ==
  ASSUME NEW c \in Connections
  PROVE  LET d == Updated([c EXCEPT !.state = "kConnected"], enableReading(c.events))
         IN  /\ d \in Connections /\ d.state = "kConnected" /\ isReading(d.events)
             /\ isWriting(d.events) = isWriting(c.events)
             /\ d.index = "kAdded" /\ d.reading = c.reading /\ d.output = c.output
             /\ d.writeShut = c.writeShut /\ d.events # {}
  <1>1. c.events \in Interests
    BY DEF Connections
  <1> DEFINE e == enableReading(c.events)
             b == [c EXCEPT !.state = "kConnected"]
  <1>2. e \in Interests /\ isReading(e) /\ isWriting(e) = isWriting(c.events)
    BY <1>1, InterestFacts
  <1>3. e # {}
    BY <1>2, InterestFacts
  <1>4. /\ b \in Connections /\ b.state = "kConnected" /\ b.reading = c.reading
        /\ b.output = c.output /\ b.writeShut = c.writeShut
    BY StateChange DEF States
  <1> HIDE DEF e, b
  <1> DEFINE d == Updated(b, e)
  <1>5. /\ d \in Connections /\ d.state = b.state /\ d.reading = b.reading /\ d.events = e
        /\ d.index = "kAdded" /\ d.output = b.output /\ d.writeShut = b.writeShut
    BY <1>2, <1>3, <1>4, UpdatedFacts
  <1> HIDE DEF d
  <1>6. d = Updated([c EXCEPT !.state = "kConnected"], enableReading(c.events))
    BY DEF d, e, b
  <1>7. QED
    BY <1>2, <1>3, <1>4, <1>5, <1>6

LEMMA RemovedFacts ==
  ASSUME NEW c \in Connections
  PROVE  /\ Removed(c) \in Connections /\ Removed(c).index = "kNew"
         /\ Removed(c).state = c.state /\ Removed(c).events = c.events
         /\ Removed(c).reading = c.reading
         /\ Removed(c).output = c.output /\ Removed(c).writeShut = c.writeShut
  BY DEF Removed, Connections

(* The functors and the callbacks, as they are in the queues. *)
LEMMA NextFunctor ==
  ASSUME TypeOK, batch # <<>>
  PROVE  Head(batch) \in Functors /\ Tail(batch) \in Seq(Functors)
  BY Popped DEF TypeOK

LEMMA NextHandler ==
  ASSUME TypeOK, todo # <<>>
  PROVE  Head(todo) \in Handlers /\ Tail(todo) \in Seq(Handlers)
  BY Popped DEF TypeOK

(* The parts of TypeOK that a handler can change. *)
DataOK ==
  /\ conn \in Connections /\ wire \in Seq(Messages) /\ taken \in Seq(Messages)
  /\ pending \in Seq(Functors)
  /\ cb \in {"none", "close", "destroy"}
  /\ ups \in Nat /\ downs \in Nat /\ destroys \in Nat

LEMMA DataOf == TypeOK => DataOK
  BY DEF TypeOK, DataOK

LEMMA DataUnchanged ==
  ASSUME TypeOK, UNCHANGED <<conn, outVars, pending, cbVars, failed>>
  PROVE  DataOK'
  BY DEF TypeOK, DataOK, outVars, cbVars

LEMMA DataEstablished ==
  ASSUME TypeOK, connectEstablished
  PROVE  DataOK'
  BY SMTT(60), DataOf, EstablishedFacts DEF DataOK, connectEstablished, outVars

LEMMA DataClosed ==
  ASSUME TypeOK, handleClose
  PROVE  DataOK'
  BY SMTT(60), DataOf, ClosedFacts DEF DataOK, handleClose, outVars

LEMMA DataDestroyed ==
  ASSUME TypeOK, connectDestroyed
  PROVE  DataOK'
  BY SMTT(60), DataOf, ClosedFacts, RemovedFacts DEF DataOK, connectDestroyed, removeChannel, outVars

LEMMA DataQueued ==
  ASSUME TypeOK, NEW f \in Told, pending' = pending \o <<f>>
  PROVE  pending' \in Seq(Functors)
  BY Pushed, FunctorFacts DEF TypeOK, Told

LEMMA DataSent ==
  ASSUME TypeOK, NEW m \in Messages, sendInLoop(m), UNCHANGED cbVars
  PROVE  DataOK'
  BY DataOf, SendEffect, DataQueued DEF DataOK, cbVars

LEMMA DataWritten ==
  ASSUME TypeOK, handleWrite
  PROVE  DataOK'
  BY DataOf, WriteEffect, DataQueued DEF DataOK, cbVars

RestOK ==
  /\ batch \in Seq(Functors) /\ todo \in Seq(Handlers)
  /\ phase \in {"poll", "events", "functors"}
  /\ removing \in Nat /\ calls \in Nat /\ sent \subseteq Messages
  /\ call \in {NoCall} \cup [op : {"send"}, step : {2}, msg : Messages]
  /\ held \in BOOLEAN /\ inMap \in BOOLEAN /\ threaded \in BOOLEAN /\ server \in BOOLEAN
  /\ userRef \in BOOLEAN /\ delayed \in BOOLEAN /\ forced \in BOOLEAN

LEMMA RestOf == TypeOK => RestOK
  BY DEF TypeOK, RestOK

LEMMA TypeOf == DataOK' /\ RestOK' => TypeOK'
  BY DEF TypeOK, DataOK, RestOK

LEMMA CallCounted ==
  ASSUME TypeOK, CountCall
  PROVE  calls' \in Nat
  BY SMT DEF TypeOK, CountCall

LEMMA FunctorQueued ==
  ASSUME TypeOK, NEW op \in SharedFunctors, Queue(<<Functor(op)>>)
  PROVE  pending' \in Seq(Functors)
  BY Pushed, FunctorFacts DEF TypeOK, Queue

LEMMA TypeStep ==
  ASSUME TypeOK, [Next]_vars
  PROVE  TypeOK'
  <1> SUFFICES DataOK' /\ RestOK'
    BY TypeOf
  <1> USE DataOf, RestOf
  <1> USE DEF loopVars, serverVars, userVars, outVars, cbVars
  <1>1. CASE poll
    <2>1. todo' \in Seq(Handlers)
      <3>1. \A r \in SocketStates : Callbacks(Reported(r, conn.events)) \in Seq(Reactions)
        BY CallbacksShape DEF SocketStates, Reported
      <3>2. \A q \in Seq(Reactions) : q \in Seq(Handlers)
        BY SMT DEF Reactions, Handlers
      <3>3. CASE conn.index = "kAdded"
        BY <1>1, <3>1, <3>2, <3>3 DEF poll
      <3>4. CASE conn.index # "kAdded"
        BY SMT, <1>1, <3>4 DEF poll
      <3>5. QED
        BY <3>3, <3>4
    <2>2. QED
      BY <1>1, <2>1 DEF poll, DataOK, RestOK
  <1>2. CASE handleEvent
    <2>1. DataOK'
      BY <1>2, DataUnchanged, DataEstablished, DataClosed, DataWritten DEF handleEvent, handleRead
    <2>2. todo' \in Seq(Handlers) /\ userRef' \in BOOLEAN
      BY <1>2, NextHandler DEF handleEvent
    <2>3. QED
      BY <1>2, <2>1, <2>2 DEF handleEvent, RestOK
  <1>3. CASE closeReturns
    <2>1. pending' \in Seq(Functors)
      BY <1>3, FunctorQueued, FunctorFacts DEF closeReturns, removeFromMap, DataOK
    <2>2. removing' \in Nat /\ inMap' \in BOOLEAN
      <3>1. removing \in Nat /\ removing' \in {removing, removing + 1}
        BY <1>3 DEF closeReturns, RemovalsAsked, RestOK
      <3>2. inMap' \in BOOLEAN
        BY <1>3 DEF closeReturns, removeFromMap, RestOK
      <3>3. QED
        BY SMT, <3>1, <3>2
    <2>3. QED
      BY <1>3, <2>1, <2>2 DEF closeReturns, DataOK, RestOK
  <1>4. CASE doPendingFunctors
    BY SMT, <1>4 DEF doPendingFunctors, DataOK, RestOK
  <1>5. CASE runFunctor
    <2> DEFINE f == Head(batch)
    <2>1. f \in Functors /\ batch' \in Seq(Functors)
      BY <1>5, NextFunctor DEF runFunctor
    <2>2. held' \in BOOLEAN /\ userRef' \in BOOLEAN
      BY <1>5 DEF runFunctor
    <2>3. DataOK'
      <3>1. CASE Run(f)
        <4>1. CASE f.op = "send" /\ sendInLoop(f.msg) /\ UNCHANGED <<cbVars, failed>>
          BY <2>1, <4>1, FunctorFacts, DataSent
        <4>2. CASE UNCHANGED <<conn, outVars, pending, cbVars, failed>>
          BY <4>2, DataUnchanged
        <4>3. QED
          BY <3>1, <4>1, <4>2, DataEstablished, DataDestroyed, DataClosed
             DEF Run, forceCloseInLoop
      <3>2. CASE UNCHANGED <<conn, outVars, pending, cbVars>>
        BY <3>2 DEF DataOK
      <3>3. QED
        BY <1>5, <3>1, <3>2 DEF runFunctor
    <2>4. QED
      BY <1>5, <2>1, <2>2, <2>3 DEF runFunctor, RestOK
  <1>6. CASE destroyReturns
    BY <1>6, RemovedFacts DEF destroyReturns, removeChannel, DataOK, RestOK
  <1>7. CASE batchEnds
    BY <1>7 DEF batchEnds, DataOK, RestOK
  <1>8. CASE delayExpires
    <2>1. conn' \in Connections /\ pending' \in Seq(Functors)
      BY <1>8, StateChange, FunctorQueued, FunctorFacts DEF delayExpires, DataOK, States
    <2>2. QED
      BY <1>8, <2>1 DEF delayExpires, DataOK, RestOK
  <1>9. ASSUME NEW m \in Messages, send(m)
        PROVE  DataOK' /\ RestOK'
    <2>1. DataOK'
      BY <1>9, DataSent DEF send
    <2>2. QED
      BY <1>9, <2>1 DEF send, RestOK
  <1>10. CASE shutdown
    <2>1. conn' \in Connections
      BY <1>10, StateChange, ShutFacts DEF shutdown, DataOK, States
    <2>2. QED
      BY <1>10, <2>1, CallCounted DEF shutdown, DataOK, RestOK
  <1>11. CASE forceClose
    <2>1. conn' \in Connections /\ pending' \in Seq(Functors)
      BY <1>11, StateChange, FunctorQueued, FunctorFacts DEF forceClose, DataOK, States
    <2>2. QED
      BY <1>11, <2>1, CallCounted DEF forceClose, DataOK, RestOK
  <1>12. CASE forceCloseWithDelay
    <2>1. conn' \in Connections
      BY <1>12, StateChange DEF forceCloseWithDelay, DataOK, States
    <2>2. QED
      BY <1>12, <2>1, CallCounted DEF forceCloseWithDelay, DataOK, RestOK
  <1>13. CASE startRead \/ stopRead
    <2>1. conn' \in Connections
      BY <1>13, ReadFacts DEF startRead, stopRead, DataOK
    <2>2. calls' \in Nat
      BY <1>13, CallCounted DEF startRead, stopRead
    <2>3. UNCHANGED <<outVars, loopVars, serverVars, userRef, call, delayed, sent, forced, cbVars>>
      BY <1>13 DEF startRead, stopRead
    <2>4. QED
      BY <2>1, <2>2, <2>3 DEF DataOK, RestOK
  <1>14. ASSUME NEW m \in Messages, foreignSend(m)
         PROVE  DataOK' /\ RestOK'
    BY <1>14 DEF foreignSend, DataOK, RestOK
  <1>15. CASE foreignQueues
    <2>1. [op |-> call.op, msg |-> call.msg] \in Functors
      BY SMT, <1>15 DEF foreignQueues, RestOK, NoCall, Functors
    <2>2. pending' \in Seq(Functors)
      BY <1>15, <2>1, Pushed DEF foreignQueues, Queue, DataOK
    <2>3. QED
      BY <1>15, <2>2 DEF foreignQueues, DataOK, RestOK
  <1>16. CASE dropRef
    BY <1>16 DEF dropRef, DataOK, RestOK
  <1>17. CASE removeConnectionInLoop
    <2>1. pending' \in Seq(Functors)
      BY <1>17, FunctorQueued, FunctorFacts DEF removeConnectionInLoop, removeFromMap
    <2>2. removing' \in Nat /\ inMap' \in BOOLEAN
      <3>1. removing \in Nat /\ removing > 0 /\ removing' = removing - 1
        BY <1>17 DEF removeConnectionInLoop, RestOK
      <3>2. inMap' \in BOOLEAN
        BY <1>17 DEF removeConnectionInLoop, removeFromMap
      <3>3. QED
        BY SMT, <3>1, <3>2
    <2>3. QED
      BY <1>17, <2>1, <2>2 DEF removeConnectionInLoop, DataOK, RestOK
  <1>18. CASE serverDestructs
    <2>1. DataOK'
      BY <1>18, DataUnchanged, DataDestroyed DEF serverDestructs
    <2>2. QED
      BY <1>18, <2>1 DEF serverDestructs, RestOK
  <1>19. CASE UNCHANGED vars
    BY <1>19 DEF vars, DataOK, RestOK
  <1>20. QED
    BY <1>1, <1>2, <1>3, <1>4, <1>5, <1>6, <1>7, <1>8, <1>9, <1>10, <1>11, <1>12, <1>13, <1>14,
       <1>15, <1>16, <1>17, <1>18, <1>19
       DEF Next, LoopThread, UserOnLoop, Foreign, Server

-----------------------------------------------------------------------------
(* What waits in the two queues of functors.                               *)

HasIn(p, b, op) == \E f \in Range(p) \cup Range(b) : f.op = op
OnceIn(p, b, op) ==
  /\ AtMostOnce(p, op) /\ AtMostOnce(b, op)
  /\ ~(\E i \in DOMAIN p, j \in DOMAIN b : p[i].op = op /\ b[j].op = op)

LEMMA QueuedIn ==
  \A op : /\ Queued(op) <=> HasIn(pending, batch, op)
          /\ Queued(op)' <=> HasIn(pending', batch', op)
          /\ QueuedOnce(op) <=> OnceIn(pending, batch, op)
          /\ QueuedOnce(op)' <=> OnceIn(pending', batch', op)
  BY DEF Queued, QueuedOnce, HasIn, OnceIn

LEMMA InPush ==
  ASSUME NEW p \in Seq(Functors), NEW b \in Seq(Functors), NEW f \in Functors, NEW op
  PROVE  /\ HasIn(p \o <<f>>, b, op) <=> HasIn(p, b, op) \/ f.op = op
         /\ OnceIn(p, b, op) /\ (f.op = op => ~HasIn(p, b, op)) => OnceIn(p \o <<f>>, b, op)
  <1>1. HasIn(p \o <<f>>, b, op) <=> HasIn(p, b, op) \/ f.op = op
    BY SMT, Pushed DEF HasIn
  <1>2. ASSUME OnceIn(p, b, op), f.op = op => ~HasIn(p, b, op)
        PROVE  OnceIn(p \o <<f>>, b, op)
    <2>1. AtMostOnce(p \o <<f>>, op)
      BY <1>2, PushedOnce DEF OnceIn, HasIn
    <2>2. \A i \in DOMAIN (p \o <<f>>) :
            (i \in DOMAIN p /\ (p \o <<f>>)[i] = p[i]) \/ (p \o <<f>>)[i] = f
      BY SMT, Pushed
    <2>3. f.op = op => \A j \in DOMAIN b : b[j].op # op
      BY <1>2 DEF HasIn, Range
    <2> DEFINE q == p \o <<f>>
    <2> HIDE DEF q
    <2>4. QED
      BY <1>2, <2>1, <2>2, <2>3 DEF OnceIn, q
  <1>3. QED
    BY <1>1, <1>2

LEMMA InPop ==
  ASSUME NEW p \in Seq(Functors), NEW b \in Seq(Functors), b # <<>>, NEW op
  PROVE  /\ HasIn(p, b, op) <=> HasIn(p, Tail(b), op) \/ Head(b).op = op
         /\ OnceIn(p, b, op) =>
              OnceIn(p, Tail(b), op) /\ (Head(b).op = op => ~HasIn(p, Tail(b), op))
  <1>1. HasIn(p, b, op) <=> HasIn(p, Tail(b), op) \/ Head(b).op = op
    BY Popped DEF HasIn
  <1>2. ASSUME OnceIn(p, b, op)
        PROVE  OnceIn(p, Tail(b), op) /\ (Head(b).op = op => ~HasIn(p, Tail(b), op))
    <2>1. AtMostOnce(Tail(b), op) /\ (Head(b).op = op => \A g \in Range(Tail(b)) : g.op # op)
      BY <1>2, PoppedOnce DEF OnceIn
    <2>2. /\ \A i \in DOMAIN Tail(b) : \E j \in DOMAIN b : Tail(b)[i] = b[j]
          /\ 1 \in DOMAIN b /\ b[1] = Head(b)
      BY Popped
    <2>3. OnceIn(p, Tail(b), op)
      BY <1>2, <2>1, <2>2 DEF OnceIn
    <2>4. ASSUME Head(b).op = op
          PROVE  \A g \in Range(p) : g.op # op
      BY <1>2, <2>2, <2>4 DEF OnceIn, Range
    <2>5. QED
      BY <2>1, <2>3, <2>4 DEF HasIn
  <1>3. QED
    BY <1>1, <1>2

LEMMA InMove ==
  ASSUME NEW p \in Seq(Functors), NEW op
  PROVE  /\ HasIn(p, <<>>, op) <=> HasIn(<<>>, p, op)
         /\ OnceIn(p, <<>>, op) => OnceIn(<<>>, p, op)
  BY EmptyRange DEF HasIn, OnceIn, AtMostOnce

(* The output side queues nothing that closes or destroys. *)
ToldIn(p, q) == q = p \/ \E f \in Told : q = p \o <<f>>

LEMMA InTold ==
  ASSUME NEW p \in Seq(Functors), NEW q, NEW b \in Seq(Functors), ToldIn(p, q),
         NEW op, op \notin {"writeComplete", "highWater"}
  PROVE  /\ HasIn(q, b, op) <=> HasIn(p, b, op)
         /\ OnceIn(p, b, op) => OnceIn(q, b, op)
  <1>1. CASE q = p
    BY <1>1
  <1>2. ASSUME NEW f \in Told, q = p \o <<f>>
        PROVE  /\ HasIn(q, b, op) <=> HasIn(p, b, op)
               /\ OnceIn(p, b, op) => OnceIn(q, b, op)
    <2>1. f \in Functors /\ f.op # op
      BY FunctorFacts DEF Told
    <2>2. QED
      BY <1>2, <2>1, InPush
  <1>3. QED
    BY <1>1, <1>2 DEF ToldIn

-----------------------------------------------------------------------------
(* The order of a loop's iteration.                                        *)

LEMMA LoopStep ==
  ASSUME TypeOK, LoopInv, [Next]_vars
  PROVE  LoopInv'
  <1> USE DEF loopVars, serverVars, userVars, outVars, cbVars
  <1>1. CASE poll
    <2>1. OneCloser(todo') /\ ClosesFirst(todo')
      <3>1. \A r \in SocketStates : /\ OneCloser(Callbacks(Reported(r, conn.events)))
                                   /\ ClosesFirst(Callbacks(Reported(r, conn.events)))
        BY CallbacksShape DEF LoopInv, SocketStates, Reported
      <3>2. OneCloser(<<>>) /\ ClosesFirst(<<>>)
        BY EmptyRange DEF LoopInv, OneCloser, ClosesFirst
      <3>3. QED
        BY <1>1, <3>1, <3>2 DEF LoopInv, poll
    <2>2. QED
      BY <1>1, <2>1 DEF LoopInv, poll
  <1>2. CASE handleEvent
    <2>1. OneCloser(Tail(todo))
      BY SMTT(60), <1>2, Popped DEF LoopInv, handleEvent, OneCloser, TypeOK
    <2>2. ClosesFirst(Tail(todo))
      <3>1. todo \in Seq(Handlers) /\ todo # <<>> /\ ClosesFirst(todo)
        BY <1>2 DEF LoopInv, handleEvent, TypeOK
      <3>2. DOMAIN Tail(todo) \subseteq Int
        BY SMT, <3>1
      <3>3. \A i \in DOMAIN Tail(todo) : i + 1 \in DOMAIN todo /\ Tail(todo)[i] = todo[i + 1]
        BY <3>1, Popped
      <3> DEFINE t == Tail(todo)
      <3> HIDE DEF t
      <3>4. ASSUME NEW i \in DOMAIN t, NEW j \in DOMAIN t, t[i] \in Closers, t[j] = "write"
            PROVE  i < j
        <4>1. i + 1 < j + 1
          BY <3>1, <3>3, <3>4 DEF ClosesFirst, t
        <4>2. i \in Int /\ j \in Int
          BY <3>2 DEF t
        <4>3. QED
          BY SMT, <4>1, <4>2
      <3>5. QED
        BY <3>4 DEF ClosesFirst, t
    <2>3. QED
      BY <1>2, <2>1, <2>2 DEF LoopInv, handleEvent
  <1>3. CASE runFunctor
    BY <1>3 DEF LoopInv, runFunctor
  <1>4. CASE serverDestructs
    BY <1>4 DEF LoopInv, serverDestructs
  <1>5. CASE \E m \in Messages : send(m)
    BY <1>5 DEF LoopInv, send
  <1>6. CASE \E m \in Messages : foreignSend(m)
    BY <1>6 DEF LoopInv, foreignSend
  <1>7. CASE closeReturns \/ doPendingFunctors \/ destroyReturns \/ batchEnds \/ delayExpires
    BY <1>7
       DEF LoopInv, closeReturns, doPendingFunctors, destroyReturns, batchEnds, delayExpires
  <1>8. CASE shutdown \/ forceClose \/ forceCloseWithDelay \/ startRead \/ stopRead
    BY <1>8 DEF LoopInv, shutdown, forceClose, forceCloseWithDelay, startRead, stopRead
  <1>9. CASE foreignQueues \/ dropRef \/ removeConnectionInLoop
    BY <1>9 DEF LoopInv, foreignQueues, dropRef, removeConnectionInLoop
  <1>10. CASE UNCHANGED vars
    BY <1>10 DEF LoopInv, vars
  <1>11. QED
    BY <1>1, <1>2, <1>3, <1>4, <1>5, <1>6, <1>7, <1>8, <1>9, <1>10
       DEF LoopInv, Next, LoopThread, UserOnLoop, Foreign, Server

-----------------------------------------------------------------------------
(* The connection before connectEstablished() and after it.                *)

(* What every handler but connectEstablished() leaves alone. *)
Keeps == conn'.state # "kConnecting" /\ ups' = ups /\ ToldIn(pending, pending')

LEMMA HandlersKeep ==
  ASSUME TypeOK, conn.state # "kConnecting",
         \/ handleClose \/ handleWrite \/ connectDestroyed
         \/ \E m \in Messages : sendInLoop(m) /\ UNCHANGED <<cbVars, failed>>
         \/ UNCHANGED <<conn, outVars, pending, cbVars>>
  PROVE  Keeps
  <1>0. conn \in Connections
    BY DEF TypeOK
  <1>1. CASE handleClose
    BY <1>0, <1>1, ClosedFacts DEF handleClose, Keeps, ToldIn
  <1>2. CASE handleWrite
    BY <1>2, WriteEffect DEF Keeps, ToldIn, cbVars
  <1>3. CASE connectDestroyed
    BY <1>0, <1>3, ClosedFacts, RemovedFacts DEF connectDestroyed, removeChannel, Keeps, ToldIn
  <1>4. ASSUME NEW m \in Messages, sendInLoop(m), UNCHANGED <<cbVars, failed>>
        PROVE  Keeps
    BY <1>4, SendEffect DEF Keeps, ToldIn, cbVars
  <1>5. CASE UNCHANGED <<conn, outVars, pending, cbVars>>
    BY <1>5 DEF Keeps, ToldIn, cbVars
  <1>6. QED
    BY <1>1, <1>2, <1>3, <1>4, <1>5

LEMMA HandledKeeps ==
  ASSUME TypeOK, ConnectingInv, conn.state # "kConnecting", handleEvent
  PROVE  Keeps
  <1>1. Head(todo) # "establish"
    <2>1. Head(todo) \in Range(todo)
      BY SMT, Popped DEF handleEvent, TypeOK
    <2>2. QED
      BY <2>1 DEF ConnectingInv
  <1>2. QED
    BY <1>1, HandlersKeep DEF handleEvent, handleRead

LEMMA RanKeeps ==
  ASSUME TypeOK, ConnectingInv, conn.state # "kConnecting", runFunctor
  PROVE  Keeps
  <1> DEFINE f == Head(batch)
  <1>1. f \in Functors /\ f.op # "connectEstablished"
    <2>1. batch \in Seq(Functors) /\ batch # <<>>
      BY DEF runFunctor, TypeOK
    <2>2. f \in Range(batch) /\ f \in Functors
      BY SMT, <2>1, Popped
    <2>3. QED
      BY <2>2 DEF ConnectingInv, Queued
  <1>2. CASE Run(f)
    <2>1. CASE f.op = "send" /\ sendInLoop(f.msg) /\ UNCHANGED <<cbVars, failed>>
      BY <1>1, <2>1, FunctorFacts, HandlersKeep
    <2>2. CASE handleClose \/ connectDestroyed \/ UNCHANGED <<conn, outVars, pending, cbVars>>
      BY <2>2, HandlersKeep
    <2>3. QED
      BY <1>1, <1>2, <2>1, <2>2 DEF Run, forceCloseInLoop
  <1>3. CASE UNCHANGED <<conn, outVars, pending, cbVars>>
    BY <1>3, HandlersKeep
  <1>4. QED
    BY <1>2, <1>3 DEF runFunctor

LEMMA EstablishedStep ==
  ASSUME TypeOK, LoopInv, ConnectingInv, [Next]_vars, conn.state # "kConnecting"
  PROVE  ConnectingInv' /\ conn'.state # "kConnecting"
  <1> DEFINE CE == "connectEstablished"
  <1> USE DEF loopVars, serverVars, userVars, outVars, cbVars
  <1>0. /\ ups = 1 /\ ~HasIn(pending, batch, CE) /\ "establish" \notin Range(todo)
        /\ pending \in Seq(Functors) /\ batch \in Seq(Functors) /\ conn \in Connections
    BY QueuedIn DEF ConnectingInv, TypeOK
  <1> SUFFICES /\ conn'.state # "kConnecting" /\ ups' = 1
               /\ ~HasIn(pending', batch', CE) /\ "establish" \notin Range(todo')
    BY QueuedIn DEF ConnectingInv
  <1>a. ASSUME ToldIn(pending, pending'), batch' = batch
        PROVE  ~HasIn(pending', batch', CE)
    BY <1>0, <1>a, InTold
  <1>b. ASSUME NEW op \in SharedFunctors, op # CE, Queue(<<Functor(op)>>), batch' = batch
        PROVE  ~HasIn(pending', batch', CE)
    BY SMT, <1>0, <1>b, InPush, FunctorFacts DEF Queue
  <1>1. CASE poll
    <2>1. \A r \in SocketStates : Callbacks(Reported(r, conn.events)) \in Seq(Reactions)
      BY CallbacksShape DEF SocketStates, Reported
    <2>2. \A q \in Seq(Reactions) : "establish" \notin Range(q)
      BY SMT DEF Reactions, Range
    <2>3. <<>> \in Seq(Reactions)
      BY SMT
    <2>4. todo' \in Seq(Reactions)
      BY <1>1, <2>1, <2>3 DEF poll
    <2>5. QED
      BY <1>0, <1>1, <2>2, <2>4 DEF poll
  <1>2. CASE handleEvent
    <2>1. "establish" \notin Range(Tail(todo))
      BY <1>0, <1>2, Popped DEF handleEvent, TypeOK
    <2>2. QED
      BY <1>0, <1>2, <1>a, <2>1, HandledKeeps DEF handleEvent, Keeps
  <1>3. CASE closeReturns
    BY <1>0, <1>3, <1>b, FunctorFacts DEF closeReturns, removeFromMap
  <1>4. CASE doPendingFunctors
    <2>1. batch = <<>>
      BY <1>4 DEF doPendingFunctors, LoopInv
    <2>2. QED
      BY <1>0, <1>4, <2>1, InMove DEF doPendingFunctors
  <1>5. CASE runFunctor
    <2>1. ~HasIn(pending, Tail(batch), CE)
      BY <1>0, <1>5, InPop DEF runFunctor
    <2>2. Tail(batch) \in Seq(Functors)
      BY <1>5, NextFunctor DEF runFunctor
    <2>3. ~HasIn(pending', batch', CE)
      BY <1>0, <1>5, <2>1, <2>2, RanKeeps, InTold DEF runFunctor, Keeps
    <2>4. QED
      BY <1>0, <1>5, <2>3, RanKeeps DEF runFunctor, Keeps
  <1>6. CASE destroyReturns
    BY <1>0, <1>6, RemovedFacts DEF destroyReturns, removeChannel
  <1>7. CASE batchEnds
    BY <1>0, <1>7 DEF batchEnds
  <1>8. CASE delayExpires
    BY <1>0, <1>8, <1>b, FunctorFacts, StateChange DEF delayExpires, States
  <1>9. ASSUME NEW m \in Messages, send(m)
        PROVE  /\ conn'.state # "kConnecting" /\ ups' = 1
               /\ ~HasIn(pending', batch', CE) /\ "establish" \notin Range(todo')
    BY <1>0, <1>9, <1>a, HandlersKeep DEF send, Keeps
  <1>10. CASE shutdown
    <2>1. conn'.state = "kDisconnecting"
      <3> DEFINE d == [conn EXCEPT !.state = "kDisconnecting"]
      <3>1. d \in Connections /\ d.state = "kDisconnecting"
        BY <1>0, StateChange DEF States
      <3>2. conn' = Shut(d)
        BY <1>10 DEF shutdown
      <3> HIDE DEF d
      <3>3. QED
        BY <3>1, <3>2, ShutFacts
    <2>2. QED
      BY <1>0, <1>10, <2>1 DEF shutdown
  <1>11. CASE forceClose
    BY <1>0, <1>11, <1>b, FunctorFacts, StateChange DEF forceClose, States
  <1>12. CASE forceCloseWithDelay
    BY <1>0, <1>12, StateChange DEF forceCloseWithDelay, States
  <1>13. CASE startRead \/ stopRead
    BY <1>0, <1>13, ReadFacts DEF startRead, stopRead
  <1>14. CASE \E m \in Messages : foreignSend(m)
    BY <1>0, <1>14 DEF foreignSend
  <1>15. CASE foreignQueues
    <2> DEFINE f == [op |-> call.op, msg |-> call.msg]
    <2>1. f \in Functors /\ f.op # CE
      BY SMTT(60), <1>15 DEF foreignQueues, TypeOK, NoCall, Functors
    <2> HIDE DEF f
    <2>2. pending' = pending \o <<f>> /\ batch' = batch
      BY <1>15 DEF foreignQueues, Queue, f
    <2>3. ~HasIn(pending', batch', CE)
      BY <1>0, <2>1, <2>2, InPush
    <2>4. QED
      BY <1>0, <1>15, <2>3 DEF foreignQueues
  <1>16. CASE dropRef
    BY <1>0, <1>16 DEF dropRef
  <1>17. CASE removeConnectionInLoop
    BY <1>0, <1>17, <1>b, FunctorFacts DEF removeConnectionInLoop, removeFromMap
  <1>18. CASE serverDestructs
    BY <1>0, <1>18, <1>a, HandlersKeep DEF serverDestructs, Keeps
  <1>19. CASE UNCHANGED vars
    BY <1>0, <1>19 DEF vars
  <1>20. QED
    BY <1>1, <1>2, <1>3, <1>4, <1>5, <1>6, <1>7, <1>8, <1>9, <1>10, <1>11, <1>12, <1>13, <1>14,
       <1>15, <1>16, <1>17, <1>18, <1>19
       DEF Next, LoopThread, UserOnLoop, Foreign, Server

LEMMA EstablishedNow ==
  ASSUME TypeOK, ups = 0, connectEstablished,
         pending = <<>>, batch' = <<>>, todo' = <<>>
  PROVE  ConnectingInv'
  <1>1. conn'.state = "kConnected" /\ ups' = 1 /\ pending' = <<>>
    BY SMTT(60), EstablishedFacts DEF connectEstablished, TypeOK
  <1>2. QED
    BY <1>1, EmptyRange DEF ConnectingInv, Queued

LEMMA ConnectingStep ==
  ASSUME TypeOK, LoopInv, ConnectingInv, [Next]_vars
  PROVE  ConnectingInv'
  <1>1. CASE conn.state # "kConnecting"
    BY <1>1, EstablishedStep
  <1>2. CASE conn.state = "kConnecting"
    <2> DEFINE CE == Functor("connectEstablished")
    <2> USE DEF loopVars, serverVars, userVars, outVars, cbVars
    <2>0. /\ ups = 0 /\ ~userRef /\ ~forced /\ call = NoCall /\ removing = 0 /\ cb = "none"
          /\ conn.index = "kNew"
          /\ \/ todo = <<"establish">> /\ pending = <<>> /\ batch = <<>>
             \/ todo = <<>> /\ pending = <<CE>> /\ batch = <<>>
             \/ todo = <<>> /\ pending = <<>> /\ batch = <<CE>>
      BY <1>2 DEF ConnectingInv
    <2>a. <<CE>> # <<>> /\ <<"establish">> # <<>> /\ Head(<<CE>>) = CE /\ Tail(<<CE>>) = <<>>
          /\ Head(<<"establish">>) = "establish" /\ Tail(<<"establish">>) = <<>>
      BY SMT
    <2>1. CASE poll
      BY <1>2, <2>0, <2>1 DEF poll, ConnectingInv, LoopInv
    <2>2. CASE handleEvent
      <3>1. /\ pending = <<>> /\ batch' = <<>> /\ todo' = <<>>
            /\ Head(todo) = "establish"
        BY <2>0, <2>2, <2>a DEF handleEvent
      <3>2. connectEstablished
        BY <2>2, <3>1 DEF handleEvent
      <3>3. QED
        BY <2>0, <3>1, <3>2, EstablishedNow
    <2>3. CASE doPendingFunctors
      <3>1. batch = <<>> /\ batch' = pending /\ pending' = <<>> /\ todo = <<>>
        BY <2>3 DEF doPendingFunctors, LoopInv
      <3>2. pending = <<CE>>
        BY <2>0, <2>a, <3>1
      <3>3. QED
        BY <1>2, <2>3, <3>1, <3>2 DEF doPendingFunctors, ConnectingInv
    <2>4. CASE runFunctor
      <3>1. /\ pending = <<>> /\ batch' = <<>> /\ todo' = <<>>
            /\ Head(batch) = CE /\ batch = <<CE>>
        BY <2>0, <2>4, <2>a DEF runFunctor
      <3>2. Head(batch).op = "connectEstablished"
        BY <3>1, FunctorFacts
      <3>3. Referenced
        <4>1. Head(batch) \in Range(batch)
          <5>1. batch \in Seq(Functors) /\ batch # <<>>
            BY <2>a, <3>1 DEF TypeOK
          <5>2. QED
            BY <5>1, Popped
        <4>2. QED
          BY <3>2, <4>1, FunctorFacts DEF Referenced
      <3>4. connectEstablished
        BY <2>4, <3>2, <3>3, FunctorFacts DEF runFunctor, Run
      <3>5. QED
        BY <2>0, <3>1, <3>4, EstablishedNow
    <2>5. CASE batchEnds
      BY <1>2, <2>0, <2>5 DEF batchEnds, ConnectingInv
    <2>6. CASE delayExpires
      BY <1>2, <2>0, <2>6 DEF delayExpires, CanClose, ConnectingInv
    <2>7. CASE UNCHANGED vars
      BY <1>2, <2>7 DEF vars, ConnectingInv
    <2>8. ~(closeReturns \/ destroyReturns \/ foreignQueues \/ dropRef \/ removeConnectionInLoop
            \/ serverDestructs)
      <3>1. ~(closeReturns \/ destroyReturns \/ dropRef)
        BY <2>0 DEF closeReturns, destroyReturns, dropRef
      <3>2. ~foreignQueues
        BY SMT, <2>0 DEF foreignQueues, NoCall
      <3>3. ~removeConnectionInLoop /\ ~serverDestructs
        BY SMT, <2>0 DEF removeConnectionInLoop, serverDestructs
      <3>4. QED
        BY <3>1, <3>2, <3>3
    <2>9. ~UserHere
      BY <2>0 DEF UserHere
    <2>10. ~UserOnLoop /\ ~(\E m \in Messages : foreignSend(m))
      BY <2>0, <2>9 DEF UserOnLoop, send, shutdown, forceClose, forceCloseWithDelay, startRead,
                        stopRead, foreignSend
    <2>11. QED
      BY <2>1, <2>2, <2>3, <2>4, <2>5, <2>6, <2>7, <2>8, <2>10
         DEF Next, LoopThread, Foreign, Server
  <1>3. QED
    BY <1>1, <1>2

(* While the connection waits for connectEstablished() nothing else        *)
(* happens to it.                                                          *)
LEMMA ConnectingActs ==
  ASSUME TypeOK, LoopInv, ConnectingInv, [Next]_vars, conn.state = "kConnecting"
  PROVE  \/ /\ connectEstablished
            /\ UNCHANGED <<serverVars, call, delayed, forced>>
            /\ todo' = <<>> /\ batch' = <<>> /\ pending = <<>>
            /\ userRef'
         \/ /\ UNCHANGED <<conn, outVars, cbVars, failed, serverVars, userRef, call, forced>>
            /\ delayed' => delayed
  <1> DEFINE CE == Functor("connectEstablished")
  <1> USE DEF loopVars, serverVars, userVars, outVars, cbVars
  <1>0. /\ ups = 0 /\ ~userRef /\ ~forced /\ call = NoCall /\ removing = 0 /\ cb = "none"
        /\ \/ todo = <<"establish">> /\ pending = <<>> /\ batch = <<>>
           \/ todo = <<>> /\ pending = <<CE>> /\ batch = <<>>
           \/ todo = <<>> /\ pending = <<>> /\ batch = <<CE>>
    BY DEF ConnectingInv
  <1>a. <<CE>> # <<>> /\ <<"establish">> # <<>> /\ Head(<<CE>>) = CE /\ Tail(<<CE>>) = <<>>
        /\ Head(<<"establish">>) = "establish" /\ Tail(<<"establish">>) = <<>>
    BY SMT
  <1>1. CASE handleEvent
    <2>1. /\ pending = <<>> /\ batch' = <<>> /\ todo' = <<>> /\ Head(todo) = "establish"
      BY <1>0, <1>1, <1>a DEF handleEvent
    <2>2. connectEstablished /\ userRef'
      BY <1>1, <2>1 DEF handleEvent
    <2>3. QED
      BY <1>1, <2>1, <2>2 DEF handleEvent
  <1>2. CASE runFunctor
    <2>1. pending = <<>> /\ batch' = <<>> /\ todo' = <<>> /\ Head(batch) = CE /\ batch = <<CE>>
      BY <1>0, <1>2, <1>a DEF runFunctor
    <2>2. Head(batch).op = "connectEstablished"
      BY <2>1, FunctorFacts
    <2>3. Referenced
      <3>1. batch \in Seq(Functors) /\ batch # <<>>
        BY <1>a, <2>1 DEF TypeOK
      <3>2. Head(batch) \in Range(batch)
        BY <3>1, Popped
      <3>3. QED
        BY <2>2, <3>2, FunctorFacts DEF Referenced
    <2>4. connectEstablished /\ userRef'
      BY <1>2, <2>2, <2>3, FunctorFacts DEF runFunctor, Run
    <2>5. QED
      BY <1>2, <2>1, <2>4 DEF runFunctor
  <1>3. CASE poll \/ doPendingFunctors \/ batchEnds
    BY <1>3 DEF poll, doPendingFunctors, batchEnds
  <1>4. CASE delayExpires
    BY <1>4 DEF delayExpires, CanClose
  <1>5. CASE UNCHANGED vars
    BY <1>5 DEF vars
  <1>6. ~(closeReturns \/ destroyReturns \/ dropRef)
    BY <1>0 DEF closeReturns, destroyReturns, dropRef
  <1>7. ~foreignQueues
    BY SMT, <1>0 DEF foreignQueues, NoCall
  <1>8. ~removeConnectionInLoop /\ ~serverDestructs
    BY SMT, <1>0 DEF removeConnectionInLoop, serverDestructs
  <1>9. ~UserOnLoop /\ ~(\E m \in Messages : foreignSend(m))
    BY <1>0 DEF UserHere, UserOnLoop, send, shutdown, forceClose, forceCloseWithDelay, startRead,
                stopRead, foreignSend
  <1>10. QED
    BY <1>1, <1>2, <1>3, <1>4, <1>5, <1>6, <1>7, <1>8, <1>9
       DEF Next, LoopThread, Foreign, Server

-----------------------------------------------------------------------------
LEMMA Initially == Init => TypeOK /\ LoopInv /\ ConnectingInv
  <1> SUFFICES ASSUME Init PROVE TypeOK /\ LoopInv /\ ConnectingInv
    OBVIOUS
  <1>1. Functor("connectEstablished") \in Functors
    BY FunctorFacts
  <1>2. TypeOK
    <2>1. conn \in Connections
      <3>1. {} \in Interests /\ <<>> \in Seq(Messages)
        BY SMT DEF Interests
      <3>2. QED
        BY <3>1 DEF Init, Connections, States
    <2>2. pending \in Seq(Functors) /\ todo \in Seq(Handlers)
      <3>1. /\ <<Functor("connectEstablished")>> \in Seq(Functors) /\ <<>> \in Seq(Functors)
            /\ <<"establish">> \in Seq(Handlers) /\ <<>> \in Seq(Handlers)
        BY SMT, <1>1 DEF Handlers
      <3>2. QED
        BY <3>1 DEF Init
    <2>3. /\ wire \in Seq(Messages) /\ taken \in Seq(Messages) /\ batch \in Seq(Functors)
          /\ removing \in Nat /\ ups \in Nat /\ downs \in Nat /\ destroys \in Nat /\ calls \in Nat
      BY SMT DEF Init
    <2>4. QED
      BY <2>1, <2>2, <2>3 DEF Init, TypeOK
  <1>3. LoopInv
    <2>1. OneCloser(todo)
      BY SMT, EmptyRange DEF Init, OneCloser, Closers
    <2>2. ClosesFirst(todo)
      BY SMT, EmptyRange DEF Init, ClosesFirst, Closers
    <2>3. QED
      BY <2>1, <2>2 DEF Init, LoopInv
  <1>4. ConnectingInv
    BY DEF Init, ConnectingInv
  <1>5. QED
    BY <1>2, <1>3, <1>4

-----------------------------------------------------------------------------
(* The output side.                                                        *)

LEMMA Product ==
  ASSUME NEW n \in Nat, NEW i \in 1..n, NEW s \in Nat, NEW k \in 1..s
  PROVE  /\ (i - 1) * s + k \in 1..(n * s)
         /\ (n + 1) * s = n * s + s
  <1>1. (n - i) * s \in Nat
    <2> DEFINE d == n - i
    <2>1. d \in Nat
      BY SMT
    <2> HIDE DEF d
    <2>2. d * s \in Nat
      BY SMT, <2>1
    <2>3. QED
      BY <2>2 DEF d
  <1>2. (i - 1) * s \in Nat
    <2> DEFINE d == i - 1
    <2>1. d \in Nat
      BY SMT
    <2> HIDE DEF d
    <2>2. d * s \in Nat
      BY SMT, <2>1
    <2>3. QED
      BY <2>2 DEF d
  <1>3. n * s = (i - 1) * s + s + (n - i) * s
    BY SMT
  <1>4. QED
    BY SMT, <1>1, <1>2, <1>3

(* The stream after one more message. *)
LEMMA InOrderGrows ==
  ASSUME NEW s \in Seq(Messages), NEW t \in Seq(Messages), NEW m \in Messages, InOrder(s, t)
  PROVE  InOrder(s \o Chunks(m), Append(t, m))
  <1> DEFINE r == s \o Chunks(m)
             u == Append(t, m)
             n == Len(t)
  <1>0. Size \in Nat \ {0} /\ n \in Nat /\ Len(s) = n * Size /\ n * Size \in Nat
    BY SMT, SizeAssumption DEF InOrder
  <1>1. Chunks(m) \in Seq(Messages) /\ Len(Chunks(m)) = Size /\ \A k \in 1..Size : Chunks(m)[k] = m
    BY SMT, <1>0 DEF Chunks
  <1>2. /\ Len(r) = n * Size + Size
        /\ \A i \in 1..Len(s) : r[i] = s[i]
        /\ \A k \in 1..Size : r[n * Size + k] = m
    BY SMTT(60), <1>0, <1>1
  <1>3. /\ Len(u) = n + 1 /\ DOMAIN u = 1..(n + 1) /\ u[n + 1] = m
        /\ \A i \in 1..n : u[i] = t[i]
    BY SMT, <1>0
  <1> HIDE DEF r, u
  <1>4. Len(r) = Len(u) * Size
    BY SMTT(60), <1>0, <1>2, <1>3
  <1>5. ASSUME NEW i \in 1..(n + 1), NEW k \in 1..Size
        PROVE  r[(i - 1) * Size + k] = u[i]
    <2>1. CASE i = n + 1
      BY SMTT(60), <1>0, <1>2, <1>3, <2>1
    <2>2. CASE i \in 1..n
      <3>1. (i - 1) * Size + k \in 1..Len(s)
        BY <1>0, <2>2, Product
      <3>2. s[(i - 1) * Size + k] = t[i]
        BY SMT, <2>2 DEF InOrder
      <3>3. QED
        BY <1>2, <1>3, <2>2, <3>1, <3>2
    <2>3. QED
      BY SMTT(60), <1>0, <2>1, <2>2
  <1>6. QED
    BY <1>3, <1>4, <1>5 DEF InOrder, r, u

(* A sequence is what comes before a place in it and what comes after. *)
LEMMA Split ==
  ASSUME NEW S, NEW a \in Seq(S), NEW b \in Seq(S), NEW n \in 0..Len(b)
  PROVE  (a \o SubSeq(b, 1, n)) \o SubSeq(b, n + 1, Len(b)) = a \o b
  <1> DEFINE x == SubSeq(b, 1, n)
             y == SubSeq(b, n + 1, Len(b))
  <1>1. Len(b) \in Nat
    BY SMT
  <1>2. x \in Seq(S) /\ y \in Seq(S)
    BY SMT, <1>1
  <1>3. x \o y = SubSeq(b, 1, Len(b))
    <2>1. 1 \in 1..Len(b) + 1 /\ n \in 1 - 1..Len(b) /\ Len(b) \in n..Len(b)
      BY SMT, <1>1
    <2>2. QED
      BY ONLY Zenon, <2>1, b \in Seq(S), ConcatAdjacentSubSeq
  <1>4. x \o y = b
    BY <1>3, SubSeqFull
  <1> HIDE DEF x, y
  <1>5. (a \o x) \o y = a \o (x \o y)
    BY SMTT(60), <1>2, ConcatAssociative
  <1>6. QED
    BY <1>4, <1>5 DEF x, y

(* handleWrite() of a channel that is watched for writability: n chunks go *)
(* out, and perhaps nothing is left.                                       *)
WriteCase(n) ==
  LET len == Len(conn.output)
      rest == SubSeq(conn.output, n + 1, len)
  IN  /\ wire' = wire \o SubSeq(conn.output, 1, n)
      /\ conn.writeShut => n = 0
      /\ \/ rest = <<>> /\ n > 0 /\ conn' = Drained(conn)
         \/ (rest # <<>> \/ n = 0) /\ conn' = [conn EXCEPT !.output = rest]

LEMMA WriteCases ==
  ASSUME TypeOK, handleWrite, isWriting(conn.events)
  PROVE  \E n \in 0..Len(conn.output) : WriteCase(n)
  <1>0. Len(conn.output) \in Nat
    BY SMT DEF TypeOK, Connections
  <1> DEFINE Rest(n) == SubSeq(conn.output, n + 1, Len(conn.output))
  <1>1. PICK w \in Writes(Len(conn.output)) :
          /\ wire' = wire \o SubSeq(conn.output, 1, w.n)
          /\ conn' = IF w.n > 0 /\ Rest(w.n) = <<>> THEN Drained(conn)
                     ELSE [conn EXCEPT !.output = Rest(w.n)]
    BY DEF handleWrite
  <1>2. /\ w.n \in 0..Len(conn.output) /\ (conn.writeShut => w.n = 0)
    BY <1>0, <1>1, WritesFacts
  <1> DEFINE n == w.n
  <1> HIDE DEF Rest, n
  <1>3. WriteCase(n)
    <2>1. CASE n > 0 /\ Rest(n) = <<>>
      BY <1>1, <1>2, <2>1 DEF WriteCase, Rest, n
    <2>2. CASE ~(n > 0 /\ Rest(n) = <<>>)
      <3>1. conn' = [conn EXCEPT !.output = Rest(n)]
        BY <1>1, <2>2 DEF n
      <3>2. Rest(n) # <<>> \/ n = 0
        BY SMT, <1>2, <2>2 DEF n
      <3>3. QED
        BY <1>1, <1>2, <3>1, <3>2 DEF WriteCase, Rest, n
    <2>3. QED
      BY <2>1, <2>2
  <1>4. QED
    BY <1>2, <1>3 DEF n

ShutAfterOutput == conn.writeShut => conn.output = <<>>

LEMMA SendOut ==
  ASSUME TypeOK, OutputIsSent, ShutAfterOutput, conn.state # "kConnecting",
         NEW m \in Messages, sendInLoop(m)
  PROVE  /\ OutputIsSent' /\ ShutAfterOutput'
         /\ conn'.output = <<>> => conn.output = <<>>
  <1>0. /\ wire \in Seq(Messages) /\ taken \in Seq(Messages) /\ conn \in Connections
        /\ conn.output \in Seq(Messages) /\ conn.events \in Interests
    BY DEF TypeOK, Connections
  <1>1. CASE UNCHANGED <<conn, wire, taken>>
    BY <1>1 DEF OutputIsSent, SentInOrder, WatchedWhileBuffered, ShutAfterOutput
  <1>2. CASE conn.state # "kDisconnected" /\ ~UNCHANGED <<conn, wire, taken>>
    <2>1. PICK n \in 0..Size : SendCase(m, n)
      BY <1>2, SendCases
    <2> DEFINE first == SubSeq(Chunks(m), 1, n)
               rest == SubSeq(Chunks(m), n + 1, Size)
               e == enableWriting(conn.events)
               u == Updated(conn, e)
    <2>2. first \in Seq(Messages) /\ rest \in Seq(Messages) /\ Chunks(m) \in Seq(Messages)
          /\ Len(Chunks(m)) = Size /\ Len(rest) = Size - n /\ Len(first) = n
      BY SMT, SizeAssumption, ChunkFacts DEF Chunks
    <2>3. n = 0 => first = <<>> /\ wire \o first = wire
      BY SMT, <1>0, <2>2, PushedNone
    <2>4. n = 0 \/ conn.output = <<>>
      BY <2>1 DEF SendCase, WritesDirectly
    <2>5. wire' = wire \o first
      BY <2>1 DEF SendCase
    <2>6. (wire \o first) \o rest = wire \o Chunks(m)
      BY <1>0, <2>2, Split
    <2>7. InOrder((wire \o conn.output) \o Chunks(m), Append(taken, m))
      BY <1>0, InOrderGrows, ConcatProperties DEF OutputIsSent, SentInOrder
    <2> HIDE DEF first
    <2>8. CASE UNCHANGED <<conn, taken, pending>> /\ n = 0
      BY <1>2, <2>3, <2>5, <2>8
    <2>9. CASE conn' = conn /\ taken' = Append(taken, m) /\ rest = <<>>
      <3>1. conn.output = <<>>
        BY SMTT(60), <2>2, <2>4, <2>9, SizeAssumption
      <3>2. wire' \o conn'.output = (wire \o conn.output) \o Chunks(m)
        <4>1. wire' \in Seq(Messages)
          BY <1>0, <2>2, <2>5, ConcatProperties
        <4>2. wire' \o <<>> = wire \o Chunks(m)
          BY <2>5, <2>6, <2>9
        <4>3. wire \o <<>> = wire
          BY <1>0, ConcatEmptySeq
        <4>4. QED
          BY <2>9, <3>1, <4>2, <4>3
      <3>3. SentInOrder'
        BY <2>7, <2>9, <3>2 DEF SentInOrder
      <3>4. QED
        BY <2>9, <3>3 DEF OutputIsSent, WatchedWhileBuffered, ShutAfterOutput
    <2>10. CASE /\ conn.writeShut => ~WritesDirectly
                /\ taken' = Append(taken, m) /\ rest # <<>>
                /\ conn' = [u EXCEPT !.output = conn.output \o rest]
      <3>1. /\ conn.output \o rest \in Seq(Messages) /\ conn.output \o rest # <<>>
        BY SMTT(60), <1>0, <2>2, <2>10, ConcatProperties, ConcatEqualIffEmpty
      <3>2. /\ e \in Interests /\ isWriting(e)
        BY <1>0, InterestFacts
      <3> HIDE DEF e, rest
      <3>3. u \in Connections /\ u.events = e /\ u.writeShut = conn.writeShut
        BY <1>0, <3>2, UpdatedFacts
      <3> HIDE DEF u
      <3>4. /\ conn'.output = conn.output \o rest /\ conn'.events = e
            /\ conn'.writeShut = conn.writeShut
        BY <2>10, <3>1, <3>3 DEF Connections
      <3>5. wire' \o conn'.output = (wire \o conn.output) \o Chunks(m)
        <4>1. CASE conn.output = <<>>
          BY <1>0, <2>2, <2>5, <2>6, <3>4, <4>1, ConcatEmptySeq
        <4>2. CASE n = 0
          <5>1. rest = Chunks(m)
            BY SMTT(60), <2>2, <4>2, SubSeqFull DEF rest
          <5>2. wire' = wire
            BY <2>3, <2>5, <4>2
          <5>3. (wire \o conn.output) \o Chunks(m) = wire \o (conn.output \o Chunks(m))
            <6> DEFINE a == wire
                       b == conn.output
                       c == Chunks(m)
            <6>1. a \in Seq(Messages) /\ b \in Seq(Messages) /\ c \in Seq(Messages)
              BY <1>0, <2>2
            <6> HIDE DEF a, b, c
            <6>2. (a \o b) \o c = a \o (b \o c)
              BY SMTT(60), <6>1, ConcatAssociative
            <6>3. QED
              BY <6>2 DEF a, b, c
          <5>4. QED
            BY <3>4, <5>1, <5>2, <5>3
        <4>3. QED
          BY <2>4, <4>1, <4>2
      <3>6. SentInOrder'
        BY <2>7, <2>10, <3>5 DEF SentInOrder
      <3>7. ~conn.writeShut
        <4>1. CanClose
          BY <1>0, <1>2 DEF Connections, States, CanClose
        <4>2. QED
          BY <2>10, <4>1 DEF OutputIsSent, WatchedWhileBuffered, CanClose, ShutAfterOutput,
                             WritesDirectly
      <3>8. QED
        BY <3>1, <3>2, <3>4, <3>6, <3>7 DEF OutputIsSent, WatchedWhileBuffered, ShutAfterOutput
    <2>11. QED
      BY <2>1, <2>8, <2>9, <2>10 DEF SendCase
  <1>3. CASE conn.state = "kDisconnected"
    BY <1>1, <1>3 DEF sendInLoop, outVars
  <1>4. QED
    BY <1>1, <1>2, <1>3

(* The write side of a connection that is being closed is shut down once   *)
(* the output is empty, unless the connection is closed by force.          *)
ShutIfDrained == conn.state = "kDisconnecting" /\ conn.output = <<>> /\ ~forced => conn.writeShut

LEMMA WriteOut ==
  ASSUME TypeOK, OutputIsSent, ShutAfterOutput, ShutIfDrained, forced' = forced, handleWrite
  PROVE  OutputIsSent' /\ ShutAfterOutput' /\ ShutIfDrained'
  <1>0. /\ wire \in Seq(Messages) /\ taken \in Seq(Messages) /\ conn \in Connections
        /\ conn.output \in Seq(Messages) /\ conn.events \in Interests
    BY DEF TypeOK, Connections
  <1>1. CASE ~isWriting(conn.events)
    BY <1>1 DEF handleWrite, OutputIsSent, SentInOrder, WatchedWhileBuffered, ShutAfterOutput,
                ShutIfDrained
  <1>2. CASE isWriting(conn.events)
    <2>1. PICK n \in 0..Len(conn.output) : WriteCase(n)
      BY <1>2, WriteCases
    <2> DEFINE out == conn.output
               len == Len(conn.output)
               first == SubSeq(conn.output, 1, n)
               rest == SubSeq(conn.output, n + 1, len)
    <2>2. first \in Seq(Messages) /\ rest \in Seq(Messages)
      BY SMT, <1>0, <2>1
    <2>3. wire' = wire \o first /\ wire' \in Seq(Messages)
      <3>1. wire' = wire \o first
        BY <2>1 DEF WriteCase
      <3> HIDE DEF first
      <3>2. QED
        BY <1>0, <2>2, <3>1, ConcatProperties
    <2>4. (wire \o first) \o rest = wire \o conn.output
      BY <1>0, <2>1, Split
    <2>5. taken' = taken
      BY DEF handleWrite
    <2>6. n = 0 => rest = conn.output
      BY SMT, <1>0, SubSeqFull
    <2>7. CASE rest = <<>> /\ n > 0 /\ conn' = Drained(conn)
      <3>1. /\ conn'.output = <<>> /\ conn'.state = conn.state
            /\ conn'.events = disableWriting(conn.events)
            /\ conn.state = "kDisconnecting" => conn'.writeShut
        BY <1>0, <2>7, DrainedFacts
      <3>2. ~isWriting(conn'.events)
        BY SMTT(60), <1>0, <3>1, InterestFacts
      <3>3. wire' \o conn'.output = wire \o conn.output
        <4> HIDE DEF first, rest
        <4>1. wire' \o rest = wire \o conn.output
          BY <2>3, <2>4
        <4>2. QED
          BY <2>7, <3>1, <4>1
      <3>4. SentInOrder'
        BY <2>5, <3>3 DEF OutputIsSent, SentInOrder
      <3>5. QED
        BY <3>1, <3>2, <3>4 DEF OutputIsSent, WatchedWhileBuffered, ShutAfterOutput, ShutIfDrained
    <2>8. CASE (rest # <<>> \/ n = 0) /\ conn' = [conn EXCEPT !.output = rest]
      <3> HIDE DEF first, rest
      <3>1. /\ conn'.output = rest /\ conn'.state = conn.state /\ conn'.events = conn.events
            /\ conn'.writeShut = conn.writeShut
        BY <1>0, <2>2, <2>8 DEF Connections
      <3>2. SentInOrder'
        BY <2>3, <2>4, <2>5, <3>1 DEF OutputIsSent, SentInOrder
      <3>3. rest = <<>> => conn.output = <<>>
        BY <2>6, <2>8
      <3>4. WatchedWhileBuffered'
        BY <1>2, <3>1, <3>3 DEF OutputIsSent, WatchedWhileBuffered
      <3>5. ShutAfterOutput'
        <4>1. conn.writeShut => n = 0
          BY <2>1 DEF WriteCase
        <4>2. QED
          BY <2>6, <3>1, <4>1 DEF ShutAfterOutput
      <3>6. ShutIfDrained'
        BY <3>1, <3>3 DEF ShutIfDrained
      <3>7. QED
        BY <3>2, <3>4, <3>5, <3>6 DEF OutputIsSent
    <2>9. QED
      BY <2>1, <2>7, <2>8 DEF WriteCase
  <1>3. QED
    BY <1>1, <1>2

OutInv == OutputIsSent /\ ShutAfterOutput /\ ShutIfDrained /\ (delayed => forced)

(* Whatever neither writes nor buffers. *)
LEMMA OutKept ==
  ASSUME OutInv, wire' = wire, taken' = taken, delayed' => forced', forced => forced',
         conn'.output = conn.output, conn'.writeShut = conn.writeShut,
         \/ conn'.state = "kDisconnected"
         \/ /\ isWriting(conn'.events) = isWriting(conn.events)
            /\ \/ conn'.state = conn.state
               \/ CanClose /\ forced' /\ conn'.state = "kDisconnecting"
  PROVE  OutInv'
  <1>1. SentInOrder'
    BY DEF OutInv, OutputIsSent, SentInOrder
  <1>2. WatchedWhileBuffered'
    BY DEF OutInv, OutputIsSent, WatchedWhileBuffered, CanClose
  <1>3. ShutAfterOutput' /\ ShutIfDrained'
    BY DEF OutInv, ShutAfterOutput, ShutIfDrained
  <1>4. QED
    BY <1>1, <1>2, <1>3 DEF OutInv, OutputIsSent

LEMMA HandlersOut ==
  ASSUME TypeOK, OutInv, conn.state # "kConnecting", UNCHANGED <<delayed, forced>>,
         \/ handleClose \/ handleWrite \/ connectDestroyed
         \/ \E m \in Messages : sendInLoop(m)
         \/ UNCHANGED <<conn, outVars, pending, cbVars>>
  PROVE  OutInv'
  <1>0. conn \in Connections
    BY DEF TypeOK
  <1>1. CASE handleClose
    BY <1>0, <1>1, ClosedFacts, OutKept DEF handleClose, outVars, OutInv
  <1>2. CASE handleWrite
    BY <1>2, WriteOut DEF OutInv
  <1>3. CASE connectDestroyed
    <2>1. wire' = wire /\ taken' = taken /\ conn' \in {Closed(conn), Removed(conn)}
      BY <1>3 DEF connectDestroyed, removeChannel, outVars
    <2>2. CASE conn' = Closed(conn)
      BY <1>0, <2>1, <2>2, ClosedFacts, OutKept DEF OutInv
    <2>3. CASE conn' = Removed(conn)
      BY <1>0, <2>1, <2>3, RemovedFacts, OutKept DEF OutInv
    <2>4. QED
      BY <2>1, <2>2, <2>3
  <1>4. ASSUME NEW m \in Messages, sendInLoop(m)
        PROVE  OutInv'
    <2>1. OutputIsSent' /\ ShutAfterOutput' /\ (conn'.output = <<>> => conn.output = <<>>)
      BY <1>4, SendOut DEF OutInv
    <2>2. conn'.state = conn.state /\ conn'.writeShut = conn.writeShut
      BY <1>4, SendEffect
    <2>3. QED
      BY <2>1, <2>2 DEF OutInv, ShutIfDrained
  <1>5. CASE UNCHANGED <<conn, outVars, pending, cbVars>>
    BY <1>5, OutKept DEF outVars, OutInv
  <1>6. QED
    BY <1>1, <1>2, <1>3, <1>4, <1>5

LEMMA ConnectingOut ==
  ASSUME TypeOK, LoopInv, ConnectingInv, OutInv, [Next]_vars, conn.state = "kConnecting"
  PROVE  OutInv'
  <1>0. /\ conn \in Connections /\ conn.output = <<>> /\ ~conn.writeShut /\ conn.events = {}
        /\ ~forced
    BY DEF TypeOK, ConnectingInv
  <1>1. CASE connectEstablished /\ UNCHANGED <<delayed, forced>>
    <2>1. /\ conn'.output = <<>> /\ conn'.state = "kConnected" /\ conn'.writeShut = conn.writeShut
          /\ isWriting(conn'.events) = isWriting(conn.events)
      BY <1>0, <1>1, EstablishedFacts DEF connectEstablished
    <2>2. ~isWriting(conn.events)
      BY <1>0 DEF isWriting
    <2>3. wire' = wire /\ taken' = taken
      BY <1>1 DEF connectEstablished, outVars
    <2>4. SentInOrder'
      BY <1>0, <2>1, <2>3 DEF OutInv, OutputIsSent, SentInOrder
    <2>5. WatchedWhileBuffered' /\ ShutAfterOutput' /\ ShutIfDrained'
      BY <1>0, <2>1, <2>2 DEF WatchedWhileBuffered, ShutAfterOutput, ShutIfDrained
    <2>6. QED
      BY <1>1, <2>4, <2>5 DEF OutInv, OutputIsSent
  <1>2. CASE UNCHANGED <<conn, outVars, forced>> /\ (delayed' => delayed)
    BY <1>2, OutKept DEF outVars, OutInv
  <1>3. QED
    BY <1>1, <1>2, ConnectingActs

LEMMA OutStep ==
  ASSUME TypeOK, LoopInv, ConnectingInv, OutInv, [Next]_vars
  PROVE  OutInv'
  <1> USE DEF loopVars, serverVars, userVars, outVars, cbVars
  <1>a. SUFFICES ASSUME conn.state # "kConnecting" PROVE OutInv'
    BY ConnectingOut
  <1>0. conn \in Connections /\ (delayed => forced)
    BY DEF TypeOK, OutInv
  <1>1. CASE handleEvent
    <2>1. todo \in Seq(Handlers) /\ todo # <<>>
      BY <1>1 DEF handleEvent, TypeOK
    <2>2. Head(todo) # "establish"
      BY <1>a, <2>1, Popped DEF ConnectingInv
    <2>3. QED
      BY <1>1, <1>a, <2>2, HandlersOut DEF handleEvent, handleRead
  <1>2. CASE runFunctor
    <2> DEFINE f == Head(batch)
    <2>1. batch \in Seq(Functors) /\ batch # <<>>
      BY <1>2 DEF runFunctor, TypeOK
    <2>2. f \in Range(batch) /\ f \in Functors
      BY <2>1, Popped
    <2>3. f.op # "connectEstablished"
      BY <1>a, <2>2 DEF ConnectingInv, Queued
    <2>4. UNCHANGED <<delayed, forced>>
      BY <1>2 DEF runFunctor
    <2>5. CASE Run(f)
      <3>1. CASE f.op = "send" /\ sendInLoop(f.msg) /\ UNCHANGED <<cbVars, failed>>
        <4>1. f.msg \in Messages
          BY <2>2, <3>1, FunctorFacts
        <4>2. QED
          BY <1>a, <2>4, <3>1, <4>1, HandlersOut
      <3>2. CASE handleClose \/ connectDestroyed \/ UNCHANGED <<conn, outVars, pending, cbVars>>
        BY <1>a, <2>4, <3>2, HandlersOut
      <3>3. QED
        BY <2>3, <2>5, <3>1, <3>2 DEF Run, forceCloseInLoop
    <2>6. CASE UNCHANGED <<conn, outVars, pending, cbVars>>
      BY <1>a, <2>4, <2>6, HandlersOut
    <2>7. QED
      BY <1>2, <2>5, <2>6 DEF runFunctor
  <1>3. CASE poll \/ closeReturns \/ doPendingFunctors \/ batchEnds
    BY SMT, <1>0, <1>3, OutKept DEF poll, closeReturns, doPendingFunctors, batchEnds
  <1>4. CASE destroyReturns
    BY <1>0, <1>4, RemovedFacts, OutKept DEF destroyReturns, removeChannel
  <1>5. CASE delayExpires
    <2>1. wire' = wire /\ taken' = taken /\ forced' = forced /\ ~delayed' /\ forced
      BY <1>0, <1>5 DEF delayExpires
    <2>2. CASE conn' = conn
      BY <2>1, <2>2, OutKept
    <2>3. CASE CanClose /\ conn' = [conn EXCEPT !.state = "kDisconnecting"]
      BY <1>0, <2>1, <2>3, StateChange, OutKept DEF States
    <2>4. QED
      BY <1>5, <2>2, <2>3 DEF delayExpires
  <1>6. ASSUME NEW m \in Messages, send(m)
        PROVE  OutInv'
    BY <1>6, <1>a, HandlersOut DEF send
  <1>7. CASE shutdown
    <2> DEFINE d == [conn EXCEPT !.state = "kDisconnecting"]
    <2>1. /\ d \in Connections /\ d.state = "kDisconnecting" /\ d.events = conn.events
          /\ d.output = conn.output /\ d.writeShut = conn.writeShut
      BY <1>0, StateChange DEF States
    <2>2. conn' = Shut(d) /\ wire' = wire /\ taken' = taken /\ UNCHANGED <<delayed, forced>>
      BY <1>7 DEF shutdown
    <2> HIDE DEF d
    <2>3. /\ conn'.state = "kDisconnecting" /\ conn'.events = conn.events
          /\ conn'.output = conn.output
          /\ conn'.writeShut = (conn.writeShut \/ ~isWriting(conn.events))
      BY <2>1, <2>2, ShutFacts
    <2>4. conn.output # <<>> <=> isWriting(conn.events)
      BY <1>7 DEF OutInv, OutputIsSent, WatchedWhileBuffered, shutdown
    <2>5. SentInOrder'
      BY <2>2, <2>3 DEF OutInv, OutputIsSent, SentInOrder
    <2>6. WatchedWhileBuffered' /\ ShutAfterOutput' /\ ShutIfDrained'
      BY <2>3, <2>4 DEF OutInv, WatchedWhileBuffered, ShutAfterOutput, ShutIfDrained
    <2>7. QED
      BY <1>0, <2>2, <2>5, <2>6 DEF OutInv, OutputIsSent
  <1>8. CASE forceClose \/ forceCloseWithDelay
    <2>1. /\ CanClose /\ conn' = [conn EXCEPT !.state = "kDisconnecting"] /\ forced'
          /\ wire' = wire /\ taken' = taken
      BY <1>8 DEF forceClose, forceCloseWithDelay
    <2>2. QED
      BY <1>0, <2>1, StateChange, OutKept DEF States
  <1>9. CASE startRead \/ stopRead
    <2>1. /\ conn' \in {StartedRead(conn), StoppedRead(conn)}
          /\ wire' = wire /\ taken' = taken /\ UNCHANGED <<delayed, forced>>
      BY <1>9 DEF startRead, stopRead
    <2>2. QED
      BY <1>0, <2>1, ReadFacts, OutKept
  <1>10. CASE (\E m \in Messages : foreignSend(m)) \/ foreignQueues \/ dropRef
    <2>1. UNCHANGED <<conn, wire, taken, delayed, forced>>
      BY <1>10 DEF foreignSend, foreignQueues, dropRef
    <2>2. QED
      BY <1>0, <2>1, OutKept
  <1>11. CASE removeConnectionInLoop
    BY <1>0, <1>11, OutKept DEF removeConnectionInLoop
  <1>12. CASE serverDestructs
    BY <1>12, <1>a, HandlersOut DEF serverDestructs
  <1>13. CASE UNCHANGED vars
    BY <1>0, <1>13, OutKept DEF vars
  <1>14. QED
    BY <1>1, <1>2, <1>3, <1>4, <1>5, <1>6, <1>7, <1>8, <1>9, <1>10, <1>11, <1>12, <1>13
       DEF Next, LoopThread, UserOnLoop, Foreign, Server

-----------------------------------------------------------------------------
LEMMA InitialOut == Init => OutInv
  <1> SUFFICES ASSUME Init PROVE OutInv
    OBVIOUS
  <1>1. wire = <<>> /\ conn.output = <<>> /\ taken = <<>> /\ conn.state = "kConnecting"
        /\ ~conn.writeShut /\ ~delayed
    BY DEF Init
  <1>2. <<>> \o <<>> = <<>> /\ Len(<<>>) = 0 /\ 0 * Size = 0
    BY SMT, SizeAssumption
  <1>3. SentInOrder
    BY <1>1, <1>2, EmptyRange DEF SentInOrder, InOrder
  <1>4. QED
    BY <1>1, <1>3 DEF OutInv, OutputIsSent, WatchedWhileBuffered, ShutAfterOutput, ShutIfDrained

LEMMA AlwaysOut == Spec => [](TypeOK /\ LoopInv /\ ConnectingInv /\ OutInv)
  <1> DEFINE I == TypeOK /\ LoopInv /\ ConnectingInv /\ OutInv
  <1>1. Init => I
    BY Initially, InitialOut
  <1>2. I /\ [Next]_vars => I'
    BY TypeStep, LoopStep, ConnectingStep, OutStep
  <1>3. QED
    BY <1>1, <1>2, PTL DEF Spec

(* Whatever the program does with the connection, the bytes that reached   *)
(* the kernel followed by those in the output buffer are the messages      *)
(* sendInLoop() took, whole and in order, and output waits in the buffer   *)
(* exactly while the channel watches for writability.                      *)
THEOREM OutputInOrder == Spec => []OutputIsSent
  <1>1. OutInv => OutputIsSent
    BY DEF OutInv
  <1>2. QED
    BY <1>1, AlwaysOut, PTL

(* shutdown() closes the write side when nothing is left to write, and not *)
(* before, however sends, partial writes and a close interleave with it.   *)
THEOREM ShutdownWaits == Spec => []ShutdownOnceDrained
  <1>1. OutInv => ShutdownOnceDrained
    BY DEF OutInv, ShutAfterOutput, ShutIfDrained, ShutdownOnceDrained
  <1>2. QED
    BY <1>1, AlwaysOut, PTL

-----------------------------------------------------------------------------
(* The life of a connection in a program that does none of the Uses.       *)

CD == "connectDestroyed"
FC == "forceClose"

LifeInv == UpInv /\ ChannelInv /\ DownInv /\ RawInv /\ failed = {}
Before == TypeOK /\ LoopInv /\ ConnectingInv /\ LifeInv

(* A step of the queues that neither adds nor takes a functor op. *)
Moved(op) ==
  \/ ToldIn(pending, pending') /\ batch' = batch
  \/ batch # <<>> /\ Head(batch).op # op /\ batch' = Tail(batch) /\ ToldIn(pending, pending')
  \/ batch = <<>> /\ batch' = pending /\ pending' = <<>>
  \/ \E f \in Functors : f.op # op /\ pending' = pending \o <<f>> /\ batch' = batch

LEMMA Moves ==
  ASSUME TypeOK, NEW op, op \notin {"writeComplete", "highWater"}, Moved(op)
  PROVE  /\ Queued(op)' <=> Queued(op)
         /\ QueuedOnce(op) => QueuedOnce(op)'
  <1>0. pending \in Seq(Functors) /\ batch \in Seq(Functors)
    BY DEF TypeOK
  <1> SUFFICES /\ HasIn(pending', batch', op) <=> HasIn(pending, batch, op)
               /\ OnceIn(pending, batch, op) => OnceIn(pending', batch', op)
    BY QueuedIn
  <1>1. CASE ToldIn(pending, pending') /\ batch' = batch
    BY <1>0, <1>1, InTold
  <1>2. CASE batch # <<>> /\ Head(batch).op # op /\ batch' = Tail(batch) /\ ToldIn(pending, pending')
    <2>1. /\ HasIn(pending, batch, op) <=> HasIn(pending, Tail(batch), op)
          /\ OnceIn(pending, batch, op) => OnceIn(pending, Tail(batch), op)
      BY <1>0, <1>2, InPop
    <2>2. Tail(batch) \in Seq(Functors)
      BY <1>2, NextFunctor
    <2> DEFINE t == Tail(batch)
    <2> HIDE DEF t
    <2>3. /\ HasIn(pending', t, op) <=> HasIn(pending, t, op)
          /\ OnceIn(pending, t, op) => OnceIn(pending', t, op)
      BY <1>0, <1>2, <2>2, InTold DEF t
    <2>4. QED
      BY <1>2, <2>1, <2>3 DEF t
  <1>3. CASE batch = <<>> /\ batch' = pending /\ pending' = <<>>
    BY <1>0, <1>3, InMove
  <1>4. ASSUME NEW f \in Functors, f.op # op, pending' = pending \o <<f>>, batch' = batch
        PROVE  /\ HasIn(pending', batch', op) <=> HasIn(pending, batch, op)
               /\ OnceIn(pending, batch, op) => OnceIn(pending', batch', op)
    BY <1>0, <1>4, InPush
  <1>5. QED
    BY <1>1, <1>2, <1>3, <1>4 DEF Moved

LEMMA MovesPush ==
  ASSUME TypeOK, NEW op, NEW q \in SharedFunctors, q # op, Queue(<<Functor(q)>>), batch' = batch
  PROVE  Moved(op)
  BY FunctorFacts DEF Moved, Queue

(* What becomes of a functor that is queued, and of one that is taken. *)
LEMMA Pushes ==
  ASSUME TypeOK, NEW op \in SharedFunctors, Queue(<<Functor(op)>>), batch' = batch
  PROVE  Queued(op)' /\ (QueuedOnce(op) /\ ~Queued(op) => QueuedOnce(op)')
  <1>1. pending \in Seq(Functors) /\ batch \in Seq(Functors) /\ Functor(op) \in Functors
        /\ Functor(op).op = op /\ pending' = pending \o <<Functor(op)>>
    BY FunctorFacts DEF TypeOK, Queue
  <1>2. QED
    BY <1>1, InPush, QueuedIn

LEMMA Pops ==
  ASSUME TypeOK, NEW op, batch # <<>>, batch' = Tail(batch), pending' = pending
  PROVE  /\ Head(batch).op = op => Queued(op)
         /\ Queued(op)' => Queued(op)
         /\ QueuedOnce(op) => QueuedOnce(op)'
         /\ QueuedOnce(op) /\ Head(batch).op = op => ~Queued(op)'
  <1>1. pending \in Seq(Functors) /\ batch \in Seq(Functors)
    BY DEF TypeOK
  <1>2. /\ HasIn(pending, batch, op) <=> HasIn(pending, Tail(batch), op) \/ Head(batch).op = op
        /\ OnceIn(pending, batch, op) =>
             /\ OnceIn(pending, Tail(batch), op)
             /\ Head(batch).op = op => ~HasIn(pending, Tail(batch), op)
    BY <1>1, InPop
  <1>3. QED
    BY <1>2, QueuedIn

-----------------------------------------------------------------------------
(* The way of the connection through the server's map and the queues.      *)

SameWay == UNCHANGED <<inMap, removing, threaded, cb, downs, destroys>>

LEMMA WayKept ==
  ASSUME TypeOK, UpInv, DownInv, SameWay, Moved(CD),
         conn.state = "kDisconnected" => conn' = conn,
         conn.state # "kDisconnected" => conn'.state # "kDisconnected"
  PROVE  UpInv' /\ DownInv'
  <1>1. /\ Queued(CD)' <=> Queued(CD)
        /\ QueuedOnce(CD) => QueuedOnce(CD)'
    BY Moves DEF CD
  <1>2. UpInv'
    BY <1>1 DEF UpInv, SameWay, CD
  <1>3. DownInv'
    BY <1>1 DEF DownInv, SameWay, CD
  <1>4. QED
    BY <1>2, <1>3

LEMMA WayClosed ==
  ASSUME TypeOK, UpInv, failed = {}, CanClose, conn.index = "kAdded", handleClose,
         UNCHANGED <<inMap, removing, threaded>>,
         \/ batch' = batch
         \/ batch # <<>> /\ batch' = Tail(batch) /\ Head(batch).op # CD
  PROVE  UpInv' /\ DownInv' /\ failed' = {}
  <1>0. /\ inMap /\ removing = 0 /\ cb = "none" /\ downs = 0 /\ destroys = 0 /\ ~Queued(CD)
        /\ conn \in Connections
    BY DEF TypeOK, UpInv, CanClose, CD
  <1>1. pending' = pending
    BY DEF handleClose
  <1>2. Moved(CD)
    BY <1>1 DEF Moved, ToldIn
  <1>3. ~Queued(CD)'
    BY <1>0, <1>2, Moves DEF CD
  <1>4. QueuedOnce(CD)'
    <2>1. ~HasIn(pending', batch', CD)
      BY <1>3, QueuedIn
    <2>2. OnceIn(pending', batch', CD)
      BY <2>1 DEF OnceIn, HasIn, AtMostOnce, Range
    <2>3. QED
      BY <2>2, QueuedIn
  <1>5. /\ conn'.state = "kDisconnected" /\ conn'.events = {} /\ conn'.index = "kDeleted"
    BY <1>0, ClosedFacts DEF handleClose
  <1>6. cb' = "close" /\ downs' = 1 /\ destroys' = 0 /\ failed' = {}
    BY SMT, <1>0 DEF handleClose, Asserted
  <1>7. QED
    BY <1>0, <1>3, <1>4, <1>5, <1>6 DEF UpInv, DownInv, CD

LEMMA WayCloseReturns ==
  ASSUME Before, closeReturns
  PROVE  UpInv' /\ DownInv' /\ failed' = {}
  <1>0. /\ conn.state = "kDisconnected" /\ downs = 1 /\ conn.events = {} /\ QueuedOnce(CD)
        /\ inMap /\ removing = 0 /\ ~Queued(CD) /\ destroys = 0 /\ conn.index # "kAdded"
        /\ TypeOK /\ failed = {} /\ UpInv /\ cb = "close"
    BY DEF Before, LifeInv, UpInv, DownInv, closeReturns, CD
  <1>1. UNCHANGED <<conn, batch, threaded, downs, destroys>> /\ cb' = "none"
    BY DEF closeReturns
  <1>2. CASE threaded /\ removing' = RemovalsAsked /\ UNCHANGED <<inMap, pending, failed>>
    <2>1. removing' = 1
      BY SMT, <1>0, <1>2 DEF RemovalsAsked
    <2>2. Moved(CD)
      BY <1>1, <1>2 DEF Moved, ToldIn
    <2>3. ~Queued(CD)' /\ QueuedOnce(CD)'
      BY <1>0, <2>2, Moves DEF CD
    <2>4. QED
      BY <1>0, <1>1, <1>2, <2>1, <2>3 DEF UpInv, DownInv, CD
  <1>3. CASE removeFromMap /\ UNCHANGED removing
    <2>1. Queued(CD)' /\ QueuedOnce(CD)'
      BY <1>0, <1>1, <1>3, Pushes, FunctorFacts DEF removeFromMap, CD
    <2>2. ~inMap' /\ failed' = {}
      BY <1>0, <1>3 DEF removeFromMap, Asserted
    <2>3. QED
      BY <1>0, <1>1, <1>3, <2>1, <2>2 DEF UpInv, DownInv, CD
  <1>4. QED
    BY <1>2, <1>3 DEF closeReturns

LEMMA WayRemoved ==
  ASSUME Before, removeConnectionInLoop
  PROVE  UpInv' /\ DownInv' /\ failed' = {}
  <1>0. /\ removing > 0 /\ removing' = removing - 1 /\ removeFromMap /\ TypeOK /\ failed = {}
        /\ UNCHANGED <<conn, batch, downs, destroys, cb, threaded>>
    BY DEF removeConnectionInLoop, Before, LifeInv, cbVars
  <1>1. removing # 0
    BY SMT, <1>0
  <1>2. /\ conn.state = "kDisconnected" /\ downs = 1 /\ conn.events = {} /\ QueuedOnce(CD)
        /\ inMap /\ removing = 1 /\ ~Queued(CD) /\ destroys = 0 /\ conn.index # "kAdded"
        /\ cb = "none"
    BY <1>1 DEF Before, LifeInv, UpInv, DownInv, CD
  <1>3. removing' = 0
    BY SMTT(60), <1>0, <1>2
  <1>4. Queued(CD)' /\ QueuedOnce(CD)'
    BY <1>0, <1>2, Pushes, FunctorFacts DEF removeFromMap, CD
  <1>5. ~inMap' /\ failed' = {}
    BY <1>0, <1>2 DEF removeFromMap, Asserted
  <1>6. QED
    BY <1>0, <1>2, <1>3, <1>4, <1>5 DEF UpInv, DownInv, CD

LEMMA WayDestroyed ==
  ASSUME Before, connectDestroyed, batch # <<>>, batch' = Tail(batch), Head(batch).op = CD,
         UNCHANGED <<inMap, removing, threaded>>
  PROVE  /\ UpInv' /\ DownInv' /\ failed' = {}
         /\ conn.state = "kDisconnected" /\ conn'.state = "kDisconnected"
  <1>0. TypeOK /\ failed = {} /\ pending' = pending /\ conn \in Connections
    BY DEF Before, LifeInv, connectDestroyed, TypeOK
  <1>1. Queued(CD)
    BY <1>0, Pops
  <1>2. /\ conn.state = "kDisconnected" /\ downs = 1 /\ conn.events = {} /\ QueuedOnce(CD)
        /\ ~inMap /\ removing = 0 /\ destroys = 0 /\ cb = "none"
    BY <1>1 DEF Before, LifeInv, UpInv, DownInv, CD
  <1>3. ~Queued(CD)' /\ QueuedOnce(CD)'
    BY <1>0, <1>2, Pops
  <1>4. conn' = Removed(conn) /\ failed' = {} /\ destroys' = 1 /\ UNCHANGED <<cb, downs>>
    BY SMTT(60), <1>0, <1>2 DEF connectDestroyed, StillUp, removeChannel, Asserted
  <1>5. conn'.index = "kNew" /\ conn'.state = "kDisconnected" /\ conn'.events = {}
    BY <1>0, <1>2, <1>4, RemovedFacts
  <1>6. QED
    BY <1>2, <1>3, <1>4, <1>5 DEF UpInv, DownInv, CD

LEMMA WayDestroyReturns ==
  ASSUME Before, destroyReturns
  PROVE  /\ UpInv' /\ DownInv' /\ failed' = {}
         /\ conn.state = "kDisconnected" /\ conn'.state = "kDisconnected"
  <1>0. /\ TypeOK /\ failed = {} /\ UNCHANGED <<pending, batch, inMap, removing, downs, destroys>>
        /\ cb = "destroy" /\ cb' = "none" /\ conn \in Connections /\ removeChannel
    BY DEF Before, LifeInv, destroyReturns, TypeOK, loopVars, serverVars
  <1>1. /\ conn.state = "kDisconnected" /\ downs = 1 /\ conn.events = {} /\ QueuedOnce(CD)
        /\ ~inMap /\ removing = 0 /\ ~Queued(CD) /\ destroys = 1
    BY <1>0 DEF Before, LifeInv, UpInv, DownInv, CD
  <1>2. Moved(CD)
    BY <1>0 DEF Moved, ToldIn
  <1>3. ~Queued(CD)' /\ QueuedOnce(CD)'
    BY <1>0, <1>1, <1>2, Moves DEF CD
  <1>4. conn' = Removed(conn) /\ failed' = {}
    BY <1>0, <1>1 DEF removeChannel, Asserted
  <1>5. conn'.index = "kNew" /\ conn'.state = "kDisconnected" /\ conn'.events = {}
    BY <1>0, <1>1, <1>4, RemovedFacts
  <1>6. QED
    BY <1>0, <1>1, <1>3, <1>4, <1>5 DEF UpInv, DownInv, CD

LEMMA WayDestructs ==
  ASSUME Uses = {}, Before, serverDestructs
  PROVE  /\ UpInv' /\ DownInv' /\ failed' = {}
         /\ conn' = conn \/ conn'.state = "kDisconnected"
         /\ pending' = pending
  <1>0. /\ TypeOK /\ failed = {} /\ conn \in Connections /\ ~threaded /\ ups > 0 /\ cb = "none"
        /\ conn.state # "kDisconnecting" /\ inMap' = FALSE
        /\ UNCHANGED <<batch, removing, threaded>> /\ UpInv /\ DownInv /\ inMap \in BOOLEAN
    BY DEF Before, LifeInv, serverDestructs, TypeOK
  <1>1. conn.state # "kConnecting"
    <2>1. ups # 0
      BY SMT, <1>0
    <2>2. QED
      BY <2>1 DEF Before, ConnectingInv
  <1>2. CASE inMap /\ connectDestroyed
    <2>1. conn.state # "kDisconnected"
      BY <1>0, <1>2 DEF DownInv
    <2>2. conn.state = "kConnected"
      BY <1>0, <1>1, <2>1 DEF Connections, States
    <2>3. removing = 0 /\ downs = 0 /\ destroys = 0 /\ ~Queued(CD)
      BY <1>0, <2>2 DEF UpInv, CD
    <2>4. /\ conn' = Closed(conn) /\ cb' = "destroy" /\ downs' = 1 /\ destroys' = 1
          /\ failed' = failed /\ pending' = pending
      BY SMT, <1>2, <2>2, <2>3 DEF connectDestroyed, StillUp
    <2>5. conn'.state = "kDisconnected" /\ conn'.events = {}
      BY <1>0, <2>4, ClosedFacts
    <2>6. Moved(CD)
      BY <1>0, <2>4 DEF Moved, ToldIn
    <2>7. ~Queued(CD)'
      BY <1>0, <2>3, <2>6, Moves DEF CD
    <2>8. QueuedOnce(CD)'
      <3>1. ~HasIn(pending', batch', CD)
        BY <2>7, QueuedIn
      <3>2. OnceIn(pending', batch', CD)
        BY <3>1 DEF OnceIn, HasIn, AtMostOnce, Range
      <3>3. QED
        BY <3>2, QueuedIn
    <2>9. QED
      BY <1>0, <2>3, <2>4, <2>5, <2>7, <2>8 DEF UpInv, DownInv, CD
  <1>3. CASE ~inMap /\ UNCHANGED <<conn, outVars, pending, cbVars, failed>>
    <2>1. SameWay /\ conn' = conn /\ pending' = pending /\ failed' = {}
      BY <1>0, <1>3 DEF SameWay, cbVars
    <2>2. Moved(CD)
      BY <1>0, <2>1 DEF Moved, ToldIn
    <2>3. QED
      BY <1>0, <2>1, <2>2, WayKept
  <1>4. QED
    BY <1>0, <1>2, <1>3 DEF serverDestructs

-----------------------------------------------------------------------------
(* Handlers that leave the connection as it is, up or down.                *)

ChannelOK(c) ==
  /\ c.reading = isReading(c.events)
  /\ c.index = IF c.events = {} THEN "kDeleted" ELSE "kAdded"

Quiet ==
  /\ conn' \in Connections /\ conn'.state = conn.state
  /\ conn.state = "kDisconnected" => conn' = conn
  /\ CanClose => ChannelOK(conn') /\ isReading(conn'.events) = isReading(conn.events)
  /\ UNCHANGED <<cb, downs, destroys, failed>>
  /\ ToldIn(pending, pending')
KeepsIndex == conn.index = "kAdded" => conn'.index = "kAdded"

LEMMA QuietNone ==
  ASSUME Before, UNCHANGED <<conn, outVars, pending, cbVars, failed>>
  PROVE  Quiet /\ KeepsIndex
  BY DEF Before, TypeOK, LifeInv, ChannelInv, ChannelOK, Quiet, KeepsIndex, ToldIn, cbVars, CanClose

LEMMA QuietSend ==
  ASSUME Before, NEW m \in Messages, sendInLoop(m), UNCHANGED <<cbVars, failed>>
  PROVE  Quiet /\ KeepsIndex
  <1>0. TypeOK /\ conn \in Connections /\ (CanClose => ChannelOK(conn))
    BY DEF Before, TypeOK, LifeInv, ChannelInv, ChannelOK
  <1>1. /\ conn' \in Connections /\ conn'.state = conn.state /\ conn'.reading = conn.reading
        /\ isReading(conn'.events) = isReading(conn.events)
        /\ \/ conn' = conn
           \/ conn.state # "kDisconnected" /\ conn'.index = "kAdded" /\ isWriting(conn'.events)
        /\ ToldIn(pending, pending')
    BY <1>0, SendEffect DEF ToldIn
  <1>2. isWriting(conn'.events) => conn'.events # {}
    BY DEF isWriting
  <1>3. QED
    BY <1>0, <1>1, <1>2 DEF Quiet, KeepsIndex, ChannelOK, cbVars

LEMMA QuietWrite ==
  ASSUME Before, handleWrite
  PROVE  Quiet
  <1>0. TypeOK /\ conn \in Connections /\ (CanClose => ChannelOK(conn))
        /\ (conn.state = "kDisconnected" => conn.events = {})
    BY DEF Before, TypeOK, LifeInv, ChannelInv, ChannelOK, DownInv
  <1>1. /\ conn' \in Connections /\ conn'.state = conn.state /\ conn'.reading = conn.reading
        /\ isReading(conn'.events) = isReading(conn.events)
        /\ UNCHANGED <<cbVars, failed>>
        /\ \/ conn'.events = conn.events /\ conn'.index = conn.index
           \/ /\ isWriting(conn.events)
              /\ conn'.index = IF conn.index = "kAdded" /\ conn'.events = {}
                               THEN "kDeleted" ELSE "kAdded"
        /\ ~isWriting(conn.events) => conn' = conn
        /\ ToldIn(pending, pending')
    BY <1>0, WriteEffect DEF ToldIn
  <1>2. isWriting(conn.events) => conn.events # {}
    BY DEF isWriting
  <1>3. QED
    BY <1>0, <1>1, <1>2 DEF Quiet, ChannelOK, cbVars

(* What a handler or functor of an established connection does. *)
Closing == handleClose /\ CanClose /\ conn.index = "kAdded"

LEMMA EventActs ==
  ASSUME Before, handleEvent, conn.state # "kConnecting"
  PROVE  /\ todo \in Seq(Handlers) /\ todo # <<>> /\ todo' = Tail(todo)
         /\ UNCHANGED <<batch, phase, serverVars, call, delayed, forced>>
         /\ userRef => userRef'
         /\ \/ Head(todo) \in Closers /\ Closing
            \/ Quiet /\ (KeepsIndex \/ Head(todo) = "write")
  <1>0. /\ todo \in Seq(Handlers) /\ todo # <<>> /\ todo' = Tail(todo)
        /\ UNCHANGED <<batch, phase, serverVars, call, delayed, forced>>
        /\ userRef => userRef'
    BY DEF Before, TypeOK, handleEvent
  <1>1. Head(todo) \in Range(todo)
    BY SMT, <1>0, Popped
  <1>2. Head(todo) # "establish"
    BY <1>1 DEF Before, ConnectingInv
  <1>3. Head(todo) \in Closers => CanClose /\ conn.index = "kAdded"
    BY <1>1 DEF Before, LifeInv, ChannelInv
  <1>4. CASE Head(todo) \in Closers /\ handleClose
    BY <1>0, <1>3, <1>4 DEF Closing
  <1>5. CASE UNCHANGED <<conn, outVars, pending, cbVars, failed>>
    BY <1>0, <1>5, QuietNone
  <1>6. CASE Head(todo) = "write" /\ handleWrite
    BY <1>0, <1>6, QuietWrite
  <1>7. QED
    BY <1>2, <1>4, <1>5, <1>6 DEF handleEvent, handleRead, Closers

LEMMA RunActs ==
  ASSUME Before, runFunctor, conn.state # "kConnecting"
  PROVE  /\ batch \in Seq(Functors) /\ batch # <<>> /\ batch' = Tail(batch) /\ todo = <<>>
         /\ UNCHANGED <<phase, todo, serverVars, call, delayed, forced>>
         /\ userRef => userRef'
         /\ \/ Head(batch).op = FC /\ Closing
            \/ Head(batch).op = CD /\ connectDestroyed
            \/ Head(batch).op # CD /\ Quiet /\ KeepsIndex
  <1> DEFINE f == Head(batch)
  <1>0. /\ batch \in Seq(Functors) /\ batch # <<>> /\ batch' = Tail(batch) /\ todo = <<>>
        /\ UNCHANGED <<phase, todo, serverVars, call, delayed, forced>>
        /\ userRef => userRef'
    BY DEF Before, TypeOK, LoopInv, runFunctor
  <1>1. f \in Range(batch) /\ f \in Functors
    BY SMT, <1>0, Popped
  <1>2. f.op # "connectEstablished"
    BY <1>1 DEF Before, ConnectingInv, Queued
  <1>3. Referenced
    <2>1. CASE f.op \in SharedFunctors
      BY <1>1, <2>1 DEF Referenced
    <2>2. CASE f.op = "send"
      BY <1>1, <2>2 DEF Before, LifeInv, RawInv, Queued, Referenced
    <2>3. QED
      BY <1>1, <2>1, <2>2, FunctorFacts
  <1>4. Run(f)
    BY <1>3 DEF runFunctor
  <1>5. CASE f.op = CD /\ connectDestroyed
    BY <1>0, <1>5
  <1>6. CASE f.op = FC /\ forceCloseInLoop
    <2>1. CASE CanClose /\ handleClose
      <3>1. forced
        BY <1>1, <1>6 DEF Before, LifeInv, ChannelInv, Queued, FC
      <3>2. isReading(conn.events)
        BY <2>1, <3>1 DEF Before, LifeInv, ChannelInv, CanClose
      <3>3. conn.events # {}
        BY <3>2 DEF isReading
      <3>4. conn.index = "kAdded"
        BY <2>1, <3>3 DEF Before, LifeInv, ChannelInv
      <3>5. QED
        BY <1>0, <1>6, <2>1, <3>4 DEF Closing
    <2>2. CASE UNCHANGED <<conn, outVars, pending, cbVars, failed>>
      <3>1. Quiet /\ KeepsIndex
        BY <2>2, QuietNone
      <3>2. QED
        BY <1>0, <1>6, <3>1 DEF FC, CD
    <2>3. QED
      BY <1>6, <2>1, <2>2 DEF forceCloseInLoop, InLoopGuard
  <1>7. CASE f.op = "send" /\ sendInLoop(f.msg) /\ UNCHANGED <<cbVars, failed>>
    <2>1. f.msg \in Messages
      BY <1>1, <1>7, FunctorFacts
    <2>2. Quiet /\ KeepsIndex
      BY <1>7, <2>1, QuietSend
    <2>3. QED
      BY <1>0, <1>7, <2>2 DEF CD
  <1>8. CASE f.op \in {"writeComplete", "highWater"} /\ UNCHANGED <<conn, outVars, pending, cbVars, failed>>
    <2>1. Quiet /\ KeepsIndex
      BY <1>8, QuietNone
    <2>2. QED
      BY <1>0, <1>8, <2>1 DEF CD
  <1>9. QED
    BY <1>2, <1>4, <1>5, <1>6, <1>7, <1>8 DEF Run, CD, FC

(* A call of the program that finds the connection established leaves it   *)
(* so, and asks for a close only while the channel reads.                  *)
UserStep ==
  /\ CanClose
  /\ conn'.state \in {"kConnected", "kDisconnecting"}
  /\ ChannelOK(conn')
  /\ forced => forced'
  /\ delayed' => forced'
  /\ forced' => conn'.state = "kDisconnecting" /\ isReading(conn'.events)
  /\ Range(todo) \cap Closers # {} => conn'.index = "kAdded"
  /\ ToldIn(pending, pending') \/ (Queue(<<Functor(FC)>>) /\ forced')

LEMMA UserActs ==
  ASSUME Uses = {}, Before, UserOnLoop
  PROVE  UserStep
  <1>0. /\ conn \in Connections /\ (delayed => forced) /\ TypeOK
        /\ forced => \/ conn.state = "kDisconnected"
                     \/ conn.state = "kDisconnecting" /\ isReading(conn.events)
        /\ CanClose => ChannelOK(conn)
        /\ Range(todo) \cap Closers # {} => conn.index = "kAdded"
    BY DEF Before, TypeOK, LifeInv, ChannelInv, ChannelOK
  <1>a. UserHere => conn.state # "kConnecting"
    BY DEF UserHere, Before, ConnectingInv
  <1>1. ASSUME NEW m \in Messages, send(m)
        PROVE  UserStep
    <2>1. Quiet /\ KeepsIndex /\ CanClose /\ UNCHANGED <<delayed, forced>>
      BY <1>1, QuietSend DEF send, CanClose
    <2>2. QED
      BY SMTT(60), <1>0, <1>1, <2>1 DEF UserStep, Quiet, KeepsIndex, CanClose, send
  <1>2. CASE shutdown
    <2> DEFINE d == [conn EXCEPT !.state = "kDisconnecting"]
    <2>1. /\ d \in Connections /\ d.state = "kDisconnecting" /\ d.events = conn.events
          /\ d.index = conn.index /\ d.reading = conn.reading
      BY <1>0, StateChange DEF States
    <2>2. conn' = Shut(d) /\ UNCHANGED <<delayed, forced, pending>> /\ conn.state = "kConnected"
      BY <1>2 DEF shutdown, loopVars
    <2> HIDE DEF d
    <2>3. /\ conn'.state = "kDisconnecting" /\ conn'.events = conn.events
          /\ conn'.index = conn.index /\ conn'.reading = conn.reading
      BY <2>1, <2>2, ShutFacts
    <2>4. QED
      BY <1>0, <2>2, <2>3 DEF UserStep, CanClose, ChannelOK, ToldIn
  <1>3. CASE forceClose \/ forceCloseWithDelay
    <2>1. /\ CanClose /\ isReading(conn.events) /\ conn' = [conn EXCEPT !.state = "kDisconnecting"]
          /\ forced' /\ (pending' = pending \/ Queue(<<Functor(FC)>>))
      BY <1>3 DEF forceClose, forceCloseWithDelay, loopVars, FC
    <2>2. /\ conn'.state = "kDisconnecting" /\ conn'.events = conn.events
          /\ conn'.index = conn.index /\ conn'.reading = conn.reading
      BY <1>0, <2>1, StateChange DEF States
    <2>3. QED
      BY <1>0, <2>1, <2>2 DEF UserStep, ChannelOK, ToldIn
  <1>4. CASE startRead
    <2>1. conn' = StartedRead(conn) /\ CanClose /\ UNCHANGED <<delayed, forced, pending>>
      BY <1>0, <1>4, <1>a DEF startRead, CanClose, Connections, States, loopVars
    <2>2. /\ conn'.state = conn.state /\ conn'.reading /\ isReading(conn'.events)
          /\ conn' = conn \/ conn'.index = "kAdded"
          /\ conn' \in Connections
      BY <1>0, <2>1, ReadFacts
    <2>3. conn'.events # {}
      BY <2>2 DEF isReading
    <2>4. ChannelOK(conn')
      <3>1. conn'.reading = isReading(conn'.events)
        <4>1. conn'.reading \in BOOLEAN /\ isReading(conn'.events) \in BOOLEAN
          BY <2>2 DEF Connections, isReading
        <4>2. QED
          BY <2>2, <4>1
      <3>2. QED
        BY <1>0, <2>1, <2>2, <2>3, <3>1 DEF ChannelOK
    <2>5. QED
      BY <1>0, <2>1, <2>2, <2>4 DEF UserStep, CanClose, ToldIn
  <1>5. CASE stopRead
    <2>1. /\ conn' = StoppedRead(conn) /\ conn.state = "kConnected"
          /\ Range(todo) \cap Closers = {} /\ UNCHANGED <<delayed, forced, pending>>
      BY <1>5 DEF stopRead, Closers, loopVars
    <2>2. /\ conn'.state = conn.state /\ ~conn'.reading /\ ~isReading(conn'.events)
          /\ isWriting(conn'.events) = isWriting(conn.events)
          /\ \/ conn' = conn
             \/ conn'.index = IF conn.index = "kAdded" /\ conn'.events = {}
                              THEN "kDeleted" ELSE "kAdded"
          /\ conn' \in Connections
      BY <1>0, <2>1, ReadFacts
    <2>3. CanClose /\ ~forced
      BY <1>0, <2>1 DEF CanClose
    <2>4. ChannelOK(conn')
      <3>1. conn'.reading = isReading(conn'.events)
        <4>1. conn'.reading \in BOOLEAN /\ isReading(conn'.events) \in BOOLEAN
          BY <2>2 DEF Connections, isReading
        <4>2. QED
          BY <2>2, <4>1
      <3>2. conn'.index = IF conn'.events = {} THEN "kDeleted" ELSE "kAdded"
        <4>1. CASE conn' = conn
          BY <1>0, <2>3, <4>1 DEF ChannelOK
        <4>2. CASE conn.index = "kAdded" /\ conn' # conn
          BY <2>2, <4>2
        <4>3. CASE conn.index # "kAdded" /\ conn' # conn
          <5>1. conn.events = {} /\ ~conn.reading
            BY <1>0, <2>3, <4>3 DEF ChannelOK, isReading
          <5>2. StoppedRead(conn) = conn
            BY <5>1 DEF StoppedRead, isReading
          <5>3. QED
            BY <2>1, <4>3, <5>2
        <4>4. QED
          BY <4>1, <4>2, <4>3
      <3>3. QED
        BY <3>1, <3>2 DEF ChannelOK
    <2>5. QED
      BY <1>0, <2>1, <2>2, <2>3, <2>4 DEF UserStep, ToldIn
  <1>6. QED
    BY <1>1, <1>2, <1>3, <1>4, <1>5 DEF UserOnLoop

LEMMA UserFrame ==
  ASSUME UserOnLoop
  PROVE  UNCHANGED <<batch, phase, todo, serverVars, call, userRef, cbVars, failed>>
  <1>1. ASSUME NEW m \in Messages, send(m)
        PROVE  UNCHANGED <<batch, phase, todo, serverVars, call, userRef, cbVars, failed>>
    BY <1>1 DEF send
  <1>2. CASE shutdown \/ forceClose \/ forceCloseWithDelay
    BY <1>2 DEF shutdown, forceClose, forceCloseWithDelay, loopVars
  <1>3. CASE startRead \/ stopRead
    BY <1>3 DEF startRead, stopRead, loopVars
  <1>4. QED
    BY <1>1, <1>2, <1>3 DEF UserOnLoop

LEMMA DelayActs ==
  ASSUME Before, delayExpires, conn.state # "kConnecting"
  PROVE  /\ UNCHANGED <<batch, phase, todo, serverVars, call, userRef, cbVars, failed>>
         /\ UserStep \/ (UNCHANGED <<conn, pending, forced>> /\ ~delayed')
  <1>0. /\ conn \in Connections /\ forced /\ forced' = forced /\ ~delayed'
        /\ \/ conn.state = "kDisconnected"
           \/ conn.state = "kDisconnecting" /\ isReading(conn.events)
        /\ CanClose => ChannelOK(conn)
        /\ Range(todo) \cap Closers # {} => conn.index = "kAdded"
    BY DEF Before, TypeOK, LifeInv, ChannelInv, ChannelOK, delayExpires
  <1>1. UNCHANGED <<batch, phase, todo, serverVars, call, userRef, cbVars, failed>>
    BY DEF delayExpires
  <1>2. CASE /\ CanClose /\ conn' = [conn EXCEPT !.state = "kDisconnecting"]
             /\ Queue(<<Functor("forceClose")>>)
    <2>1. /\ conn'.state = "kDisconnecting" /\ conn'.events = conn.events
          /\ conn'.index = conn.index /\ conn'.reading = conn.reading
      BY <1>0, <1>2, StateChange DEF States
    <2>2. UserStep
      BY <1>0, <1>2, <2>1 DEF UserStep, ChannelOK, CanClose, FC
    <2>3. QED
      BY <1>1, <2>2
  <1>3. CASE UNCHANGED <<conn, pending>>
    BY <1>0, <1>1, <1>3
  <1>4. QED
    BY <1>2, <1>3 DEF delayExpires

-----------------------------------------------------------------------------
(* Each step of a program that does none of the Uses.                      *)

LEMMA FirstQueues ==
  ASSUME NEW p, NEW b, NEW t, NEW op, op # "connectEstablished",
         \/ t = <<"establish">> /\ p = <<>> /\ b = <<>>
         \/ t = <<>> /\ p = <<Functor("connectEstablished")>> /\ b = <<>>
         \/ t = <<>> /\ p = <<>> /\ b = <<Functor("connectEstablished")>>
         \/ t = <<>> /\ p = <<>> /\ b = <<>>
  PROVE  ~HasIn(p, b, op) /\ Range(t) \cap Closers = {}
  <1>1. Range(<<Functor("connectEstablished")>>) = {Functor("connectEstablished")}
        /\ Range(<<"establish">>) = {"establish"}
    BY SMT DEF Range
  <1>2. Functor("connectEstablished").op = "connectEstablished"
    BY FunctorFacts
  <1>3. QED
    BY <1>1, <1>2, EmptyRange DEF HasIn, Closers

LEMMA ConnectingLife ==
  ASSUME Before, [Next]_vars, conn.state = "kConnecting"
  PROVE  LifeInv'
  <1>0. /\ TypeOK /\ LoopInv /\ ConnectingInv /\ failed = {} /\ conn \in Connections
        /\ call = NoCall /\ ~forced /\ ~delayed /\ conn.reading
        /\ inMap /\ removing = 0 /\ cb = "none" /\ downs = 0 /\ destroys = 0
    BY DEF Before, TypeOK, ConnectingInv, LifeInv, UpInv, ChannelInv
  <1>1. CASE /\ connectEstablished /\ UNCHANGED <<serverVars, call, delayed, forced>>
             /\ todo' = <<>> /\ batch' = <<>> /\ pending = <<>>
    <2>1. pending' = <<>> /\ failed' = {} /\ UNCHANGED <<cb, downs, destroys>>
      BY <1>0, <1>1 DEF connectEstablished, Asserted
    <2>2. \A op \in {CD, FC, "send"} : ~Queued(op)'
      BY <1>1, <2>1, FirstQueues, QueuedIn DEF CD, FC
    <2>3. Range(todo') \cap Closers = {}
      BY <1>1, EmptyRange
    <2>4. /\ conn' \in Connections /\ conn'.state = "kConnected" /\ isReading(conn'.events)
          /\ conn'.index = "kAdded" /\ conn'.reading /\ conn'.events # {}
      BY <1>0, <1>1, EstablishedFacts DEF connectEstablished
    <2>5. conn'.reading = isReading(conn'.events)
      <3>1. conn'.reading \in BOOLEAN /\ isReading(conn'.events) \in BOOLEAN
        BY <2>4 DEF Connections, isReading
      <3>2. QED
        BY <2>4, <3>1
    <2>6. UpInv' /\ DownInv'
      BY <1>0, <1>1, <2>1, <2>2, <2>4 DEF UpInv, DownInv, CD, serverVars
    <2>7. ChannelInv'
      BY <1>0, <1>1, <2>2, <2>3, <2>4, <2>5 DEF ChannelInv, FC
    <2>8. RawInv'
      BY <1>0, <1>1, <2>2 DEF RawInv
    <2>9. QED
      BY <2>1, <2>6, <2>7, <2>8 DEF LifeInv
  <1>2. CASE /\ UNCHANGED <<conn, outVars, cbVars, failed, serverVars, userRef, call, forced>>
             /\ delayed' => delayed
    <2>1. conn'.state = "kConnecting" /\ ConnectingInv'
      BY <1>0, <1>2, ConnectingStep
    <2>2. \/ todo' = <<"establish">> /\ pending' = <<>> /\ batch' = <<>>
          \/ todo' = <<>> /\ pending' = <<Functor("connectEstablished")>> /\ batch' = <<>>
          \/ todo' = <<>> /\ pending' = <<>> /\ batch' = <<Functor("connectEstablished")>>
      BY <2>1 DEF ConnectingInv
    <2>3. (\A op \in {CD, FC, "send"} : ~Queued(op)') /\ Range(todo') \cap Closers = {}
      BY <2>2, FirstQueues, QueuedIn DEF CD, FC
    <2>4. UpInv' /\ DownInv'
      BY <1>0, <1>2, <2>1, <2>3 DEF UpInv, DownInv, CD, serverVars, cbVars
    <2>5. ChannelInv' /\ RawInv'
      BY <1>0, <1>2, <2>1, <2>3 DEF ChannelInv, RawInv, CanClose, FC
    <2>6. QED
      BY <1>0, <1>2, <2>4, <2>5 DEF LifeInv
  <1>3. QED
    BY <1>0, <1>1, <1>2, ConnectingActs

LEMMA WayStep ==
  ASSUME Uses = {}, Before, [Next]_vars, conn.state # "kConnecting"
  PROVE  UpInv' /\ DownInv' /\ failed' = {}
  <1> USE DEF loopVars, serverVars, userVars, outVars, cbVars
  <1>0. TypeOK /\ LoopInv /\ UpInv /\ DownInv /\ failed = {}
    BY DEF Before, LifeInv
  <1>1. CASE handleEvent
    <2>1. UNCHANGED <<batch, serverVars>> /\ (Closing \/ Quiet)
      BY <1>1, EventActs
    <2>2. CASE Closing
      BY <1>0, <2>1, <2>2, WayClosed DEF Closing
    <2>3. CASE Quiet
      <3>1. Moved(CD) /\ SameWay
        BY <2>1, <2>3 DEF Moved, Quiet, SameWay
      <3>2. QED
        BY <1>0, <2>3, <3>1, WayKept DEF Quiet
    <2>4. QED
      BY <2>1, <2>2, <2>3
  <1>2. CASE runFunctor
    <2>1. /\ batch # <<>> /\ batch' = Tail(batch) /\ UNCHANGED serverVars
          /\ \/ Head(batch).op = FC /\ Closing
             \/ Head(batch).op = CD /\ connectDestroyed
             \/ Head(batch).op # CD /\ Quiet
      BY <1>2, RunActs
    <2>2. CASE Head(batch).op = FC /\ Closing
      <3>1. Head(batch).op # CD
        BY <2>2 DEF CD, FC
      <3>2. QED
        BY <1>0, <2>1, <2>2, <3>1, WayClosed DEF Closing
    <2>3. CASE Head(batch).op = CD /\ connectDestroyed
      BY <2>1, <2>3, WayDestroyed
    <2>4. CASE Head(batch).op # CD /\ Quiet
      <3>1. Moved(CD) /\ SameWay
        BY <2>1, <2>4 DEF Moved, Quiet, SameWay
      <3>2. QED
        BY <1>0, <2>4, <3>1, WayKept DEF Quiet
    <2>5. QED
      BY <2>1, <2>2, <2>3, <2>4
  <1>3. CASE closeReturns
    BY <1>3, WayCloseReturns
  <1>4. CASE destroyReturns
    BY <1>4, WayDestroyReturns
  <1>5. CASE removeConnectionInLoop
    BY <1>5, WayRemoved
  <1>6. CASE serverDestructs
    BY <1>6, WayDestructs
  <1>7. CASE doPendingFunctors
    <2>1. Moved(CD) /\ SameWay /\ conn' = conn /\ failed' = failed
      BY <1>0, <1>7 DEF doPendingFunctors, Moved, SameWay, LoopInv
    <2>2. QED
      BY <1>0, <2>1, WayKept
  <1>8. CASE poll \/ batchEnds \/ UNCHANGED vars
    <2>1. UNCHANGED <<pending, batch>> /\ SameWay /\ conn' = conn /\ failed' = failed
      BY <1>8 DEF poll, batchEnds, vars, SameWay
    <2>2. Moved(CD)
      BY <2>1 DEF Moved, ToldIn
    <2>3. QED
      BY <1>0, <2>1, <2>2, WayKept
  <1>9. CASE (\E m \in Messages : foreignSend(m)) \/ dropRef
    <2>1. UNCHANGED <<pending, batch>> /\ SameWay /\ conn' = conn /\ failed' = failed
      BY <1>9 DEF foreignSend, dropRef, SameWay
    <2>2. Moved(CD)
      BY <2>1 DEF Moved, ToldIn
    <2>3. QED
      BY <1>0, <2>1, <2>2, WayKept
  <1>10. CASE foreignQueues
    <2> DEFINE f == [op |-> call.op, msg |-> call.msg]
    <2>1. f \in Functors /\ f.op # CD
      BY SMTT(60), <1>0, <1>10 DEF foreignQueues, TypeOK, NoCall, Functors, CD
    <2> HIDE DEF f
    <2>2. /\ pending' = pending \o <<f>> /\ batch' = batch /\ SameWay /\ conn' = conn
          /\ failed' = failed
      BY <1>10 DEF foreignQueues, Queue, SameWay, f
    <2>3. Moved(CD)
      BY <2>1, <2>2 DEF Moved
    <2>4. QED
      BY <1>0, <2>2, <2>3, WayKept
  <1>11. ASSUME UserStep, UNCHANGED <<batch, phase, todo, serverVars, call, userRef, cbVars, failed>>
         PROVE  UpInv' /\ DownInv' /\ failed' = {}
    <2>1. Moved(CD)
      <3>1. CASE ToldIn(pending, pending')
        BY <1>11, <3>1 DEF Moved
      <3>2. CASE Queue(<<Functor(FC)>>)
        BY <1>0, <1>11, <3>2, MovesPush, FunctorFacts DEF FC, CD
      <3>3. QED
        BY <1>11, <3>1, <3>2 DEF UserStep
    <2>2. SameWay
      BY <1>11 DEF SameWay
    <2>3. QED
      BY <1>0, <1>11, <2>1, <2>2, WayKept DEF UserStep, CanClose
  <1>12. CASE UserOnLoop
    BY <1>11, <1>12, UserActs, UserFrame
  <1>13. CASE delayExpires
    <2>1. CASE UserStep
      BY <1>11, <1>13, <2>1, DelayActs
    <2>2. CASE UNCHANGED <<conn, pending>>
      <3>1. Moved(CD) /\ SameWay /\ failed' = failed
        BY <1>13, <2>2, DelayActs DEF Moved, ToldIn, SameWay
      <3>2. QED
        BY <1>0, <2>2, <3>1, WayKept
    <2>3. QED
      BY <1>13, <2>1, <2>2, DelayActs
  <1>14. QED
    BY <1>1, <1>2, <1>3, <1>4, <1>5, <1>6, <1>7, <1>8, <1>9, <1>10, <1>12, <1>13
       DEF Next, LoopThread, Foreign, Server

LEMMA ChannelDown ==
  ASSUME ChannelInv, conn'.state = "kDisconnected", Range(todo') \cap Closers = {},
         forced' = forced, delayed' => delayed, Queued(FC)' => Queued(FC)
  PROVE  ChannelInv'
  BY DEF ChannelInv, CanClose, FC

LEMMA ChannelKept ==
  ASSUME ChannelInv, conn' = conn, Range(todo') \subseteq Range(todo),
         forced' = forced, delayed' => delayed, Queued(FC)' => Queued(FC)
  PROVE  ChannelInv'
  BY DEF ChannelInv, CanClose, FC

LEMMA ChannelStep ==
  ASSUME Uses = {}, Before, [Next]_vars, conn.state # "kConnecting"
  PROVE  ChannelInv'
  <1> USE DEF loopVars, serverVars, userVars, outVars, cbVars
  <1>0. TypeOK /\ LoopInv /\ UpInv /\ DownInv /\ ChannelInv /\ conn \in Connections
    BY DEF Before, LifeInv, TypeOK
  <1>a. FC \notin {"writeComplete", "highWater"} /\ FC # CD
    BY DEF FC, CD
  <1>b. conn.state = "kDisconnected" => Range(todo) \cap Closers = {}
    BY <1>0 DEF ChannelInv, CanClose
  <1>c. ASSUME UNCHANGED <<pending, batch>>
        PROVE  Queued(FC)' => Queued(FC)
    BY <1>c DEF Queued
  <1>1. CASE handleEvent
    <2>1. /\ todo \in Seq(Handlers) /\ todo # <<>> /\ todo' = Tail(todo)
          /\ UNCHANGED <<batch, delayed, forced>>
          /\ \/ Head(todo) \in Closers /\ Closing
             \/ Quiet /\ (KeepsIndex \/ Head(todo) = "write")
      BY <1>1, EventActs
    <2>2. Range(todo') \subseteq Range(todo)
      BY <2>1, Popped
    <2>3. CASE Head(todo) \in Closers /\ Closing
      <3>1. Range(Tail(todo)) \cap Closers = {}
        <4>1. \A i \in DOMAIN Tail(todo) : Tail(todo)[i] \notin Closers
          BY SMTT(60), <1>0, <2>1, <2>3, Popped DEF LoopInv, OneCloser
        <4>2. QED
          BY <4>1 DEF Range
      <3>2. conn'.state = "kDisconnected" /\ pending' = pending
        BY <1>0, <2>3, ClosedFacts DEF Closing, handleClose
      <3>3. QED
        BY <1>0, <1>c, <2>1, <3>1, <3>2, ChannelDown
    <2>4. CASE Quiet /\ (KeepsIndex \/ Head(todo) = "write")
      <3>1. Queued(FC)' => Queued(FC)
        <4>1. Moved(FC)
          BY <2>1, <2>4 DEF Moved, Quiet
        <4>2. QED
          BY <1>0, <1>a, <4>1, Moves
      <3>2. CASE Range(todo') \cap Closers = {}
        BY <1>0, <2>1, <2>4, <3>1, <3>2 DEF Quiet, ChannelInv, ChannelOK, CanClose, FC
      <3>3. CASE Range(todo') \cap Closers # {}
        <4>1. CanClose /\ conn.index = "kAdded"
          BY <1>0, <2>2, <3>3 DEF ChannelInv
        <4>2. Head(todo) # "write"
          <5>1. PICK i \in DOMAIN Tail(todo) : Tail(todo)[i] \in Closers
            BY <2>1, <3>3 DEF Range
          <5>2. /\ i + 1 \in DOMAIN todo /\ todo[i + 1] \in Closers /\ 1 \in DOMAIN todo
                /\ todo[1] = Head(todo)
            BY <2>1, <5>1, Popped
          <5>3. todo[1] = "write" => i + 1 < 1
            BY <1>0, <5>2 DEF LoopInv, ClosesFirst
          <5>4. i \in Nat
            <6>1. Tail(todo) \in Seq(Handlers)
              BY <2>1, Popped
            <6>2. QED
              BY SMTT(60), <5>1, <6>1
          <5>5. QED
            BY SMTT(60), <5>2, <5>3, <5>4
        <4>3. conn'.index = "kAdded"
          BY <2>4, <4>1, <4>2 DEF KeepsIndex
        <4>4. QED
          BY <1>0, <2>1, <2>4, <3>1, <4>1, <4>3 DEF Quiet, ChannelInv, ChannelOK, CanClose, FC
      <3>4. QED
        BY <3>2, <3>3
    <2>5. QED
      BY <2>1, <2>3, <2>4
  <1>2. CASE runFunctor
    <2>1. /\ batch # <<>> /\ batch' = Tail(batch) /\ todo = <<>> /\ todo' = todo
          /\ UNCHANGED <<inMap, removing, threaded, delayed, forced>>
          /\ \/ Head(batch).op = FC /\ Closing
             \/ Head(batch).op = CD /\ connectDestroyed
             \/ Head(batch).op # CD /\ Quiet
      BY <1>2, RunActs
    <2>2. Range(todo') \cap Closers = {}
      BY <2>1, EmptyRange
    <2>3. CASE Closing
      <3>1. conn'.state = "kDisconnected" /\ pending' = pending
        BY <1>0, <2>3, ClosedFacts DEF Closing, handleClose
      <3>2. Queued(FC)' => Queued(FC)
        BY <1>0, <2>1, <3>1, Pops
      <3>3. QED
        BY <1>0, <2>1, <2>2, <3>1, <3>2, ChannelDown
    <2>4. CASE Head(batch).op = CD /\ connectDestroyed
      <3>1. conn'.state = "kDisconnected" /\ pending' = pending
        BY <2>1, <2>4, WayDestroyed DEF connectDestroyed
      <3>2. Queued(FC)' => Queued(FC)
        BY <1>0, <2>1, <3>1, Pops
      <3>3. QED
        BY <1>0, <2>1, <2>2, <3>1, <3>2, ChannelDown
    <2>5. CASE Quiet
      <3>1. Queued(FC)' => Queued(FC)
        <4>1. CASE Head(batch).op = FC
          <5>1. Queued(FC)
            <6>1. batch \in Seq(Functors)
              BY <1>0 DEF TypeOK
            <6>2. Head(batch) \in Range(batch)
              BY SMTT(60), <2>1, <6>1, Popped
            <6>3. QED
              BY <4>1, <6>2 DEF Queued
          <5>2. QED
            BY <5>1
        <4>2. CASE Head(batch).op # FC
          <5>1. Moved(FC)
            BY <2>1, <2>5, <4>2 DEF Moved, Quiet
          <5>2. QED
            BY <1>0, <1>a, <5>1, Moves
        <4>3. QED
          BY <4>1, <4>2
      <3>2. QED
        BY <1>0, <2>1, <2>2, <2>5, <3>1 DEF Quiet, ChannelInv, ChannelOK, CanClose, FC
    <2>6. QED
      BY <2>1, <2>3, <2>4, <2>5
  <1>3. CASE poll
    <2>1. phase = "poll" /\ UNCHANGED <<conn, pending, batch, delayed, forced>>
      BY <1>3 DEF poll
    <2>2. cb = "none"
      BY <1>0, <2>1 DEF LoopInv
    <2>3. conn.index = "kAdded" => CanClose
      BY <1>0, <2>2 DEF DownInv, CanClose, Connections, States
    <2>4. conn.index # "kAdded" => Range(todo') = {}
      BY <1>3, EmptyRange DEF poll
    <2>5. QED
      BY <1>0, <1>c, <2>1, <2>3, <2>4 DEF ChannelInv, CanClose, FC
  <1>4. CASE doPendingFunctors
    <2>1. Moved(FC) /\ UNCHANGED <<conn, todo, forced, delayed>>
      BY <1>0, <1>4 DEF doPendingFunctors, Moved, LoopInv
    <2>2. Queued(FC)' => Queued(FC)
      BY <1>0, <1>a, <2>1, Moves
    <2>3. QED
      BY <1>0, <2>1, <2>2, ChannelKept
  <1>5. CASE batchEnds \/ UNCHANGED vars
    <2>1. UNCHANGED <<conn, todo, pending, batch, forced, delayed>>
      BY <1>5 DEF batchEnds, vars
    <2>2. QED
      BY <1>0, <1>c, <2>1, ChannelKept
  <1>6. CASE (\E m \in Messages : foreignSend(m)) \/ dropRef
    <2>1. UNCHANGED <<conn, todo, pending, batch, forced, delayed>>
      BY <1>6 DEF foreignSend, dropRef
    <2>2. QED
      BY <1>0, <1>c, <2>1, ChannelKept
  <1>7. CASE foreignQueues
    <2> DEFINE f == [op |-> call.op, msg |-> call.msg]
    <2>1. f \in Functors /\ f.op # FC
      BY SMTT(60), <1>0, <1>7 DEF foreignQueues, TypeOK, NoCall, Functors, FC
    <2> HIDE DEF f
    <2>2. /\ pending' = pending \o <<f>> /\ batch' = batch
          /\ UNCHANGED <<conn, todo, forced, delayed>>
      BY <1>7 DEF foreignQueues, Queue, f
    <2>3. Moved(FC)
      BY <2>1, <2>2 DEF Moved
    <2>4. Queued(FC)' => Queued(FC)
      BY <1>0, <1>a, <2>3, Moves
    <2>5. QED
      BY <1>0, <2>2, <2>4, ChannelKept
  <1>8. CASE closeReturns \/ removeConnectionInLoop
    <2>1. /\ UNCHANGED <<conn, todo, batch, forced, delayed>>
          /\ pending' = pending \/ Queue(<<Functor(CD)>>)
      BY <1>8 DEF closeReturns, removeConnectionInLoop, removeFromMap, CD
    <2>2. Queued(FC)' => Queued(FC)
      <3>1. CASE pending' = pending
        BY <1>c, <2>1, <3>1
      <3>2. CASE Queue(<<Functor(CD)>>)
        <4>1. Moved(FC)
          BY <1>0, <2>1, <3>2, MovesPush, FunctorFacts DEF CD, FC
        <4>2. QED
          BY <1>0, <1>a, <4>1, Moves
      <3>3. QED
        BY <2>1, <3>1, <3>2
    <2>3. QED
      BY <1>0, <2>1, <2>2, ChannelKept
  <1>9. CASE destroyReturns
    <2>1. UNCHANGED <<todo, pending, batch, forced, delayed>>
      BY <1>9 DEF destroyReturns
    <2>2. conn.state = "kDisconnected" /\ conn'.state = "kDisconnected"
      BY <1>9, WayDestroyReturns
    <2>3. QED
      BY <1>0, <1>b, <1>c, <2>1, <2>2, ChannelDown
  <1>10. CASE serverDestructs
    <2>1. UNCHANGED <<todo, pending, batch, forced, delayed>> /\ todo = <<>>
      BY <1>10, WayDestructs DEF serverDestructs
    <2>2. conn' = conn \/ conn'.state = "kDisconnected"
      BY <1>10, WayDestructs
    <2>3. Range(todo') \cap Closers = {}
      BY <2>1, EmptyRange
    <2>4. QED
      BY <1>0, <1>c, <2>1, <2>2, <2>3, ChannelDown, ChannelKept
  <1>11. ASSUME UserStep, UNCHANGED <<batch, phase, todo, serverVars, call, userRef, cbVars, failed>>
         PROVE  ChannelInv'
    <2>1. Queued(FC)' => forced'
      <3>1. CASE ToldIn(pending, pending')
        <4>1. Moved(FC)
          BY <1>11, <3>1 DEF Moved
        <4>2. Queued(FC)' => Queued(FC)
          BY <1>0, <1>a, <4>1, Moves
        <4>3. QED
          BY <1>0, <1>11, <4>2 DEF ChannelInv, UserStep, FC
      <3>2. CASE forced'
        BY <3>2
      <3>3. QED
        BY <1>11, <3>1, <3>2 DEF UserStep
    <2>2. QED
      BY <1>11, <2>1 DEF UserStep, ChannelInv, ChannelOK, CanClose, FC
  <1>12. CASE UserOnLoop
    BY <1>11, <1>12, UserActs, UserFrame
  <1>13. CASE delayExpires
    <2>1. CASE UserStep
      BY <1>11, <1>13, <2>1, DelayActs
    <2>2. CASE UNCHANGED <<conn, pending, forced>> /\ ~delayed'
      <3>1. UNCHANGED <<batch, todo>>
        BY <1>13, DelayActs
      <3>2. QED
        BY <1>0, <1>c, <2>2, <3>1, ChannelKept
    <2>3. QED
      BY <1>13, <2>1, <2>2, DelayActs
  <1>14. QED
    BY <1>1, <1>2, <1>3, <1>4, <1>5, <1>6, <1>7, <1>8, <1>9, <1>10, <1>12, <1>13
       DEF Next, LoopThread, Foreign, Server

LEMMA RawKept ==
  ASSUME RawInv, userRef => userRef', call' = call, Queued("send")' => Queued("send")
  PROVE  RawInv'
  BY DEF RawInv

LEMMA RawStep ==
  ASSUME Uses = {}, Before, [Next]_vars, conn.state # "kConnecting"
  PROVE  RawInv'
  <1> USE DEF loopVars, serverVars, userVars, outVars, cbVars
  <1>0. /\ TypeOK /\ LoopInv /\ RawInv /\ pending \in Seq(Functors) /\ batch \in Seq(Functors)
    BY DEF Before, LifeInv, TypeOK
  <1>a. "send" \notin {"writeComplete", "highWater"} /\ "send" # CD /\ "send" # FC
        /\ CD \in SharedFunctors /\ FC \in SharedFunctors
    BY FunctorFacts DEF FC, CD
  <1>b. ASSUME userRef => userRef', call' = call, Moved("send")
        PROVE  RawInv'
    BY <1>0, <1>a, <1>b, Moves, RawKept
  <1>c. ASSUME userRef => userRef', call' = call, UNCHANGED <<pending, batch>>
        PROVE  RawInv'
    BY <1>0, <1>c, RawKept DEF Queued
  <1>1. CASE handleEvent
    <2>1. batch' = batch /\ call' = call /\ (userRef => userRef') /\ (Closing \/ Quiet)
      BY <1>1, EventActs
    <2>2. ToldIn(pending, pending')
      BY <2>1 DEF Closing, handleClose, Quiet, ToldIn
    <2>3. QED
      BY <1>b, <2>1, <2>2 DEF Moved
  <1>2. CASE runFunctor
    <2>1. /\ batch # <<>> /\ batch' = Tail(batch) /\ call' = call /\ (userRef => userRef')
          /\ Closing \/ connectDestroyed \/ Quiet
      BY <1>2, RunActs
    <2>2. ToldIn(pending, pending')
      BY <2>1 DEF Closing, handleClose, connectDestroyed, Quiet, ToldIn
    <2>3. CASE Head(batch).op = "send"
      <3>1. Head(batch) \in Range(batch)
        BY SMTT(60), <1>0, <2>1, Popped
      <3>2. userRef
        BY <1>0, <2>3, <3>1 DEF RawInv, Queued
      <3>3. QED
        BY <2>1, <3>2 DEF RawInv
    <2>4. CASE Head(batch).op # "send"
      BY <1>b, <2>1, <2>2, <2>4 DEF Moved
    <2>5. QED
      BY <2>3, <2>4
  <1>3. CASE closeReturns \/ removeConnectionInLoop
    <2>1. /\ batch' = batch /\ call' = call /\ userRef' = userRef
          /\ pending' = pending \/ Queue(<<Functor(CD)>>)
      BY <1>3 DEF closeReturns, removeConnectionInLoop, removeFromMap, CD
    <2>2. CASE pending' = pending
      BY <1>c, <2>1, <2>2
    <2>3. CASE Queue(<<Functor(CD)>>)
      BY <1>0, <1>a, <1>b, <2>1, <2>3, MovesPush
    <2>4. QED
      BY <2>1, <2>2, <2>3
  <1>4. CASE destroyReturns \/ poll \/ batchEnds \/ UNCHANGED vars
    <2>1. UNCHANGED <<pending, batch, call, userRef>>
      BY <1>4 DEF destroyReturns, poll, batchEnds, vars
    <2>2. QED
      BY <1>c, <2>1
  <1>5. CASE doPendingFunctors
    <2>1. Moved("send") /\ UNCHANGED <<call, userRef>>
      BY <1>0, <1>5 DEF doPendingFunctors, Moved, LoopInv
    <2>2. QED
      BY <1>b, <2>1
  <1>6. CASE serverDestructs
    <2>1. UNCHANGED <<batch, call, userRef>>
      BY <1>6 DEF serverDestructs
    <2>2. pending' = pending
      BY <1>6, WayDestructs
    <2>3. QED
      BY <1>c, <2>1, <2>2
  <1>7. CASE \E m \in Messages : foreignSend(m)
    <2>1. userRef'
      BY SMT, <1>7 DEF foreignSend
    <2>2. QED
      BY <2>1 DEF RawInv
  <1>8. CASE foreignQueues
    <2>1. call # NoCall /\ userRef' = userRef
      BY SMTT(60), <1>8 DEF foreignQueues, NoCall
    <2>2. QED
      BY <1>0, <2>1 DEF RawInv
  <1>9. CASE dropRef
    <2>1. /\ call = NoCall /\ UNCHANGED <<pending, batch, call>>
          /\ \A f \in Range(pending \o batch) : f.op \in SharedFunctors
      BY <1>9 DEF dropRef
    <2>2. Range(pending \o batch) = Range(pending) \cup Range(batch)
      BY <1>0, RangeConcatenation
    <2>3. ~Queued("send")'
      BY <2>1, <2>2, FunctorFacts DEF Queued
    <2>4. QED
      BY <2>1, <2>3 DEF RawInv
  <1>10. ASSUME UserStep, UNCHANGED <<batch, phase, todo, serverVars, call, userRef, cbVars, failed>>
         PROVE  RawInv'
    <2>1. CASE ToldIn(pending, pending')
      BY <1>10, <1>b, <2>1 DEF Moved
    <2>2. CASE Queue(<<Functor(FC)>>)
      BY <1>0, <1>10, <1>a, <1>b, <2>2, MovesPush
    <2>3. QED
      BY <1>10, <2>1, <2>2 DEF UserStep
  <1>11. CASE UserOnLoop
    BY <1>10, <1>11, UserActs, UserFrame
  <1>12. CASE delayExpires
    <2>1. CASE UserStep
      BY <1>10, <1>12, <2>1, DelayActs
    <2>2. CASE UNCHANGED <<conn, pending>>
      BY <1>12, <1>c, <2>2, DelayActs
    <2>3. QED
      BY <1>12, <2>1, <2>2, DelayActs
  <1>13. QED
    BY <1>1, <1>2, <1>3, <1>4, <1>5, <1>6, <1>7, <1>8, <1>9, <1>11, <1>12
       DEF Next, LoopThread, Foreign, Server

LEMMA LifeStep ==
  ASSUME Uses = {}, Before, [Next]_vars
  PROVE  LifeInv'
  <1>1. CASE conn.state = "kConnecting"
    BY <1>1, ConnectingLife
  <1>2. CASE conn.state # "kConnecting"
    BY <1>2, WayStep, ChannelStep, RawStep DEF LifeInv
  <1>3. QED
    BY <1>1, <1>2

-----------------------------------------------------------------------------
LEMMA InitialLife == Init => LifeInv
  <1> SUFFICES ASSUME Init PROVE LifeInv
    OBVIOUS
  <1>1. /\ conn.state = "kConnecting" /\ inMap /\ removing = 0 /\ cb = "none" /\ downs = 0
        /\ destroys = 0 /\ ~forced /\ ~delayed /\ call = NoCall /\ failed = {}
    BY DEF Init
  <1>2. \/ todo = <<"establish">> /\ pending = <<>> /\ batch = <<>>
        \/ todo = <<>> /\ pending = <<Functor("connectEstablished")>> /\ batch = <<>>
    BY DEF Init
  <1>3. (\A op \in {CD, FC, "send"} : ~Queued(op)) /\ Range(todo) \cap Closers = {}
    BY SMTT(60), <1>2, FirstQueues, QueuedIn DEF CD, FC
  <1>4. UpInv /\ DownInv
    BY <1>1, <1>3 DEF UpInv, DownInv, CD
  <1>5. ChannelInv /\ RawInv
    BY <1>1, <1>3 DEF ChannelInv, RawInv, CanClose, FC
  <1>6. QED
    BY <1>1, <1>4, <1>5 DEF LifeInv

LEMMA AlwaysAlive ==
  ASSUME Uses = {}
  PROVE  Spec => []Before
  <1>1. Init => Before
    BY Initially, InitialLife DEF Before
  <1>2. Before /\ [Next]_vars => Before'
    <2> SUFFICES ASSUME Before, [Next]_vars PROVE Before'
      OBVIOUS
    <2>1. TypeOK /\ LoopInv /\ ConnectingInv
      BY DEF Before
    <2>2. TypeOK' /\ LoopInv' /\ ConnectingInv'
      BY <2>1, TypeStep, LoopStep, ConnectingStep
    <2>3. LifeInv'
      BY LifeStep
    <2>4. QED
      BY <2>2, <2>3 DEF Before
  <1>3. QED
    BY <1>1, <1>2, PTL DEF Spec

(* A connection nobody refers to has been all the way. *)
LEMMA Gone ==
  ASSUME Before, ~Referenced
  PROVE  conn.state = "kDisconnected" /\ conn.index = "kNew" /\ downs = 1
  <1>1. ~inMap /\ removing = 0 /\ cb = "none"
    <2>1. ~(removing > 0) /\ ~inMap /\ cb = "none"
      BY DEF Referenced
    <2>2. QED
      BY SMTT(60), <2>1 DEF Before, TypeOK
  <1>2. ~Queued(CD)
    BY FunctorFacts DEF Referenced, Queued, CD
  <1>3. QED
    BY <1>1, <1>2 DEF Before, LifeInv, UpInv, DownInv, CD

(* In a program that stops reading only while no close is under way, lets  *)
(* go of the connection only once its sends have run, does not destroy the *)
(* server during a close and calls forceClose() on the thread of the loop  *)
(* (Spec has no foreignForceClose): whatever closes the connection, the    *)
(* assertions of connectEstablished(), handleClose(), connectDestroyed()   *)
(* and removeConnectionInLoop() hold, no functor runs on a freed           *)
(* connection, and the last reference goes when the connection is down and *)
(* its channel is off the poller.                                          *)
THEOREM ConnectionCloses ==
  ASSUME Uses = {}
  PROVE  Spec => []ClosesCleanly
  <1>1. Before => ClosesCleanly
    BY Gone DEF Before, LifeInv, ClosesCleanly, ConnInv, AssertionsHold, DestroyedCleanly
  <1>2. QED
    BY <1>1, AlwaysAlive, PTL

(* In such a program the connection callback is made once with the         *)
(* connection up and once with it down, by handleClose() or by             *)
(* connectDestroyed() but never by both, and connectDestroyed() runs at    *)
(* most once, as its declaration in TcpConnection.h demands.  A program    *)
(* that calls forceClose() on another thread is not such a program: there  *)
(* the loop may close the connection between the test and the set of       *)
(* state_, and ForeignCloseSpec has behaviours that destroy it twice.      *)
THEOREM CallbacksPaired ==
  ASSUME Uses = {}
  PROVE  Spec => []UpThenDownOnce
  <1>1. Before => UpThenDownOnce
    <2> SUFFICES ASSUME Before PROVE UpThenDownOnce
      OBVIOUS
    <2>1. downs <= ups
      <3>1. (ups = 0 \/ ups = 1) /\ (conn.state = "kConnecting" <=> ups = 0)
        BY SMT DEF Before, ConnectingInv
      <3>2. downs = 0 \/ (downs = 1 /\ conn.state = "kDisconnected")
        BY DEF Before, LifeInv, UpInv, DownInv
      <3>3. QED
        BY SMTT(60), <3>1, <3>2
    <2>2. destroys = 0 \/ destroys = 1
      BY DEF Before, LifeInv, UpInv, DownInv
    <2>3. ConnectDestroyedOnce
      BY SMT, <2>2 DEF ConnectDestroyedOnce
    <2>4. QED
      BY <2>1, <2>3, Gone DEF UpThenDownOnce
  <1>2. QED
    BY <1>1, AlwaysAlive, PTL
=============================================================================
