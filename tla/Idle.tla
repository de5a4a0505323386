-------------------------------- MODULE Idle --------------------------------
(***************************************************************************)
(* The echo servers that limit their connections: idleconnection/echo (a   *)
(* timing wheel of reference-counted entries), idleconnection/sortedlist   *)
(* (a list kept in the order of the last message) and maxconnection/echo.  *)
(* Time is counted in half seconds.  The timer of runEvery(1.0) is due by  *)
(* the clock, which may be set; the timerfd that wakes it is not affected. *)
(***************************************************************************)
EXTENDS Integers, Sequences, FiniteSets, Functions

CONSTANTS
  EchoKinds,        \* wheel, list, max
  Conns,            \* bound: connections, each made once
  idleSeconds,
  kMaxConnections,
  MaxTime,          \* bound: half seconds
  Jumps,            \* the half seconds by which the clock may be set forward, or back
  MaxJumps          \* bound: times the clock is set

\* The wheel has a bucket; the bounds are numbers.
ASSUME IdleAssumption ==
  /\ IsFiniteSet(Conns) /\ EchoKinds \subseteq {"wheel", "list", "max"}
  /\ idleSeconds \in Nat \ {0} /\ kMaxConnections \in Nat /\ MaxTime \in Nat /\ MaxJumps \in Nat
  /\ Jumps \subseteq Int

VARIABLES
  echo,             \* which of the servers it is
  state,            \* connection -> new, up, shut (shutdown() called), down
  buckets,          \* wheel: connectionBuckets_, sets of the entries' connections
  list,             \* list: connectionList_
  lastReceiveTime,  \* list: of each connection
  numConnected,     \* max
  clock,            \* Timestamp::now()
  expires,          \* the timer's expiration_
  armed,            \* half seconds until the timerfd is readable
  silent,           \* connection -> half seconds since it was last heard from
  time, jumps,
  ahead             \* by how much the clock has been set forward in all

echoVars == <<echo, state, buckets, list, lastReceiveTime, numConnected, clock, expires, armed, silent,
              time, jumps, ahead>>

EchoInit ==
  /\ echo \in EchoKinds
  /\ state = [c \in Conns |-> "new"]
  /\ buckets = [i \in 1 .. idleSeconds |-> {}]
  /\ list = <<>> /\ lastReceiveTime = [c \in Conns |-> 0]
  /\ numConnected = 0
  /\ clock = 0 /\ expires = 2 /\ armed = 2
  /\ silent = [c \in Conns |-> 0] /\ time = 0 /\ jumps = 0 /\ ahead = 0

-----------------------------------------------------------------------------
\* An entry is destroyed when the last bucket that holds it goes.
Held(bs) == UNION {bs[i] : i \in DOMAIN bs}

InsertBack_Front(bs, c) == [bs EXCEPT ![1] = @ \cup {c}]
InsertBack(bs, c) == [bs EXCEPT ![idleSeconds] = @ \cup {c}]

\* onConnection(), connected.
wheel_onConnection(c) == buckets' = InsertBack(buckets, c) /\ UNCHANGED <<list, lastReceiveTime, numConnected>>

list_onConnection(c) ==
  /\ list' = Append(list, c)
  /\ lastReceiveTime' = [lastReceiveTime EXCEPT ![c] = clock]
  /\ UNCHANGED <<buckets, numConnected>>

\* A connection over the limit is shut down at once, and counted until it is gone.
TooMany(n) == n > kMaxConnections

max_onConnection == numConnected' = numConnected + 1 /\ UNCHANGED <<buckets, list, lastReceiveTime>>

Connected(c) ==
  /\ state[c] = "new"
  /\ state' = [state EXCEPT ![c] = IF echo = "max" /\ TooMany(numConnected + 1) THEN "shut" ELSE "up"]
  /\ silent' = [silent EXCEPT ![c] = 0]
  /\ CASE echo = "wheel" -> wheel_onConnection(c)
       [] echo = "list" -> list_onConnection(c)
       [] echo = "max" -> max_onConnection
  /\ UNCHANGED <<echo, clock, expires, armed, time, jumps, ahead>>

\* connectionList_ without the node at c's position.
Position(c) == CHOOSE i \in DOMAIN list : list[i] = c
Erased(c) == [i \in 1 .. Len(list) - 1 |-> IF i < Position(c) THEN list[i] ELSE list[i + 1]]

\* onConnection(), disconnected: the peer closed, or forceCloseWithDelay() did.
Disconnected(c) ==
  /\ state[c] \in {"up", "shut"}
  /\ state' = [state EXCEPT ![c] = "down"]
  /\ list' = IF echo = "list" THEN Erased(c) ELSE list
  /\ numConnected' = IF echo = "max" THEN numConnected - 1 ELSE numConnected
  /\ UNCHANGED <<echo, buckets, lastReceiveTime, clock, expires, armed, silent, time, jumps, ahead>>

\* onMessage(): the connection is heard from.  An entry that is gone is not revived.
wheel_onMessage(c) ==
  /\ buckets' = IF c \in Held(buckets) THEN InsertBack(buckets, c) ELSE buckets
  /\ UNCHANGED <<list, lastReceiveTime>>

MoveToEnd_Not(c) == list
MoveToEnd(c) == Append(Erased(c), c)

list_onMessage(c) ==
  /\ lastReceiveTime' = [lastReceiveTime EXCEPT ![c] = clock]
  /\ list' = MoveToEnd(c)
  /\ UNCHANGED buckets

max_onMessage(c) == UNCHANGED <<buckets, list, lastReceiveTime>>

Heard(c) ==
  /\ state[c] \in {"up", "shut"}
  /\ silent' = [silent EXCEPT ![c] = 0]
  /\ CASE echo = "wheel" -> wheel_onMessage(c)
       [] echo = "list" -> list_onMessage(c)
       [] echo = "max" -> max_onMessage(c)
  /\ UNCHANGED <<echo, state, numConnected, clock, expires, armed, time, jumps, ahead>>

-----------------------------------------------------------------------------
\* onTimer() of the wheel: push_back() on a full ring drops the oldest bucket, and
\* ~Entry() shuts down the connections that no other bucket holds.
wheel_onTimer ==
  LET bs == Append(Tail(buckets), {})
  IN  /\ buckets' = bs
      /\ state' = [c \in Conns |->
           IF state[c] = "up" /\ c \in Held(buckets) \ Held(bs) THEN "shut" ELSE state[c]]
      /\ UNCHANGED <<list, lastReceiveTime>>

\* onTimer() of the list walks it from the oldest on, up to the first that is not
\* idle; one that was heard from in the future has its time put right.
Idle(c, t) == t - lastReceiveTime[c] > 2 * idleSeconds
Future(c, t) == t < lastReceiveTime[c]

list_onTimer(t) ==
  LET Stops(i) == ~Idle(list[i], t) /\ ~Future(list[i], t)
      seen     == {list[i] : i \in {j \in DOMAIN list : \A n \in 1 .. j : ~Stops(n)}}
  IN  /\ state' = [c \in Conns |-> IF c \in seen /\ Idle(c, t) /\ state[c] = "up" THEN "shut" ELSE state[c]]
      /\ lastReceiveTime' = [c \in Conns |-> IF c \in seen /\ Future(c, t) THEN t ELSE lastReceiveTime[c]]
      /\ UNCHANGED <<buckets, list>>

\* Half a second passes: it is not yet time, or the timerfd fires.  By then the timer is
\* due and starts again a second from now; or, as the clock was set back, it is not due,
\* and the timerfd is armed for what is left.
Passes ==
  /\ time < MaxTime
  /\ time' = time + 1 /\ clock' = clock + 1
  /\ silent' = [c \in Conns |-> IF state[c] \in {"up", "shut"} THEN silent[c] + 1 ELSE silent[c]]
  /\ UNCHANGED <<echo, numConnected, jumps, ahead>>

Waits ==
  /\ Passes
  /\ \/ armed > 1 /\ armed' = armed - 1
     \/ armed = 1 /\ clock + 1 < expires /\ armed' = expires - (clock + 1)
  /\ UNCHANGED <<state, buckets, list, lastReceiveTime, expires>>

Timer ==
  /\ Passes
  /\ armed = 1 /\ clock + 1 >= expires
  /\ expires' = clock + 3 /\ armed' = 2
  /\ CASE echo = "wheel" -> wheel_onTimer
       [] echo = "list" -> list_onTimer(clock + 1)
       [] echo = "max" -> UNCHANGED <<state, buckets, list, lastReceiveTime>>

\* The clock is set.
ClockJumps ==
  /\ echo # "max" /\ jumps < MaxJumps
  /\ jumps' = jumps + 1
  /\ \E n \in Jumps : clock' = clock + n /\ ahead' = IF n > 0 THEN ahead + n ELSE ahead
  /\ UNCHANGED <<echo, state, buckets, list, lastReceiveTime, numConnected, expires, armed, silent, time>>

EchoNext == Waits \/ Timer \/ ClockJumps \/ \E c \in Conns : Connected(c) \/ Disconnected(c) \/ Heard(c)
EchoSpec == EchoInit /\ [][EchoNext]_echoVars

-----------------------------------------------------------------------------
Open == {c \in Conns : state[c] \in {"up", "shut"}}
Limit == 2 * (IF echo = "wheel" THEN idleSeconds ELSE idleSeconds + 1)

\* As long as the clock is not set, the wheel keeps no connection that has been silent for
\* idleSeconds, and the list none that has been silent for a second more: each message
\* really moves it (idleconnection/echo.cc:71, sortedlist.cc:98).  The list has the open
\* connections, each once.  A server with a limit counts its connections and serves at
\* most that many (maxconnection/echo.cc:37).
IdleAreShutDown ==
  /\ echo \in {"wheel", "list"} =>
       \A c \in Conns : state[c] = "up" /\ jumps = 0 => silent[c] < Limit
  /\ echo = "list" => Range(list) = Open /\ IsInjective(list)
  /\ echo = "max" => /\ numConnected = Cardinality(Open)
                     /\ Cardinality({c \in Conns : state[c] = "up"}) <= kMaxConnections

\* However the clock is set, the wheel shuts down no connection that was heard from within
\* idleSeconds - 1; within the last second it may, since a bucket goes at a tick and not
\* when its entries were put into it (echo.cc:78).  The list shuts down none that was
\* heard from within idleSeconds, by a clock that is believed when it is set forward: a
\* step forward is taken for silence (sortedlist.cc:116).
ActiveIsKept ==
  \A c \in Conns : state[c] = "up" /\ state'[c] = "shut" =>
    IF echo = "wheel" THEN silent'[c] > 2 * (idleSeconds - 1) ELSE silent'[c] + ahead > 2 * idleSeconds

\* Every step keeps the first and obeys the second.
IdleExactly == [][IdleAreShutDown' /\ ActiveIsKept]_echoVars
=============================================================================
