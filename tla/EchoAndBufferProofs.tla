------------------------ MODULE EchoAndBufferProofs ------------------------
(***************************************************************************)
(* Proofs about module Idle (the echo servers that limit how long a        *)
(* connection may be silent or how many there are) and about modules       *)
(* Buffer and BufferQueue.  The two parts share only the facts on          *)
(* sequences at the top.                                                   *)
(***************************************************************************)
EXTENDS Idle, BufferQueue, TLAPS

(* The provers of each step that names none, in this order. *)
USE SMTT(60), Z3T(60), ZenonT(60)

(***************************************************************************)
(* The elements of a queue.                                                *)
(***************************************************************************)
\* push_back() adds one element.
LEMMA RangeAppend ==
  ASSUME NEW T, NEW q \in Seq(T), NEW e \in T
  PROVE  Range(Append(q, e)) = Range(q) \cup {e}
<1>1. /\ Append(q, e) \in Seq(T) /\ Len(Append(q, e)) = Len(q) + 1 /\ Len(q) \in Nat
      /\ \A i \in 1 .. Len(q) : Append(q, e)[i] = q[i]
      /\ Append(q, e)[Len(q) + 1] = e /\ DOMAIN q = 1 .. Len(q)
      /\ DOMAIN Append(q, e) = 1 .. Len(q) + 1
  OBVIOUS
<1>2. \A x \in Range(Append(q, e)) : x \in Range(q) \cup {e}
  <2>. SUFFICES ASSUME NEW i \in 1 .. Len(q) + 1 PROVE Append(q, e)[i] \in Range(q) \cup {e}
    BY <1>1 DEF Range
  <2>1. CASE i = Len(q) + 1
    BY <2>1, <1>1
  <2>2. CASE i # Len(q) + 1
    <3>1. i \in 1 .. Len(q)
      BY <2>2, <1>1
    <3>. QED
      BY <3>1, <1>1 DEF Range
  <2>. QED
    BY <2>1, <2>2
<1>3. \A x \in Range(q) \cup {e} : x \in Range(Append(q, e))
  <2>1. Len(q) + 1 \in DOMAIN Append(q, e) /\ \A i \in 1 .. Len(q) : i \in DOMAIN Append(q, e)
    BY <1>1
  <2>. QED
    BY <2>1, <1>1 DEF Range
<1>. QED
  BY <1>2, <1>3

\* A sequence is a function on its positions.
LEMMA SeqIsFunction == ASSUME NEW T, NEW q \in Seq(T) PROVE q \in [1 .. Len(q) -> T]
OBVIOUS

\* A queue that is lost holds nothing.
LEMMA RangeEmpty == Range(<<>>) = {}
BY DEF Range

-----------------------------------------------------------------------------
(***************************************************************************)
(* The echo servers with a limit.  Of the wheel the invariant says which   *)
(* bucket is the last that holds a connection; of the list, that it is in  *)
(* the order of the last messages until the clock is set back, and that    *)
(* the age it computes is never more than the silence.                     *)
(***************************************************************************)
EchoTypes ==
  /\ echo \in {"wheel", "list", "max"}
  /\ state \in [Conns -> {"new", "up", "shut", "down"}]
  /\ buckets \in [1 .. idleSeconds -> SUBSET Conns]
  /\ list \in Seq(Conns) /\ lastReceiveTime \in [Conns -> Int]
  /\ numConnected \in Int /\ clock \in Int /\ silent \in [Conns -> Nat] /\ jumps \in Nat
  /\ expires \in Int /\ armed \in Nat /\ armed > 0 /\ ahead \in Nat

\* While the clock is not set, the timerfd fires when the timer is due.
ClockInv == jumps = 0 => ahead = 0 /\ armed <= 2 /\ expires = clock + armed

\* The last bucket that holds c, and the ticks since c was put there.
LastBucket(c, j) == c \in buckets[j] /\ \A i \in 1 .. idleSeconds : c \in buckets[i] => i <= j
InTime(c, j) ==
  /\ silent[c] + armed >= 2 * (idleSeconds - j) + 1
  /\ jumps = 0 => silent[c] + armed <= 2 * (idleSeconds - j) + 2

WheelInv ==
  \A c \in Conns : state[c] = "up" => \E j \in 1 .. idleSeconds : LastBucket(c, j) /\ InTime(c, j)

ListInv ==
  /\ Range(list) = Open /\ IsInjective(list)
  /\ \A c \in Open : clock - lastReceiveTime[c] <= silent[c] + ahead
  /\ jumps = 0 =>
       /\ \A c \in Open : clock - lastReceiveTime[c] = silent[c]
       /\ \A i, j \in DOMAIN list : i < j => lastReceiveTime[list[i]] <= lastReceiveTime[list[j]]
       /\ \A c \in Conns : state[c] = "up" => silent[c] + armed <= 2 * idleSeconds + 2

Up == {c \in Conns : state[c] = "up"}
MaxInv == numConnected = Cardinality(Open) /\ Cardinality(Up) <= kMaxConnections

EchoInv ==
  /\ EchoTypes /\ ClockInv
  /\ echo = "wheel" => WheelInv
  /\ echo = "list" => ListInv
  /\ echo = "max" => MaxInv

\* erase() of a node leaves the others in their order.
LEMMA ErasedList ==
  ASSUME EchoTypes, IsInjective(list), NEW c \in Range(list)
  PROVE  /\ Erased(c) \in Seq(Conns) /\ Range(Erased(c)) = Range(list) \ {c}
         /\ IsInjective(Erased(c))
         /\ \A i \in DOMAIN Erased(c) : Erased(c)[i] # c
         /\ \A i, j \in DOMAIN Erased(c) : i < j =>
              \E m, n \in DOMAIN list : m < n /\ Erased(c)[i] = list[m] /\ Erased(c)[j] = list[n]
<1>. DEFINE p == Position(c)
            e == Erased(c)
            N == Len(list)
            at(i) == IF i < p THEN i ELSE i + 1
<1>1. N \in Nat /\ DOMAIN list = 1 .. N /\ \A i \in 1 .. N : list[i] \in Conns
  BY DEF EchoTypes
<1>2. p \in 1 .. N /\ list[p] = c
  BY <1>1 DEF Range, Position
<1>3. e = [i \in 1 .. N - 1 |-> IF i < p THEN list[i] ELSE list[i + 1]]
  BY DEF Erased
<1>. HIDE DEF p, e, N
<1>4. DOMAIN e = 1 .. N - 1 /\ \A i \in 1 .. N - 1 : at(i) \in 1 .. N /\ at(i) # p /\ e[i] = list[at(i)]
  BY <1>1, <1>2, <1>3
<1>5. \A i, j \in 1 .. N - 1 : i < j => at(i) < at(j)
  BY <1>1, <1>2
<1>6. \A n \in 1 .. N : n # p => \E i \in 1 .. N - 1 : at(i) = n
  <2>. SUFFICES ASSUME NEW n \in 1 .. N, n # p PROVE \E i \in 1 .. N - 1 : at(i) = n
    OBVIOUS
  <2>1. CASE n < p
    <3>1. n \in 1 .. N - 1 /\ at(n) = n
      BY <2>1, <1>1, <1>2
    <3>. QED
      BY <3>1
  <2>2. CASE n > p
    <3>1. n - 1 \in 1 .. N - 1 /\ at(n - 1) = n
      BY <2>2, <1>1, <1>2
    <3>. QED
      BY <3>1
  <2>. QED
    BY <2>1, <2>2, <1>1, <1>2
<1>7. \A i, j \in 1 .. N - 1 : at(i) = at(j) => i = j
  BY <1>1, <1>2
<1>. HIDE DEF at
<1>8. \A i \in 1 .. N - 1 : e[i] # c
  BY <1>1, <1>2, <1>4 DEF IsInjective
<1>9. e \in Seq(Conns)
  <2>1. N - 1 \in Nat
    BY <1>1, <1>2
  <2>2. \A i \in 1 .. N - 1 : e[i] \in Conns
    BY <1>1, <1>4
  <2>3. e \in [1 .. N - 1 -> Conns]
    BY <2>2, <1>3
  <2>. QED
    BY <2>1, <2>3
<1>10. Range(e) = Range(list) \ {c}
  <2>1. \A x \in Range(e) : x \in Range(list) \ {c}
    BY <1>1, <1>4, <1>8 DEF Range
  <2>2. ASSUME NEW n \in 1 .. N, list[n] # c PROVE list[n] \in Range(e)
    <3>1. PICK i \in 1 .. N - 1 : at(i) = n
      BY <2>2, <1>2, <1>6
    <3>. QED
      BY <3>1, <1>4 DEF Range
  <2>3. \A x \in Range(list) \ {c} : x \in Range(e)
    BY <2>2, <1>1 DEF Range
  <2>. QED
    BY <2>1, <2>3
<1>11. IsInjective(e)
  BY <1>1, <1>4, <1>7 DEF IsInjective
<1>12. \A i, j \in 1 .. N - 1 : i < j => \E m, n \in 1 .. N : m < n /\ e[i] = list[m] /\ e[j] = list[n]
  BY <1>4, <1>5
<1>13. /\ \A i \in DOMAIN e : e[i] # c
       /\ \A i, j \in DOMAIN e : i < j => \E m, n \in DOMAIN list : m < n /\ e[i] = list[m] /\ e[j] = list[n]
  <2>1. DOMAIN e = 1 .. N - 1 /\ DOMAIN list = 1 .. N
    BY <1>1, <1>4
  <2>2. \A i \in DOMAIN e : e[i] # c
    BY <2>1, <1>8
  <2>3. ASSUME NEW i \in DOMAIN e, NEW j \in DOMAIN e, i < j
        PROVE  \E m, n \in DOMAIN list : m < n /\ e[i] = list[m] /\ e[j] = list[n]
    <3>1. PICK m \in 1 .. N, n \in 1 .. N : m < n /\ e[i] = list[m] /\ e[j] = list[n]
      BY <2>1, <2>3, <1>12
    <3>. QED
      BY <3>1, <2>1
  <2>. QED
    BY <2>2, <2>3
<1>. QED
  BY Zenon, <1>9, <1>10, <1>11, <1>13 DEF e

\* Every step leaves the variables what they are.
LEMMA EchoTypesStep ==
  ASSUME EchoInv, EchoNext
  PROVE  EchoTypes' /\ echo' = echo
<1>. USE IdleAssumption DEF EchoInv
<1>1. idleSeconds \in 1 .. idleSeconds
  OBVIOUS
<1>2. \A c \in Conns : InsertBack(buckets, c) \in [1 .. idleSeconds -> SUBSET Conns]
  BY <1>1 DEF InsertBack, EchoTypes
<1>0. CASE Waits
  <2>1. /\ silent' \in [Conns -> Nat] /\ clock' \in Int /\ jumps' = jumps /\ ahead' = ahead
        /\ UNCHANGED <<echo, state, buckets, list, lastReceiveTime, numConnected, expires>>
    BY <1>0 DEF Waits, Passes, EchoTypes
  <2>2. armed' \in Nat /\ armed' > 0
    BY <1>0 DEF Waits, EchoTypes
  <2>. QED
    BY <2>1, <2>2 DEF EchoTypes
<1>3. CASE Timer
  <2>1. /\ silent' \in [Conns -> Nat] /\ clock' \in Int /\ echo' = echo /\ numConnected' = numConnected /\ jumps' = jumps
        /\ expires' \in Int /\ armed' \in Nat /\ armed' > 0 /\ ahead' = ahead
    BY <1>3 DEF Timer, Passes, EchoTypes
  <2>2. CASE echo = "wheel"
    <3>1. wheel_onTimer
      BY <1>3, <2>2 DEF Timer
    <3>2. state' \in [Conns -> {"new", "up", "shut", "down"}] /\ list' = list /\ lastReceiveTime' = lastReceiveTime
      BY <3>1 DEF wheel_onTimer, EchoTypes
    <3>3. buckets \in Seq(SUBSET Conns) /\ Len(buckets) = idleSeconds /\ buckets # <<>>
      BY DEF EchoTypes
    <3>4. Append(Tail(buckets), {}) \in Seq(SUBSET Conns) /\ Len(Append(Tail(buckets), {})) = idleSeconds
      <4>1. Tail(buckets) \in Seq(SUBSET Conns) /\ Len(Tail(buckets)) = idleSeconds - 1
        BY <3>3
      <4>. QED
        BY <4>1
    <3>5. buckets' \in [1 .. idleSeconds -> SUBSET Conns]
      <4>1. Append(Tail(buckets), {}) \in [1 .. idleSeconds -> SUBSET Conns]
        BY Zenon, <3>4, SeqIsFunction
      <4>. QED
        BY Zenon, <4>1, <3>1 DEF wheel_onTimer
    <3>. QED
      BY <2>1, <3>2, <3>5 DEF EchoTypes
  <2>3. CASE echo = "list"
    <3>1. list_onTimer(clock + 1)
      BY <1>3, <2>3 DEF Timer
    <3>2. /\ state' \in [Conns -> {"new", "up", "shut", "down"}] /\ list' = list /\ buckets' = buckets
          /\ lastReceiveTime' \in [Conns -> Int]
      BY <3>1 DEF list_onTimer, EchoTypes
    <3>. QED
      BY <2>1, <3>2 DEF EchoTypes
  <2>4. CASE echo = "max"
    <3>1. UNCHANGED <<state, buckets, list, lastReceiveTime>>
      BY <1>3, <2>4 DEF Timer
    <3>. QED
      BY <2>1, <3>1 DEF EchoTypes
  <2>. QED
    BY <2>2, <2>3, <2>4 DEF EchoTypes
<1>4. CASE ClockJumps
  <2>1. PICK n \in Jumps : clock' = clock + n /\ ahead' = IF n > 0 THEN ahead + n ELSE ahead
    BY <1>4 DEF ClockJumps
  <2>2. n \in Int /\ clock' \in Int /\ ahead' \in Nat
    BY <2>1 DEF EchoTypes
  <2>3. /\ jumps' = jumps + 1
        /\ UNCHANGED <<echo, state, buckets, list, lastReceiveTime, numConnected, expires, armed, silent>>
    BY <1>4 DEF ClockJumps
  <2>. QED
    BY <2>2, <2>3 DEF EchoTypes
<1>5. ASSUME NEW c \in Conns, Connected(c) PROVE EchoTypes' /\ echo' = echo
  <2>1. /\ state' \in [Conns -> {"new", "up", "shut", "down"}] /\ silent' \in [Conns -> Nat]
        /\ UNCHANGED <<echo, clock, expires, armed, jumps, ahead>>
    BY <1>5 DEF Connected, EchoTypes
  <2>2. CASE echo = "wheel"
    <3>1. wheel_onConnection(c)
      BY <1>5, <2>2 DEF Connected
    <3>. QED
      BY <2>1, <3>1, <1>2 DEF wheel_onConnection, EchoTypes
  <2>3. CASE echo = "list"
    <3>1. list_onConnection(c)
      BY <1>5, <2>3 DEF Connected
    <3>. QED
      BY <2>1, <3>1 DEF list_onConnection, EchoTypes
  <2>4. CASE echo = "max"
    <3>1. max_onConnection
      BY <1>5, <2>4 DEF Connected
    <3>. QED
      BY <2>1, <3>1 DEF max_onConnection, EchoTypes
  <2>. QED
    BY ZenonT(60), <2>2, <2>3, <2>4 DEF EchoTypes
<1>6. ASSUME NEW c \in Conns, Disconnected(c) PROVE EchoTypes' /\ echo' = echo
  <2>1. /\ state' \in [Conns -> {"new", "up", "shut", "down"}] /\ numConnected' \in Int
        /\ UNCHANGED <<echo, buckets, lastReceiveTime, clock, expires, armed, silent, jumps, ahead>>
    BY <1>6 DEF Disconnected, EchoTypes
  <2>2. list' \in Seq(Conns)
    <3>1. CASE echo = "list"
      <4>1. c \in Range(list) /\ IsInjective(list)
        BY <1>6, <3>1 DEF ListInv, Open, Disconnected
      <4>. QED
        BY <4>1, <3>1, <1>6, ErasedList DEF Disconnected
    <3>2. CASE echo # "list"
      BY <3>2, <1>6 DEF Disconnected, EchoTypes
    <3>. QED
      BY <3>1, <3>2
  <2>. QED
    BY <2>1, <2>2 DEF EchoTypes
<1>7. ASSUME NEW c \in Conns, Heard(c) PROVE EchoTypes' /\ echo' = echo
  <2>1. silent' \in [Conns -> Nat] /\ UNCHANGED <<echo, state, numConnected, clock, expires, armed, jumps, ahead>>
    BY <1>7 DEF Heard, EchoTypes
  <2>2. CASE echo = "wheel"
    <3>1. wheel_onMessage(c)
      BY <1>7, <2>2 DEF Heard
    <3>. QED
      BY <2>1, <3>1, <1>2 DEF wheel_onMessage, EchoTypes
  <2>3. CASE echo = "list"
    <3>1. list_onMessage(c)
      BY <1>7, <2>3 DEF Heard
    <3>2. c \in Range(list) /\ IsInjective(list)
      BY <1>7, <2>3 DEF ListInv, Open, Heard
    <3>3. list' \in Seq(Conns)
      BY <3>1, <3>2, ErasedList DEF list_onMessage, MoveToEnd
    <3>. QED
      BY <2>1, <3>1, <3>3 DEF list_onMessage, EchoTypes
  <2>4. CASE echo = "max"
    <3>1. max_onMessage(c)
      BY <1>7, <2>4 DEF Heard
    <3>. QED
      BY <2>1, <3>1 DEF max_onMessage, EchoTypes
  <2>. QED
    BY ZenonT(60), <2>2, <2>3, <2>4 DEF EchoTypes
<1>. QED
  BY <1>0, <1>3, <1>4, <1>5, <1>6, <1>7 DEF EchoNext

\* The timer is due when the timerfd fires, until the clock is set.
LEMMA ClockStep ==
  ASSUME EchoInv, EchoNext
  PROVE  ClockInv'
<1>. SUFFICES ASSUME jumps' = 0 PROVE ahead' = 0 /\ armed' <= 2 /\ expires' = clock' + armed'
  BY DEF ClockInv
<1>0. jumps \in Nat /\ clock \in Int /\ expires \in Int /\ armed \in Nat /\ armed > 0 /\ ClockInv
  BY DEF EchoInv, EchoTypes
<1>1. CASE Waits
  <2>1. jumps = 0 /\ clock' = clock + 1 /\ ahead' = ahead /\ expires' = expires
    BY <1>1 DEF Waits, Passes
  <2>2. ahead = 0 /\ armed <= 2 /\ expires = clock + armed
    BY <2>1, <1>0 DEF ClockInv
  <2>3. armed > 1 /\ armed' = armed - 1
    BY <1>1, <2>2, <1>0 DEF Waits
  <2>. QED
    BY <2>1, <2>2, <2>3, <1>0
<1>2. CASE Timer
  <2>1. jumps = 0 /\ clock' = clock + 1 /\ ahead' = ahead /\ expires' = clock + 3 /\ armed' = 2
    BY <1>2 DEF Timer, Passes
  <2>2. ahead = 0
    BY <2>1, <1>0 DEF ClockInv
  <2>. QED
    BY <2>1, <2>2, <1>0
<1>3. CASE ClockJumps
  BY <1>3, <1>0 DEF ClockJumps
<1>4. CASE UNCHANGED <<clock, expires, armed, jumps, ahead>>
  BY <1>4, <1>0 DEF ClockInv
<1>5. ASSUME NEW c \in Conns, Connected(c) \/ Disconnected(c) \/ Heard(c)
      PROVE  UNCHANGED <<clock, expires, armed, jumps, ahead>>
  BY ZenonT(60), <1>5 DEF Connected, Disconnected, Heard
<1>. QED
  BY <1>1, <1>2, <1>3, <1>4, <1>5 DEF EchoNext

\* The wheel: a bucket is idleSeconds_ ticks old when it goes, so that the entry of a
\* connection goes with the last bucket it was put into.
LEMMA WheelStep ==
  ASSUME EchoInv, EchoNext, echo = "wheel"
  PROVE  WheelInv' /\ ActiveIsKept
<1>. USE IdleAssumption DEF EchoInv
<1>0. /\ buckets \in [1 .. idleSeconds -> SUBSET Conns] /\ silent \in [Conns -> Nat] /\ armed \in Nat /\ armed > 0
      /\ state \in [Conns -> {"new", "up", "shut", "down"}] /\ WheelInv /\ jumps \in Nat
  BY DEF EchoTypes
<1>1. CASE Timer
  <2>. DEFINE bs == Append(Tail(buckets), {})
  <2>1. /\ buckets' = bs
        /\ state' = [c \in Conns |-> IF state[c] = "up" /\ c \in Held(buckets) \ Held(bs) THEN "shut" ELSE state[c]]
        /\ silent' = [c \in Conns |-> IF state[c] \in {"up", "shut"} THEN silent[c] + 1 ELSE silent[c]]
        /\ armed = 1 /\ armed' = 2 /\ jumps' = jumps
    BY <1>1 DEF Timer, Passes, wheel_onTimer
  <2>2. /\ DOMAIN bs = 1 .. idleSeconds /\ bs[idleSeconds] = {}
        /\ \A i \in 1 .. idleSeconds - 1 : bs[i] = buckets[i + 1]
    <3>1. buckets \in Seq(SUBSET Conns) /\ Len(buckets) = idleSeconds /\ buckets # <<>>
      BY <1>0
    <3>2. /\ Tail(buckets) \in Seq(SUBSET Conns) /\ Len(Tail(buckets)) = idleSeconds - 1
          /\ \A i \in 1 .. idleSeconds - 1 : Tail(buckets)[i] = buckets[i + 1]
      BY <3>1
    <3>. QED
      BY <3>2
  <2>. HIDE DEF bs
  <2>3. ASSUME NEW c \in Conns, state[c] = "up",
               NEW j \in 1 .. idleSeconds, LastBucket(c, j), InTime(c, j)
        PROVE  /\ silent'[c] = silent[c] + 1
               /\ j > 1 => state'[c] = "up" /\ LastBucket(c, j - 1)' /\ InTime(c, j - 1)'
               /\ j = 1 => state'[c] = "shut" /\ silent'[c] > 2 * (idleSeconds - 1)
    <3>1. silent'[c] = silent[c] + 1 /\ silent[c] \in Nat
      BY <2>1, <2>3, <1>0
    <3>2. c \in buckets[j] /\ \A i \in 1 .. idleSeconds : c \in buckets[i] => i <= j
      BY <2>3 DEF LastBucket
    <3>3. \A i \in 1 .. idleSeconds : c \in bs[i] => i <= j - 1
      <4>. SUFFICES ASSUME NEW i \in 1 .. idleSeconds, c \in bs[i] PROVE i <= j - 1
        OBVIOUS
      <4>1. i \in 1 .. idleSeconds - 1 /\ i + 1 \in 1 .. idleSeconds
        BY <2>2
      <4>2. c \in buckets[i + 1]
        BY <4>1, <2>2
      <4>3. i + 1 <= j
        BY <4>1, <4>2, <3>2
      <4>. QED
        BY <4>3
    <3>4. ASSUME j > 1 PROVE state'[c] = "up" /\ LastBucket(c, j - 1)' /\ InTime(c, j - 1)'
      <4>1. PICK i \in 1 .. idleSeconds - 1 : i = j - 1
        BY <3>4
      <4>2. i + 1 = j /\ i \in 1 .. idleSeconds
        BY <4>1
      <4>3. c \in bs[i]
        BY <4>2, <3>2, <2>2
      <4>4. c \in Held(bs)
        BY <4>2, <4>3, <2>2 DEF Held
      <4>5. state'[c] = "up"
        BY <4>4, <2>1, <2>3
      <4>6. LastBucket(c, j - 1)'
        BY <4>1, <4>3, <3>3, <2>1 DEF LastBucket
      <4>7. InTime(c, j - 1)'
        BY <3>1, <2>1, <2>3 DEF InTime
      <4>. QED
        BY <4>5, <4>6, <4>7
    <3>5. ASSUME j = 1 PROVE state'[c] = "shut" /\ silent'[c] > 2 * (idleSeconds - 1)
      <4>1. \A i \in 1 .. idleSeconds : c \notin bs[i]
        BY <3>3, <3>5
      <4>2. c \notin Held(bs)
        BY <4>1, <2>2 DEF Held
      <4>3. c \in Held(buckets)
        BY <3>2, <1>0 DEF Held
      <4>4. silent[c] + 1 >= 2 * (idleSeconds - 1) + 1
        BY <3>5, <2>1, <2>3 DEF InTime
      <4>. QED
        BY <4>2, <4>3, <4>4, <3>1, <2>1, <2>3
    <3>. QED
      BY <3>1, <3>4, <3>5
  <2>4. ASSUME NEW c \in Conns, state'[c] = "up"
        PROVE  \E j \in 1 .. idleSeconds : LastBucket(c, j)' /\ InTime(c, j)'
    <3>1. state[c] = "up"
      BY <2>1, <2>4
    <3>2. PICK j \in 1 .. idleSeconds : LastBucket(c, j) /\ InTime(c, j)
      BY <3>1, <1>0 DEF WheelInv
    <3>3. j > 1
      BY <3>1, <3>2, <2>3, <2>4
    <3>4. j - 1 \in 1 .. idleSeconds
      BY <3>3
    <3>5. LastBucket(c, j - 1)' /\ InTime(c, j - 1)'
      BY <3>1, <3>2, <3>3, <2>3
    <3>. QED
      BY Zenon, <3>4, <3>5
  <2>5. WheelInv'
    BY Zenon, <2>4 DEF WheelInv
  <2>6. ActiveIsKept
    <3>. SUFFICES ASSUME NEW c \in Conns, state[c] = "up", state'[c] = "shut" PROVE silent'[c] > 2 * (idleSeconds - 1)
      BY DEF ActiveIsKept
    <3>1. PICK j \in 1 .. idleSeconds : LastBucket(c, j) /\ InTime(c, j)
      BY <1>0 DEF WheelInv
    <3>2. j = 1
      BY <3>1, <2>3
    <3>. QED
      BY <3>1, <3>2, <2>3
  <2>. QED
    BY <2>5, <2>6
<1>2. CASE Waits
  <2>1. /\ buckets' = buckets /\ state' = state /\ jumps' = jumps
        /\ silent' = [c \in Conns |-> IF state[c] \in {"up", "shut"} THEN silent[c] + 1 ELSE silent[c]]
    BY <1>2 DEF Waits, Passes
  <2>2. armed' >= armed - 1 /\ (jumps = 0 => armed' = armed - 1) /\ armed' \in Int /\ armed' > 0
    <3>1. expires \in Int /\ clock \in Int /\ (jumps = 0 => expires = clock + armed)
      BY DEF EchoTypes, ClockInv
    <3>. QED
      BY <3>1, <1>0, <1>2 DEF Waits
  <2>3. ASSUME NEW c \in Conns, state'[c] = "up"
        PROVE  \E j \in 1 .. idleSeconds : LastBucket(c, j)' /\ InTime(c, j)'
    <3>1. PICK j \in 1 .. idleSeconds : LastBucket(c, j) /\ InTime(c, j)
      BY <2>1, <2>3, <1>0 DEF WheelInv
    <3>2. LastBucket(c, j)'
      BY <3>1, <2>1 DEF LastBucket
    <3>3. silent'[c] = silent[c] + 1 /\ silent[c] \in Nat
      BY <2>1, <2>3, <1>0
    <3>4. silent[c] + armed >= 2 * (idleSeconds - j) + 1 /\ (jumps = 0 => silent[c] + armed <= 2 * (idleSeconds - j) + 2)
      BY <3>1 DEF InTime
    <3>5. /\ silent'[c] + armed' >= 2 * (idleSeconds - j) + 1
          /\ jumps' = 0 => silent'[c] + armed' <= 2 * (idleSeconds - j) + 2
      BY <3>3, <3>4, <2>1, <2>2, <1>0
    <3>. QED
      BY <3>2, <3>5 DEF InTime
  <2>4. WheelInv'
    BY Zenon, <2>3 DEF WheelInv
  <2>. QED
    BY <2>1, <2>4 DEF ActiveIsKept
<1>3. CASE ClockJumps
  <2>1. UNCHANGED <<state, buckets, silent, armed>> /\ jumps' # 0
    BY <1>3, <1>0 DEF ClockJumps
  <2>2. \A c, j : LastBucket(c, j) => LastBucket(c, j)'
    BY <2>1 DEF LastBucket
  <2>3. \A c, j : InTime(c, j) => InTime(c, j)'
    BY ZenonT(60), <2>1 DEF InTime
  <2>. QED
    BY ZenonT(60), <2>1, <2>2, <2>3, <1>0 DEF WheelInv, ActiveIsKept
<1>4. ASSUME NEW c \in Conns, Connected(c) \/ Heard(c) PROVE WheelInv' /\ ActiveIsKept
  <2>1. /\ UNCHANGED <<armed, jumps>> /\ silent' = [silent EXCEPT ![c] = 0]
        /\ \A d \in Conns : d # c => state'[d] = state[d]
    BY <1>4, <1>0 DEF Connected, Heard
  <2>2. state'[c] = "up" => buckets' = [buckets EXCEPT ![idleSeconds] = @ \cup {c}]
    <3>1. CASE Connected(c)
      BY <3>1 DEF Connected, wheel_onConnection, InsertBack
    <3>2. CASE Heard(c) /\ state[c] = "up"
      <4>1. PICK j \in 1 .. idleSeconds : LastBucket(c, j)
        BY <3>2, <1>0 DEF WheelInv
      <4>2. c \in Held(buckets)
        BY <4>1, <1>0 DEF LastBucket, Held
      <4>. QED
        BY <4>2, <3>2 DEF Heard, wheel_onMessage, InsertBack
    <3>3. Heard(c) => state' = state
      BY DEF Heard
    <3>. QED
      BY <3>1, <3>2, <3>3, <1>4
  <2>3. \/ buckets' = [buckets EXCEPT ![idleSeconds] = @ \cup {c}]
        \/ buckets' = buckets
    BY <1>4 DEF Connected, Heard, wheel_onConnection, wheel_onMessage, InsertBack
  <2>4. idleSeconds \in 1 .. idleSeconds
    OBVIOUS
  <2>5. ASSUME NEW d \in Conns, state'[d] = "up"
        PROVE  \E j \in 1 .. idleSeconds : LastBucket(d, j)' /\ InTime(d, j)'
    <3>1. CASE d = c
      <4>1. LastBucket(c, idleSeconds)'
        BY <3>1, <2>2, <2>4, <2>5, <1>0 DEF LastBucket
      <4>2. jumps = 0 => armed <= 2
        BY DEF ClockInv
      <4>3. silent'[c] = 0 /\ idleSeconds - idleSeconds = 0
        BY <2>1, <1>0
      <4>4. InTime(c, idleSeconds)'
        BY <4>2, <4>3, <2>1, <1>0 DEF InTime
      <4>. QED
        BY <4>1, <4>4, <3>1, <2>4
    <3>2. CASE d # c
      <4>1. silent'[d] = silent[d] /\ state[d] = "up"
        BY <3>2, <2>1, <2>5, <1>0
      <4>2. PICK j \in 1 .. idleSeconds : LastBucket(d, j) /\ InTime(d, j)
        BY <4>1, <1>0 DEF WheelInv
      <4>3. \A i \in 1 .. idleSeconds : d \in buckets'[i] <=> d \in buckets[i]
        BY <3>2, <2>3, <2>4, <1>0
      <4>4. LastBucket(d, j)'
        BY <4>2, <4>3 DEF LastBucket
      <4>5. InTime(d, j)'
        BY <4>1, <4>2, <2>1 DEF InTime
      <4>. QED
        BY <4>4, <4>5
    <3>. QED
      BY <3>1, <3>2
  <2>6. WheelInv'
    BY Zenon, <2>5 DEF WheelInv
  <2>7. \A d \in Conns : state[d] = "up" => state'[d] = "up"
    BY <1>4, <1>0 DEF Connected, Heard
  <2>8. ActiveIsKept
    BY <2>7 DEF ActiveIsKept
  <2>. QED
    BY <2>6, <2>8
<1>5. ASSUME NEW c \in Conns, Disconnected(c) PROVE WheelInv' /\ ActiveIsKept
  <2>1. state' = [state EXCEPT ![c] = "down"] /\ UNCHANGED <<silent, buckets, armed, jumps>>
    BY <1>5 DEF Disconnected
  <2>2. \A d, j : LastBucket(d, j) /\ InTime(d, j) => LastBucket(d, j)' /\ InTime(d, j)'
    BY ZenonT(60), <2>1 DEF LastBucket, InTime
  <2>3. \A d \in Conns : state'[d] = "up" => state[d] = "up"
    BY <2>1, <1>0
  <2>4. \A d \in Conns : state'[d] = "shut" => state[d] = "shut"
    BY <2>1, <1>0
  <2>5. ActiveIsKept
    BY <2>4 DEF ActiveIsKept
  <2>. QED
    BY Zenon, <2>2, <2>3, <2>5, <1>0 DEF WheelInv
<1>. QED
  BY <1>1, <1>2, <1>3, <1>4, <1>5 DEF EchoNext

\* A connection goes to the end of a list that does not have it.
LEMMA AtTheEnd ==
  ASSUME NEW q \in Seq(Conns), IsInjective(q), NEW c \in Conns, c \notin Range(q)
  PROVE  /\ Append(q, c) \in Seq(Conns) /\ Range(Append(q, c)) = Range(q) \cup {c}
         /\ IsInjective(Append(q, c))
         /\ \A i, j \in DOMAIN Append(q, c) : i < j =>
              i \in DOMAIN q /\ Append(q, c)[i] = q[i] /\ Append(q, c)[i] # c
              /\ (Append(q, c)[j] = c \/ (j \in DOMAIN q /\ Append(q, c)[j] = q[j]))
<1>1. /\ Append(q, c) \in Seq(Conns) /\ Len(Append(q, c)) = Len(q) + 1 /\ Len(q) \in Nat
      /\ \A i \in 1 .. Len(q) : Append(q, c)[i] = q[i]
      /\ Append(q, c)[Len(q) + 1] = c /\ DOMAIN q = 1 .. Len(q)
      /\ DOMAIN Append(q, c) = 1 .. Len(q) + 1
  OBVIOUS
<1>2. \A i \in 1 .. Len(q) : q[i] # c
  BY <1>1 DEF Range
<1>3. \A i \in 1 .. Len(q) + 1 : i \in 1 .. Len(q) \/ i = Len(q) + 1
  BY <1>1
<1>4. IsInjective(Append(q, c))
  BY <1>1, <1>2, <1>3 DEF IsInjective
<1>5. ASSUME NEW i \in 1 .. Len(q) + 1, NEW j \in 1 .. Len(q) + 1, i < j
      PROVE  i \in 1 .. Len(q) /\ Append(q, c)[i] = q[i] /\ Append(q, c)[i] # c
             /\ (Append(q, c)[j] = c \/ (j \in 1 .. Len(q) /\ Append(q, c)[j] = q[j]))
  <2>1. i \in 1 .. Len(q)
    BY <1>1, <1>5
  <2>. QED
    BY <2>1, <1>1, <1>2, <1>3
<1>6. Range(Append(q, c)) = Range(q) \cup {c}
  BY RangeAppend
<1>. QED
  BY <1>1, <1>4, <1>5, <1>6

\* The list: as long as the clock has not been set back it is in the order of the last
\* messages, so the walk that stops at the first fresh connection passes no idle one; and
\* what it finds idle has been silent for longer than the idle time.
LEMMA ListTimer ==
  ASSUME EchoInv, Timer, echo = "list"
  PROVE  ListInv' /\ ActiveIsKept
<1>. PICK t : t = clock + 1
  OBVIOUS
<1>. DEFINE stops(i) == ~Idle(list[i], t) /\ ~Future(list[i], t)
            seen == {list[i] : i \in {j \in DOMAIN list : \A n \in 1 .. j : ~stops(n)}}
<1>. USE IdleAssumption DEF EchoInv
<1>0. /\ silent \in [Conns -> Nat] /\ lastReceiveTime \in [Conns -> Int] /\ clock \in Int
      /\ state \in [Conns -> {"new", "up", "shut", "down"}] /\ ListInv /\ ahead \in Nat /\ armed \in Nat
      /\ list \in Seq(Conns) /\ DOMAIN list = 1 .. Len(list) /\ Len(list) \in Nat
  BY DEF EchoTypes
<1>1. /\ clock' = t /\ jumps' = jumps /\ list' = list /\ ahead' = ahead /\ armed' = 2
      /\ silent' = [c \in Conns |-> IF state[c] \in {"up", "shut"} THEN silent[c] + 1 ELSE silent[c]]
      /\ state' = [c \in Conns |-> IF c \in seen /\ Idle(c, t) /\ state[c] = "up" THEN "shut" ELSE state[c]]
      /\ lastReceiveTime' = [c \in Conns |-> IF c \in seen /\ Future(c, t) THEN t ELSE lastReceiveTime[c]]
  BY DEF Timer, Passes, list_onTimer
<1>2. Open' = Open
  BY <1>1, <1>0 DEF Open
<1>3. /\ t \in Int
      /\ \A c \in Conns : Idle(c, t) <=> t - lastReceiveTime[c] > 2 * idleSeconds
      /\ \A c \in Conns : Future(c, t) <=> t < lastReceiveTime[c]
  <2>1. t \in Int
    BY <1>0
  <2>. QED
    BY <2>1 DEF Idle, Future
<1>4. \A c \in Open : c \in Conns /\ silent'[c] = silent[c] + 1 /\ silent[c] \in Nat /\ lastReceiveTime[c] \in Int
                      /\ clock - lastReceiveTime[c] <= silent[c] + ahead
  BY ZenonT(60), <1>0, <1>1 DEF Open, ListInv
<1>5. \A c \in Open : clock' - lastReceiveTime'[c] <= silent'[c] + ahead'
  <2>. SUFFICES ASSUME NEW c \in Open PROVE clock' - lastReceiveTime'[c] <= silent'[c] + ahead'
    OBVIOUS
  <2>1. lastReceiveTime'[c] = t \/ lastReceiveTime'[c] = lastReceiveTime[c]
    BY Zenon, <1>1, <1>4
  <2>2. clock' = t /\ silent'[c] = silent[c] + 1 /\ ahead' = ahead
    BY <1>1, <1>4
  <2>. QED
    BY <2>1, <2>2, <1>0, <1>3, <1>4
<1>6. ActiveIsKept
  <2>. SUFFICES ASSUME NEW c \in Conns, state[c] = "up", state'[c] = "shut" PROVE silent'[c] + ahead > 2 * idleSeconds
    BY DEF ActiveIsKept
  <2>1. Idle(c, t) /\ c \in Open
    BY <1>1 DEF Open
  <2>2. t - lastReceiveTime[c] > 2 * idleSeconds
    BY <2>1, <1>3
  <2>. QED
    BY <2>1, <2>2, <1>0, <1>4
<1>7. ASSUME jumps = 0
      PROVE  /\ \A c \in Open : clock' - lastReceiveTime'[c] = silent'[c]
             /\ \A i, j \in DOMAIN list : i < j => lastReceiveTime'[list[i]] <= lastReceiveTime'[list[j]]
             /\ \A c \in Conns : state'[c] = "up" => silent'[c] + armed' <= 2 * idleSeconds + 2
  <2>1. /\ \A c \in Open : clock - lastReceiveTime[c] = silent[c]
        /\ \A i, j \in DOMAIN list : i < j => lastReceiveTime[list[i]] <= lastReceiveTime[list[j]]
    BY <1>0, <1>7 DEF ListInv
  <2>2. \A i \in DOMAIN list : list[i] \in Open
    BY <1>0 DEF ListInv, Range
  <2>3. \A c \in Open : ~Future(c, t)
    BY <2>1, <1>0, <1>3, <1>4
  <2>4. \A c \in Open : lastReceiveTime'[c] = lastReceiveTime[c]
    BY ZenonT(60), <2>3, <1>1, <1>4
  <2>5. \A c \in Open : clock' - lastReceiveTime'[c] = silent'[c]
    <3>. SUFFICES ASSUME NEW c \in Open PROVE t - lastReceiveTime[c] = silent[c] + 1
      BY <2>4, <1>1, <1>4
    <3>. QED
      BY <2>1, <1>0, <1>4
  <2>6. \A i, j \in DOMAIN list : i < j => lastReceiveTime'[list[i]] <= lastReceiveTime'[list[j]]
    BY <2>1, <2>2, <2>4
  <2>7. ASSUME NEW c \in Conns, state'[c] = "up" PROVE silent'[c] + armed' <= 2 * idleSeconds + 2
    <3>1. state[c] = "up" /\ c \in Open /\ ~(c \in seen /\ Idle(c, t))
      BY <2>7, <1>0, <1>1 DEF Open
    <3>2. ~Idle(c, t)
      <4>. SUFFICES ASSUME Idle(c, t) PROVE c \in seen
        BY <3>1
      <4>1. PICK p \in DOMAIN list : list[p] = c
        BY <3>1, <1>0 DEF ListInv, Range
      <4>2. ASSUME NEW n \in 1 .. p PROVE ~stops(n)
        <5>1. n \in DOMAIN list /\ list[n] \in Open /\ lastReceiveTime[list[n]] \in Int /\ n <= p
          <6>1. n \in DOMAIN list /\ n <= p
            BY <1>0
          <6>. QED
            BY <6>1, <2>2, <1>4
        <5>2. lastReceiveTime[list[n]] <= lastReceiveTime[c]
          <6>1. CASE n = p
            BY <6>1, <5>1, <4>1
          <6>2. CASE n < p
            BY <6>2, <5>1, <4>1, <2>1
          <6>. QED
            BY <6>1, <6>2, <5>1, <1>0
        <5>3. t - lastReceiveTime[c] > 2 * idleSeconds
          BY <1>3
        <5>4. Idle(list[n], t)
          <6>1. lastReceiveTime[c] \in Int /\ list[n] \in Conns
            BY ZenonT(60), <5>1, <3>1, <1>4
          <6>2. t - lastReceiveTime[list[n]] > 2 * idleSeconds
            BY <6>1, <5>1, <5>2, <5>3, <1>3
          <6>. QED
            BY <6>1, <6>2, <1>3
        <5>. QED
          BY ZenonT(60), <5>4
      <4>. HIDE DEF stops
      <4>. QED
        BY <4>1, <4>2
    <3>3. t - lastReceiveTime[c] <= 2 * idleSeconds
      <4>1. ~(t - lastReceiveTime[c] > 2 * idleSeconds)
        BY ZenonT(60), <3>1, <3>2, <1>3
      <4>. QED
        BY <4>1, <3>1, <1>0, <1>4
    <3>. QED
      BY <3>1, <3>3, <2>1, <1>0, <1>1, <1>4
  <2>. QED
    BY <2>5, <2>6, <2>7
<1>. HIDE DEF seen
<1>8. ListInv'
  <2>1. Range(list') = Open' /\ IsInjective(list')
    BY <1>0, <1>1, <1>2 DEF ListInv
  <2>. QED
    BY ZenonT(60), <2>1, <1>1, <1>2, <1>5, <1>7 DEF ListInv
<1>. QED
  BY <1>6, <1>8

\* The other steps keep the list's order: who comes or is heard from goes to its end.
LEMMA ListStep ==
  ASSUME EchoInv, EchoNext, echo = "list"
  PROVE  ListInv' /\ ActiveIsKept
<1>. USE IdleAssumption DEF EchoInv
<1>0. /\ silent \in [Conns -> Nat] /\ lastReceiveTime \in [Conns -> Int] /\ clock \in Int
      /\ state \in [Conns -> {"new", "up", "shut", "down"}] /\ ListInv /\ jumps \in Nat
      /\ list \in Seq(Conns) /\ ahead \in Nat /\ armed \in Nat /\ (jumps = 0 => armed <= 2)
  BY ZenonT(60) DEF EchoTypes, ClockInv
<1>1. /\ Range(list) = Open /\ IsInjective(list)
      /\ \A c \in Open : clock - lastReceiveTime[c] <= silent[c] + ahead
      /\ \A i \in DOMAIN list : list[i] \in Open
      /\ \A c \in Open : c \in Conns /\ lastReceiveTime[c] \in Int /\ silent[c] \in Nat
  BY <1>0 DEF ListInv, Open, Range
<1>2. CASE Timer
  BY ZenonT(60), <1>2, ListTimer
<1>3. CASE ClockJumps
  <2>1. PICK n \in Jumps : clock' = clock + n /\ ahead' = IF n > 0 THEN ahead + n ELSE ahead
    BY <1>3 DEF ClockJumps
  <2>2. /\ jumps' = jumps + 1 /\ jumps' # 0
        /\ state' = state /\ list' = list /\ lastReceiveTime' = lastReceiveTime /\ silent' = silent
    BY <1>3, <1>0 DEF ClockJumps
  <2>3. Open' = Open
    BY <2>2 DEF Open
  <2>4. \A c \in Open : clock' - lastReceiveTime[c] <= silent[c] + ahead'
    <3>1. n \in Int
      BY <2>1
    <3>. QED
      BY <3>1, <2>1, <1>0, <1>1
  <2>5. ActiveIsKept
    BY ZenonT(60), <2>2 DEF ActiveIsKept
  <2>. QED
    BY <2>2, <2>3, <2>4, <2>5, <1>1 DEF ListInv
<1>7. CASE Waits
  <2>1. /\ UNCHANGED <<state, list, lastReceiveTime, jumps, ahead>> /\ clock' = clock + 1
        /\ silent' = [c \in Conns |-> IF state[c] \in {"up", "shut"} THEN silent[c] + 1 ELSE silent[c]]
    BY <1>7 DEF Waits, Passes
  <2>2. jumps = 0 => armed' = armed - 1
    <3>1. expires \in Int /\ clock \in Int /\ (jumps = 0 => expires = clock + armed)
      BY DEF EchoTypes, ClockInv
    <3>. QED
      BY <3>1, <1>0, <1>7 DEF Waits
  <2>3. Open' = Open /\ \A c \in Open : silent'[c] = silent[c] + 1
    BY <2>1, <1>0 DEF Open
  <2>4. ASSUME NEW c \in Open PROVE clock' - lastReceiveTime[c] <= silent'[c] + ahead
    <3>1. /\ silent'[c] = silent[c] + 1 /\ clock' = clock + 1 /\ lastReceiveTime[c] \in Int /\ silent[c] \in Nat
          /\ clock - lastReceiveTime[c] <= silent[c] + ahead /\ clock \in Int /\ ahead \in Nat
      BY ZenonT(60), <2>1, <2>3, <1>0, <1>1
    <3>. QED
      BY ONLY SMTT(60), Z3T(60), <3>1
  <2>5. ASSUME jumps = 0
        PROVE  /\ \A c \in Open : clock' - lastReceiveTime[c] = silent'[c]
               /\ \A i, j \in DOMAIN list : i < j => lastReceiveTime[list[i]] <= lastReceiveTime[list[j]]
               /\ \A c \in Conns : state[c] = "up" => silent'[c] + armed' <= 2 * idleSeconds + 2
    <3>1. /\ \A c \in Open : clock - lastReceiveTime[c] = silent[c]
          /\ \A i, j \in DOMAIN list : i < j => lastReceiveTime[list[i]] <= lastReceiveTime[list[j]]
          /\ \A c \in Conns : state[c] = "up" => silent[c] + armed <= 2 * idleSeconds + 2
      BY ZenonT(60), <2>5, <1>0 DEF ListInv
    <3>2. ASSUME NEW c \in Open PROVE clock' - lastReceiveTime[c] = silent'[c]
      <4>1. /\ silent'[c] = silent[c] + 1 /\ clock' = clock + 1 /\ lastReceiveTime[c] \in Int /\ silent[c] \in Nat
            /\ clock - lastReceiveTime[c] = silent[c] /\ clock \in Int
        BY ZenonT(60), <3>1, <2>1, <2>3, <1>0, <1>1
      <4>. QED
        BY ONLY SMTT(60), Z3T(60), <4>1
    <3>3. ASSUME NEW c \in Conns, state[c] = "up" PROVE silent'[c] + armed' <= 2 * idleSeconds + 2
      <4>1. c \in Open /\ silent[c] \in Nat /\ silent'[c] = silent[c] + 1
        BY <3>3, <2>3, <1>0 DEF Open
      <4>. QED
        BY <4>1, <3>1, <3>3, <2>2, <2>5, <1>0
    <3>. QED
      BY ZenonT(60), <3>1, <3>2, <3>3
  <2>6. ActiveIsKept
    BY ZenonT(60), <2>1 DEF ActiveIsKept
  <2>. QED
    BY ZenonT(60), <2>1, <2>3, <2>4, <2>5, <2>6, <1>1 DEF ListInv
<1>4. ASSUME NEW c \in Conns, Connected(c) PROVE ListInv' /\ ActiveIsKept
  <2>1. /\ state[c] = "new" /\ state' = [state EXCEPT ![c] = "up"] /\ silent' = [silent EXCEPT ![c] = 0]
        /\ list' = Append(list, c) /\ lastReceiveTime' = [lastReceiveTime EXCEPT ![c] = clock]
        /\ UNCHANGED <<clock, jumps, ahead, armed>>
    BY <1>4 DEF Connected, list_onConnection
  <2>2. Open' = Open \cup {c} /\ c \notin Open
    BY ZenonT(60), <2>1, <1>0 DEF Open
  <2>3. /\ Range(list') = Open' /\ IsInjective(list')
        /\ \A i, j \in DOMAIN list' : i < j =>
             i \in DOMAIN list /\ list'[i] = list[i] /\ list'[i] # c
             /\ (list'[j] = c \/ (j \in DOMAIN list /\ list'[j] = list[j]))
    BY <2>1, <2>2, <1>0, <1>1, AtTheEnd
  <2>4. /\ silent'[c] = 0 /\ lastReceiveTime'[c] = clock
        /\ \A d \in Conns : d # c => silent'[d] = silent[d] /\ lastReceiveTime'[d] = lastReceiveTime[d] /\ state'[d] = state[d]
    BY <2>1, <1>0
  <2>5. \A d \in Open' : clock' - lastReceiveTime'[d] <= silent'[d] + ahead'
    BY <2>1, <2>2, <2>4, <1>0, <1>1
  <2>6. ASSUME jumps = 0
        PROVE  /\ \A d \in Open' : clock' - lastReceiveTime'[d] = silent'[d]
               /\ \A i, j \in DOMAIN list' : i < j => lastReceiveTime'[list'[i]] <= lastReceiveTime'[list'[j]]
               /\ \A d \in Conns : state'[d] = "up" => silent'[d] + armed' <= 2 * idleSeconds + 2
    <3>1. /\ \A d \in Open : clock - lastReceiveTime[d] = silent[d]
          /\ \A i, j \in DOMAIN list : i < j => lastReceiveTime[list[i]] <= lastReceiveTime[list[j]]
          /\ \A d \in Conns : state[d] = "up" => silent[d] + armed <= 2 * idleSeconds + 2
      BY ZenonT(60), <2>6, <1>0 DEF ListInv
    <3>2. \A d \in Open' : clock' - lastReceiveTime'[d] = silent'[d]
      BY <3>1, <2>1, <2>2, <2>4, <1>0, <1>1
    <3>3. ASSUME NEW i \in DOMAIN list', NEW j \in DOMAIN list', i < j
          PROVE  lastReceiveTime'[list'[i]] <= lastReceiveTime'[list'[j]]
      <4>1. i \in DOMAIN list /\ list'[i] = list[i] /\ list[i] # c /\ list[i] \in Open
        BY ZenonT(60), <3>3, <2>3, <1>1
      <4>2. lastReceiveTime'[list'[i]] = lastReceiveTime[list[i]]
        BY ZenonT(60), <4>1, <2>4, <1>1
      <4>3. CASE list'[j] = c
        <5>1. clock - lastReceiveTime[list[i]] = silent[list[i]] /\ silent[list[i]] \in Nat /\ lastReceiveTime[list[i]] \in Int
          BY ZenonT(60), <4>1, <3>1, <1>1
        <5>. QED
          BY <5>1, <4>2, <4>3, <2>4, <1>0
      <4>4. CASE j \in DOMAIN list /\ list'[j] = list[j]
        <5>1. list[j] \in Open /\ list[j] # c /\ list[j] \in Conns
          BY ZenonT(60), <4>4, <2>2, <1>1
        <5>2. lastReceiveTime'[list'[j]] = lastReceiveTime[list[j]]
          BY <5>1, <4>4, <2>4
        <5>. QED
          BY <5>2, <4>1, <4>2, <4>4, <3>1, <3>3
      <4>. QED
        BY ZenonT(60), <4>3, <4>4, <3>3, <2>3
    <3>4. \A d \in Conns : state'[d] = "up" => silent'[d] + armed' <= 2 * idleSeconds + 2
      <4>1. armed' = armed /\ 0 + armed <= 2 * idleSeconds + 2
        BY <2>1, <2>6, <1>0
      <4>2. ASSUME NEW d \in Conns, state'[d] = "up" PROVE silent'[d] + armed' <= 2 * idleSeconds + 2
        BY <4>1, <4>2, <3>1, <2>4
      <4>. QED
        BY <4>2
    <3>. QED
      BY ZenonT(60), <3>2, <3>3, <3>4
  <2>7. ActiveIsKept
    BY <2>1, <1>0 DEF ActiveIsKept
  <2>. QED
    BY <2>1, <2>3, <2>5, <2>6, <2>7 DEF ListInv
<1>5. ASSUME NEW c \in Conns, Disconnected(c) PROVE ListInv' /\ ActiveIsKept
  <2>1. /\ state[c] \in {"up", "shut"} /\ state' = [state EXCEPT ![c] = "down"] /\ list' = Erased(c)
        /\ UNCHANGED <<lastReceiveTime, clock, silent, jumps, ahead, armed>>
    BY <1>5 DEF Disconnected
  <2>2. Open' = Open \ {c} /\ c \in Open
    BY ZenonT(60), <2>1, <1>0 DEF Open
  <2>3. /\ Range(list') = Open' /\ IsInjective(list')
        /\ \A i, j \in DOMAIN list' : i < j =>
             \E m, n \in DOMAIN list : m < n /\ list'[i] = list[m] /\ list'[j] = list[n]
    BY <2>1, <2>2, <1>1, ErasedList
  <2>4. \A d \in Conns : state'[d] = "up" => state[d] = "up"
    BY <2>1, <1>0
  <2>5. \A d \in Open' : d \in Open
    BY <2>2
  <2>6. UNCHANGED <<lastReceiveTime, clock, silent, jumps, ahead, armed>>
    BY ZenonT(60), <2>1
  <2>7. ListInv'
    <3>1. ASSUME jumps = 0
          PROVE  /\ \A d \in Open' : clock - lastReceiveTime[d] = silent[d]
                 /\ \A i, j \in DOMAIN list' : i < j => lastReceiveTime[list'[i]] <= lastReceiveTime[list'[j]]
                 /\ \A d \in Conns : state'[d] = "up" => silent[d] + armed <= 2 * idleSeconds + 2
      <4>1. /\ \A d \in Open : clock - lastReceiveTime[d] = silent[d]
            /\ \A i, j \in DOMAIN list : i < j => lastReceiveTime[list[i]] <= lastReceiveTime[list[j]]
            /\ \A d \in Conns : state[d] = "up" => silent[d] + armed <= 2 * idleSeconds + 2
        BY <3>1, <1>0 DEF ListInv
      <4>2. ASSUME NEW i \in DOMAIN list', NEW j \in DOMAIN list', i < j
            PROVE  lastReceiveTime[list'[i]] <= lastReceiveTime[list'[j]]
        <5>1. PICK m \in DOMAIN list, n \in DOMAIN list : m < n /\ list'[i] = list[m] /\ list'[j] = list[n]
          BY <4>2, <2>3
        <5>. QED
          BY <5>1, <4>1
      <4>. QED
        BY ZenonT(60), <4>1, <4>2, <2>4, <2>5
    <3>. QED
      BY ZenonT(60), <3>1, <2>3, <2>5, <2>6, <1>1 DEF ListInv
  <2>8. ActiveIsKept
    BY ZenonT(60), <2>1, <1>0 DEF ActiveIsKept
  <2>. QED
    BY <2>7, <2>8
<1>6. ASSUME NEW c \in Conns, Heard(c) PROVE ListInv' /\ ActiveIsKept
  <2>1. /\ state[c] \in {"up", "shut"} /\ state' = state /\ silent' = [silent EXCEPT ![c] = 0]
        /\ list' = Append(Erased(c), c) /\ lastReceiveTime' = [lastReceiveTime EXCEPT ![c] = clock]
        /\ UNCHANGED <<clock, jumps, ahead, armed>>
    BY <1>6 DEF Heard, list_onMessage, MoveToEnd
  <2>2. Open' = Open /\ c \in Open
    BY <2>1 DEF Open
  <2>. PICK q : q = Erased(c)
    OBVIOUS
  <2>3. /\ q \in Seq(Conns) /\ Range(q) = Open \ {c} /\ IsInjective(q)
        /\ \A i \in DOMAIN q : q[i] # c /\ q[i] \in Open
        /\ \A i, j \in DOMAIN q : i < j =>
             \E m, n \in DOMAIN list : m < n /\ q[i] = list[m] /\ q[j] = list[n]
    <3>1. /\ q \in Seq(Conns) /\ Range(q) = Open \ {c} /\ IsInjective(q)
          /\ \A i, j \in DOMAIN q : i < j =>
               \E m, n \in DOMAIN list : m < n /\ q[i] = list[m] /\ q[j] = list[n]
      BY <2>2, <1>1, ErasedList
    <3>. QED
      BY ZenonT(60), <3>1 DEF Range
  <2>4. /\ Range(list') = Open' /\ IsInjective(list')
        /\ \A i, j \in DOMAIN list' : i < j =>
             i \in DOMAIN q /\ list'[i] = q[i] /\ list'[i] # c
             /\ (list'[j] = c \/ (j \in DOMAIN q /\ list'[j] = q[j]))
    <3>1. list' = Append(q, c) /\ c \notin Range(q)
      BY ZenonT(60), <2>1, <2>3
    <3>2. q \in Seq(Conns) /\ IsInjective(q) /\ c \in Conns /\ c \notin Range(q)
      BY ONLY SMTT(60), Z3T(60), <3>1, <2>3, c \in Conns
    <3>3. /\ Append(q, c) \in Seq(Conns) /\ Range(Append(q, c)) = Range(q) \cup {c}
          /\ IsInjective(Append(q, c))
          /\ \A i, j \in DOMAIN Append(q, c) : i < j =>
               i \in DOMAIN q /\ Append(q, c)[i] = q[i] /\ Append(q, c)[i] # c
               /\ (Append(q, c)[j] = c \/ (j \in DOMAIN q /\ Append(q, c)[j] = q[j]))
      BY ONLY ZenonT(60), <3>2, AtTheEnd
    <3>4. c \in Open /\ Open' = Open /\ Range(q) = Open \ {c}
      BY ZenonT(60), <2>2, <2>3
    <3>5. Range(q) \cup {c} = Open'
      BY ONLY Zenon, <3>4
    <3>. QED
      BY ONLY ZenonT(60), <3>1, <3>3, <3>5
  <2>5. /\ silent'[c] = 0 /\ lastReceiveTime'[c] = clock
        /\ \A d \in Conns : d # c => silent'[d] = silent[d] /\ lastReceiveTime'[d] = lastReceiveTime[d]
    BY <2>1, <1>0
  <2>6. \A d \in Open' : clock' - lastReceiveTime'[d] <= silent'[d] + ahead'
    BY <2>1, <2>2, <2>5, <1>0, <1>1
  <2>7. ASSUME jumps = 0
        PROVE  /\ \A d \in Open' : clock' - lastReceiveTime'[d] = silent'[d]
               /\ \A i, j \in DOMAIN list' : i < j => lastReceiveTime'[list'[i]] <= lastReceiveTime'[list'[j]]
               /\ \A d \in Conns : state'[d] = "up" => silent'[d] + armed' <= 2 * idleSeconds + 2
    <3>1. /\ \A d \in Open : clock - lastReceiveTime[d] = silent[d]
          /\ \A i, j \in DOMAIN list : i < j => lastReceiveTime[list[i]] <= lastReceiveTime[list[j]]
          /\ \A d \in Conns : state[d] = "up" => silent[d] + armed <= 2 * idleSeconds + 2
      BY ZenonT(60), <2>7, <1>0 DEF ListInv
    <3>2. \A d \in Open' : clock' - lastReceiveTime'[d] = silent'[d]
      BY <3>1, <2>1, <2>2, <2>5, <1>0, <1>1
    <3>3. ASSUME NEW i \in DOMAIN list', NEW j \in DOMAIN list', i < j
          PROVE  lastReceiveTime'[list'[i]] <= lastReceiveTime'[list'[j]]
      <4>1. i \in DOMAIN q /\ list'[i] = q[i] /\ q[i] # c /\ q[i] \in Open
        BY ZenonT(60), <3>3, <2>3, <2>4
      <4>2. lastReceiveTime'[list'[i]] = lastReceiveTime[q[i]]
        BY ZenonT(60), <4>1, <2>5, <1>1
      <4>3. CASE list'[j] = c
        <5>1. clock - lastReceiveTime[q[i]] = silent[q[i]] /\ silent[q[i]] \in Nat /\ lastReceiveTime[q[i]] \in Int
          BY ZenonT(60), <4>1, <3>1, <1>1
        <5>. QED
          BY <5>1, <4>2, <4>3, <2>5, <1>0
      <4>4. CASE j \in DOMAIN q /\ list'[j] = q[j]
        <5>1. q[j] \in Open /\ q[j] # c /\ q[j] \in Conns
          BY ZenonT(60), <4>4, <2>3, <1>1
        <5>2. lastReceiveTime'[list'[j]] = lastReceiveTime[q[j]]
          BY ZenonT(60), <5>1, <4>4, <2>5
        <5>3. PICK m \in DOMAIN list, n \in DOMAIN list : m < n /\ q[i] = list[m] /\ q[j] = list[n]
          BY ZenonT(60), <4>1, <4>4, <3>3, <2>3
        <5>. QED
          BY ZenonT(60), <5>2, <5>3, <4>2, <3>1
      <4>. QED
        BY ZenonT(60), <4>3, <4>4, <3>3, <2>4
    <3>4. \A d \in Conns : state'[d] = "up" => silent'[d] + armed' <= 2 * idleSeconds + 2
      <4>1. armed' = armed /\ 0 + armed <= 2 * idleSeconds + 2
        BY <2>1, <2>7, <1>0
      <4>. QED
        BY <4>1, <3>1, <2>1, <2>5, <1>0
    <3>. QED
      BY ZenonT(60), <3>2, <3>3, <3>4
  <2>8. ActiveIsKept
    BY <2>1 DEF ActiveIsKept
  <2>. QED
    BY ZenonT(60), <2>1, <2>4, <2>6, <2>7, <2>8 DEF ListInv
<1>. QED
  BY <1>2, <1>3, <1>4, <1>5, <1>6, <1>7 DEF EchoNext

INSTANCE FiniteSetTheorems

\* No connection has been made.
LEMMA EchoInitially == EchoInit => EchoInv
<1>. SUFFICES ASSUME EchoInit PROVE EchoInv
  OBVIOUS
<1>. USE IdleAssumption DEF EchoInit
<1>1. EchoTypes
  BY DEF EchoTypes
<1>6. ClockInv
  BY DEF ClockInv
<1>2. Open = {} /\ Up = {}
  BY DEF Open, Up
<1>3. WheelInv
  BY DEF WheelInv
<1>4. ListInv
  BY <1>2, RangeEmpty DEF ListInv, IsInjective
<1>5. MaxInv
  BY <1>2, FS_EmptySet DEF MaxInv
<1>. QED
  BY <1>1, <1>3, <1>4, <1>5, <1>6 DEF EchoInv

\* The invariant implies what is to be shown of a state.
LEMMA EchoInvSuffices == EchoInv => IdleAreShutDown
<1>. SUFFICES ASSUME EchoInv PROVE IdleAreShutDown
  OBVIOUS
<1>1. idleSeconds \in Nat /\ armed \in Nat /\ armed > 0 /\ \A c \in Conns : silent[c] \in Nat
  BY ZenonT(60), IdleAssumption DEF EchoInv, EchoTypes
<1>2. ASSUME echo \in {"wheel", "list"}, NEW c \in Conns, state[c] = "up", jumps = 0
      PROVE  silent[c] < Limit
  <2>1. CASE echo = "wheel"
    <3>1. PICK j \in 1 .. idleSeconds : silent[c] + armed <= 2 * (idleSeconds - j) + 2
      BY ZenonT(60), <2>1, <1>2 DEF EchoInv, WheelInv, InTime
    <3>2. silent[c] < 2 * idleSeconds
      BY ONLY SMTT(60), Z3T(60), <3>1, <1>1, c \in Conns, j \in 1 .. idleSeconds
    <3>. QED
      BY ZenonT(60), <3>2, <2>1 DEF Limit
  <2>2. CASE echo = "list"
    <3>1. silent[c] + armed <= 2 * idleSeconds + 2
      BY ZenonT(60), <2>2, <1>2 DEF EchoInv, ListInv
    <3>2. silent[c] < 2 * (idleSeconds + 1)
      BY ONLY SMTT(60), Z3T(60), <3>1, <1>1, c \in Conns
    <3>. QED
      BY ZenonT(60), <3>2, <2>2 DEF Limit
  <2>. QED
    BY ZenonT(60), <1>2, <2>1, <2>2
<1>3. echo = "list" => Range(list) = Open /\ IsInjective(list)
  BY ZenonT(60) DEF EchoInv, ListInv
<1>4. echo = "max" => /\ numConnected = Cardinality(Open)
                      /\ Cardinality({c \in Conns : state[c] = "up"}) <= kMaxConnections
  BY ZenonT(60) DEF EchoInv, MaxInv, Up
<1>. QED
  BY ZenonT(60), <1>2, <1>3, <1>4 DEF IdleAreShutDown

\* The sets that maxconnection counts are finite.
LEMMA OpenIsFinite == /\ IsFiniteSet(Open) /\ IsFiniteSet(Up)
                      /\ Cardinality(Open) \in Nat /\ Cardinality(Up) \in Nat /\ Cardinality(Up) <= Cardinality(Open)
<1>1. Open \subseteq Conns /\ Up \subseteq Open
  BY DEF Open, Up
<1>2. IsFiniteSet(Open)
  BY <1>1, IdleAssumption, FS_Subset
<1>3. IsFiniteSet(Up) /\ Cardinality(Up) <= Cardinality(Open)
  BY <1>1, <1>2, FS_Subset
<1>. QED
  BY <1>2, <1>3, FS_CardinalityType

\* maxconnection counts a connection until it is down, whether it is served or not.
LEMMA MaxStep ==
  ASSUME EchoInv, EchoNext, echo = "max"
  PROVE  MaxInv' /\ ActiveIsKept
<1>. USE IdleAssumption DEF EchoInv
<1>0. state \in [Conns -> {"new", "up", "shut", "down"}] /\ MaxInv /\ numConnected \in Int
  BY DEF EchoTypes
<1>1. /\ IsFiniteSet(Open) /\ IsFiniteSet(Up) /\ Cardinality(Open) \in Nat /\ Cardinality(Up) \in Nat
      /\ Cardinality(Up) <= Cardinality(Open)
  BY OpenIsFinite
<1>2. CASE state' = state /\ numConnected' = numConnected
  <2>1. Open' = Open /\ Up' = Up
    BY ZenonT(60), <1>2 DEF Open, Up
  <2>. QED
    BY ZenonT(60), <2>1, <1>2, <1>0 DEF MaxInv, ActiveIsKept
<1>3. ASSUME NEW c \in Conns, Connected(c) PROVE MaxInv' /\ ActiveIsKept
  <2>1. /\ state[c] = "new" /\ numConnected' = numConnected + 1
        /\ state' = [state EXCEPT ![c] = IF numConnected + 1 > kMaxConnections THEN "shut" ELSE "up"]
    BY <1>3 DEF Connected, max_onConnection, TooMany
  <2>2. Open' = Open \cup {c} /\ c \notin Open /\ c \notin Up
    BY <2>1, <1>0 DEF Open, Up
  <2>3. Cardinality(Open') = Cardinality(Open) + 1
    BY Zenon, <2>2, <1>1, FS_AddElement
  <2>4. Cardinality(Up') <= kMaxConnections
    <3>1. CASE numConnected + 1 > kMaxConnections
      <4>1. Up' = Up
        BY ZenonT(60), <3>1, <2>1, <1>0 DEF Up
      <4>. QED
        BY <4>1, <1>0 DEF MaxInv
    <3>2. CASE ~(numConnected + 1 > kMaxConnections)
      <4>1. Up' = Up \cup {c}
        BY <3>2, <2>1, <1>0 DEF Up
      <4>2. Cardinality(Up') = Cardinality(Up) + 1
        BY Zenon, <4>1, <2>2, <1>1, FS_AddElement
      <4>. QED
        BY <4>2, <3>2, <1>0, <1>1 DEF MaxInv
    <3>. QED
      BY <3>1, <3>2
  <2>5. ActiveIsKept
    BY ZenonT(60), <2>1, <1>0 DEF ActiveIsKept
  <2>. QED
    BY ZenonT(60), <2>1, <2>3, <2>4, <2>5, <1>0, <1>1 DEF MaxInv
<1>4. ASSUME NEW c \in Conns, Disconnected(c) PROVE MaxInv' /\ ActiveIsKept
  <2>1. /\ state[c] \in {"up", "shut"} /\ numConnected' = numConnected - 1
        /\ state' = [state EXCEPT ![c] = "down"]
    BY <1>4 DEF Disconnected
  <2>2. Open' = Open \ {c} /\ c \in Open /\ Up' \subseteq Up
    BY <2>1, <1>0 DEF Open, Up
  <2>3. Cardinality(Open') = Cardinality(Open) - 1
    BY ZenonT(60), <2>2, <1>1, FS_RemoveElement
  <2>4. Cardinality(Up') <= Cardinality(Up) /\ Cardinality(Up') \in Nat
    BY ZenonT(60), <2>2, <1>1, FS_Subset, FS_CardinalityType
  <2>5. ActiveIsKept
    BY <2>1, <1>0 DEF ActiveIsKept
  <2>. QED
    BY <2>1, <2>3, <2>4, <2>5, <1>0, <1>1 DEF MaxInv
<1>5. ASSUME Waits \/ Timer \/ ClockJumps \/ \E c \in Conns : Heard(c)
      PROVE  state' = state /\ numConnected' = numConnected
  BY <1>5 DEF Waits, Timer, Passes, ClockJumps, Heard
<1>. QED
  BY ZenonT(60), <1>2, <1>3, <1>4, <1>5 DEF EchoNext

\* Every step of the server that it is keeps its invariant.
LEMMA EchoStep ==
  EchoInv /\ [EchoNext]_echoVars => EchoInv' /\ [IdleAreShutDown' /\ ActiveIsKept]_echoVars
<1>. SUFFICES ASSUME EchoInv, [EchoNext]_echoVars
              PROVE  EchoInv' /\ [IdleAreShutDown' /\ ActiveIsKept]_echoVars
  OBVIOUS
<1>1. CASE EchoNext
  <2>1. EchoTypes' /\ echo' = echo
    BY <1>1, EchoTypesStep
  <2>6. ClockInv'
    BY <1>1, ClockStep
  <2>2. /\ echo = "wheel" => WheelInv' /\ ActiveIsKept
        /\ echo = "list" => ListInv' /\ ActiveIsKept
        /\ echo = "max" => MaxInv' /\ ActiveIsKept
    BY ZenonT(60), <1>1, WheelStep, ListStep, MaxStep
  <2>3. echo \in {"wheel", "list", "max"}
    BY DEF EchoInv, EchoTypes
  <2>4. EchoInv'
    BY <2>1, <2>2, <2>6 DEF EchoInv
  <2>5. EchoInv' => IdleAreShutDown'
    BY EchoInvSuffices, PTL
  <2>. QED
    BY <2>2, <2>3, <2>4, <2>5
<1>2. CASE UNCHANGED echoVars
  BY ZenonT(60), <1>2 DEF echoVars, EchoInv, EchoTypes, ClockInv, WheelInv, LastBucket, InTime, ListInv, MaxInv, Open, Up
<1>. QED
  BY <1>1, <1>2

\* For any number of connections, any idle time and any steps of the clock: the timer of
\* idleconnection/echo shuts down no connection that was heard from within idleSeconds - 1,
\* that of sortedlist none that was heard from within idleSeconds, counting steps forward as
\* silence; while the clock is not set, the wheel leaves none that has been silent for
\* idleSeconds and the list none for a second more; and maxconnection serves no more than
\* it may (echo.cc:78, sortedlist.cc:105, maxconnection/echo.cc:37).
THEOREM IdleAreClosedInTime == EchoSpec => IdleExactly
<1>1. EchoSpec => []EchoInv
  BY EchoInitially, EchoStep, PTL DEF EchoSpec
<1>2. EchoSpec => [][IdleAreShutDown' /\ ActiveIsKept]_echoVars
  BY <1>1, EchoStep, PTL DEF EchoSpec
<1>. QED
  BY <1>2 DEF IdleExactly

-----------------------------------------------------------------------------
(***************************************************************************)
(* The buffer.  Each operator of module Buffer has a lemma that says what  *)
(* it does to the indexes and to the content; the two theorems combine     *)
(* them.  First what the provers need to know of the strings a buffer      *)
(* takes and gives.                                                        *)
(***************************************************************************)
\* A string is a function on its positions.
LEMMA StringLength ==
  ASSUME NEW s \in Seq(Bytes)
  PROVE  Len(s) \in Nat /\ s \in [1 .. Len(s) -> Bytes] /\ DOMAIN s = 1 .. Len(s)
OBVIOUS

\* Only the empty string has no bytes.
LEMMA NoBytes ==
  <<>> \in Seq(Bytes) /\ \A s \in Seq(Bytes) : (s = <<>>) <=> (Len(s) = 0)
OBVIOUS

\* Strings with the same bytes are the same.
LEMMA StringsEqual ==
  ASSUME NEW s \in Seq(Bytes), NEW r \in Seq(Bytes), Len(s) = Len(r),
         \A i \in 1 .. Len(s) : s[i] = r[i]
  PROVE  s = r
OBVIOUS

\* What append() adds is behind what was there.
LEMMA StringsJoined ==
  ASSUME NEW s \in Seq(Bytes), NEW r \in Seq(Bytes)
  PROVE  /\ s \o r \in Seq(Bytes)
         /\ Len(s \o r) = Len(s) + Len(r)
         /\ \A i \in 1 .. Len(s) + Len(r) :
              (s \o r)[i] = IF i <= Len(s) THEN s[i] ELSE r[i - Len(s)]
OBVIOUS

\* An empty string adds nothing.
LEMMA JoinedWithNothing ==
  ASSUME NEW s \in Seq(Bytes)
  PROVE  s \o <<>> = s /\ <<>> \o s = s
OBVIOUS

\* Two append() are one of both strings.
LEMMA JoiningAssociates ==
  ASSUME NEW s \in Seq(Bytes), NEW r \in Seq(Bytes), NEW v \in Seq(Bytes)
  PROVE  (s \o r) \o v = s \o (r \o v)
OBVIOUS

\* A part of a string, as retrieve() leaves it.
LEMMA PartOfString ==
  ASSUME NEW s, NEW m \in Int, NEW n \in Int, \A i \in m .. n : s[i] \in Bytes
  PROVE  /\ SubSeq(s, m, n) \in Seq(Bytes)
         /\ Len(SubSeq(s, m, n)) = IF m <= n THEN n - m + 1 ELSE 0
         /\ \A i \in 1 .. n - m + 1 : SubSeq(s, m, n)[i] = s[m + i - 1]
OBVIOUS

\* A buffer shows a sequence of its bytes, byte i at reader + i - 1.
LEMMA ContentDef ==
  ASSUME NEW x, IsBuffer(x)
  PROVE  /\ readableBytes(x) \in Nat
         /\ toStringPiece(x) \in Seq(Bytes)
         /\ Len(toStringPiece(x)) = readableBytes(x)
         /\ \A i \in 1 .. readableBytes(x) : toStringPiece(x)[i] = x.data[x.reader + i - 1]
<1>1. readableBytes(x) \in Nat /\ readableBytes(x) = x.writer - x.reader
  BY DEF readableBytes, IsBuffer
<1>2. \A i \in 1 .. readableBytes(x) : x.data[x.reader + i - 1] \in Bytes
  <2> SUFFICES ASSUME NEW i \in 1 .. readableBytes(x)
               PROVE  x.data[x.reader + i - 1] \in Bytes
    OBVIOUS
  <2>1. x.reader + i - 1 \in 0 .. x.size - 1
    BY <1>1 DEF IsBuffer
  <2> QED BY <2>1 DEF IsBuffer
<1>3. toStringPiece(x) \in [1 .. readableBytes(x) -> Bytes]
  BY <1>2 DEF toStringPiece
<1>4. toStringPiece(x) \in Seq(Bytes) /\ Len(toStringPiece(x)) = readableBytes(x)
  BY <1>1, <1>3
<1> QED BY <1>1, <1>4 DEF toStringPiece

\* Two ways to say what a buffer holds.
LEMMA ContentIs ==
  ASSUME NEW x, IsBuffer(x), NEW s \in Seq(Bytes), readableBytes(x) = Len(s),
         \A i \in 1 .. Len(s) : x.data[x.reader + i - 1] = s[i]
  PROVE  toStringPiece(x) = s
<1>1. \A i \in 1 .. Len(toStringPiece(x)) : toStringPiece(x)[i] = s[i]
  BY ZenonT(60), ContentDef
<1> QED BY ZenonT(60), <1>1, ContentDef, StringsEqual

\* std::copy into the vector.
LEMMA CopyToDef ==
  ASSUME NEW x, IsBuffer(x), NEW s \in Seq(Bytes), NEW at \in Nat, at + Len(s) <= x.size
  PROVE  /\ IsBuffer(CopyTo(x, s, at))
         /\ CopyTo(x, s, at).size = x.size
         /\ CopyTo(x, s, at).reader = x.reader
         /\ CopyTo(x, s, at).writer = x.writer
         /\ \A i \in 0 .. x.size - 1 :
              CopyTo(x, s, at).data[i] = IF at <= i /\ i < at + Len(s) THEN s[i - at + 1]
                                                                     ELSE x.data[i]
<1> DEFINE c == CopyTo(x, s, at)
           d == [i \in 0 .. x.size - 1 |->
                   IF at <= i /\ i < at + Len(s) THEN s[i - at + 1] ELSE x.data[i]]
<1>1. c.size = x.size /\ c.data = d /\ c.reader = x.reader /\ c.writer = x.writer
  BY DEF CopyTo, IsBuffer
<1>3. \A i \in 0 .. x.size - 1 : d[i] = (IF at <= i /\ i < at + Len(s) THEN s[i - at + 1] ELSE x.data[i])
  BY ZenonT(60)
<1>4. \A i \in 0 .. x.size - 1 : d[i] \in Bytes
  <2> SUFFICES ASSUME NEW i \in 0 .. x.size - 1 PROVE d[i] \in Bytes
    BY Zenon
  <2>1. CASE at <= i /\ i < at + Len(s)
    <3>1. i - at + 1 \in 1 .. Len(s)
      BY <2>1, StringLength
    <3> QED BY ZenonT(60), <2>1, <3>1, <1>3, StringLength
  <2>2. CASE ~(at <= i /\ i < at + Len(s))
    BY <2>2, <1>3 DEF IsBuffer
  <2> QED BY <2>1, <2>2
<1>5. d \in [0 .. x.size - 1 -> Bytes]
  BY Zenon, <1>4
<1> HIDE DEF d
<1>6. c \in [size : Nat, data : [0 .. x.size - 1 -> Bytes], reader : Nat, writer : Nat]
  BY ZenonT(60), <1>5 DEF IsBuffer, CopyTo, d
<1>7. IsBuffer(c)
  BY <1>1, <1>6 DEF IsBuffer
<1> QED BY ZenonT(60), <1>3, <1>1, <1>7 DEF d

\* Moving writer forward over bytes that were copied behind the content.
LEMMA WriteContent ==
  ASSUME NEW x, IsBuffer(x), NEW s \in Seq(Bytes), Len(s) <= writableBytes(x)
  PROVE  LET y == hasWritten(CopyTo(x, s, x.writer), Len(s))
         IN  IsBuffer(y) /\ toStringPiece(y) = toStringPiece(x) \o s
<1> DEFINE c == CopyTo(x, s, x.writer)
           y == hasWritten(c, Len(s))
           t == toStringPiece(x) \o s
<1>1. x.writer \in Nat /\ x.writer + Len(s) <= x.size /\ Len(s) \in Nat
  BY StringLength DEF IsBuffer, writableBytes
<1>2. /\ IsBuffer(c) /\ c.size = x.size /\ c.reader = x.reader /\ c.writer = x.writer
      /\ \A i \in 0 .. x.size - 1 :
           c.data[i] = IF x.writer <= i /\ i < x.writer + Len(s) THEN s[i - x.writer + 1]
                                                               ELSE x.data[i]
  BY Zenon, <1>1, CopyToDef
<1> HIDE DEF c
<1>3. y.size = x.size /\ y.reader = x.reader /\ y.writer = x.writer + Len(s) /\ y.data = c.data
  BY ZenonT(60), <1>2 DEF hasWritten, IsBuffer
<1>4. IsBuffer(y)
  <2>1. y \in [size : Nat, data : [0 .. c.size - 1 -> Bytes], reader : Nat, writer : Nat]
    <3>1. c \in [size : Nat, data : [0 .. c.size - 1 -> Bytes], reader : Nat, writer : Nat]
      BY <1>2 DEF IsBuffer
    <3>2. c.writer + Len(s) \in Nat
      BY <3>1, <1>1
    <3> QED BY ZenonT(60), <3>1, <3>2 DEF hasWritten
  <2> QED BY <2>1, <1>1, <1>2, <1>3 DEF IsBuffer
<1>5. /\ t \in Seq(Bytes) /\ Len(t) = readableBytes(x) + Len(s)
      /\ \A i \in 1 .. Len(t) : t[i] = IF i <= readableBytes(x) THEN toStringPiece(x)[i]
                                                              ELSE s[i - readableBytes(x)]
  <2> DEFINE u == toStringPiece(x)
  <2>1. u \in Seq(Bytes) /\ Len(u) = readableBytes(x)
    BY ContentDef
  <2> HIDE DEF u
  <2>2. /\ u \o s \in Seq(Bytes) /\ Len(u \o s) = Len(u) + Len(s)
        /\ \A i \in 1 .. Len(u) + Len(s) : (u \o s)[i] = IF i <= Len(u) THEN u[i] ELSE s[i - Len(u)]
    BY ZenonT(60), <2>1, StringsJoined
  <2> QED BY ZenonT(60), <2>1, <2>2 DEF u
<1>6. readableBytes(y) = Len(t) /\ readableBytes(x) = x.writer - x.reader
  BY <1>1, <1>3, <1>5 DEF readableBytes, IsBuffer
<1> HIDE DEF t
<1>n. x.reader \in Nat /\ x.size \in Nat /\ x.reader <= x.writer /\ Len(t) \in Nat
  BY <1>5, StringLength DEF IsBuffer
<1>7. ASSUME NEW i \in 1 .. Len(t)
      PROVE  y.data[y.reader + i - 1] = t[i]
  <2>. i \in Int /\ 1 <= i /\ i <= Len(t)
    BY ONLY SMTT(60), Z3T(60), <1>n, i \in 1 .. Len(t)
  <2>1. y.reader + i - 1 \in 0 .. x.size - 1
    BY ONLY SMTT(60), Z3T(60), <1>n, <1>1, <1>3, <1>5, <1>6, i \in Int, 1 <= i, i <= Len(t)
  <2>2. CASE i <= readableBytes(x)
    <3>1. x.reader + i - 1 < x.writer /\ i \in 1 .. readableBytes(x)
      BY ONLY SMTT(60), Z3T(60), <2>2, <1>6, <1>n, <1>1, i \in Int, 1 <= i
    <3>2. c.data[x.reader + i - 1] = x.data[x.reader + i - 1]
      BY <3>1, <2>1, <1>2, <1>3 DEF IsBuffer
    <3> QED BY ZenonT(60), <2>2, <3>1, <3>2, <1>3, <1>5, ContentDef
  <2>3. CASE i > readableBytes(x)
    <3>1. /\ x.writer <= x.reader + i - 1 /\ x.reader + i - 1 < x.writer + Len(s)
          /\ x.reader + i - 1 - x.writer + 1 = i - readableBytes(x)
      BY ONLY SMTT(60), Z3T(60), <2>3, <1>6, <1>5, <1>1, <1>n, i \in Int, 1 <= i, i <= Len(t)
    <3> DEFINE j == x.reader + i - 1
    <3>2. j \in 0 .. x.size - 1 /\ x.writer <= j /\ j < x.writer + Len(s)
      BY ZenonT(60), <3>1, <2>1, <1>3
    <3>3. c.data[j] = s[j - x.writer + 1]
      BY <3>2, <1>2
    <3>4. j - x.writer + 1 = i - readableBytes(x)
      BY ONLY SMTT(60), Z3T(60), <3>1, <1>6, <1>5, <1>1, <1>n, i \in Int DEF j
    <3>5. c.data[j] = s[i - readableBytes(x)]
      BY ZenonT(60), <3>3, <3>4
    <3> QED BY <2>3, <3>5, <1>3, <1>5, <1>6 DEF IsBuffer
  <2> QED BY <2>2, <2>3, <1>6 DEF IsBuffer
<1>8. toStringPiece(y) = t
  BY ZenonT(60), <1>4, <1>5, <1>6, <1>7, ContentIs
<1> QED BY <1>4, <1>8 DEF t, c

\* A buffer that only moved its bytes, or grew, shows the same bytes.
LEMMA GrowContent ==
  ASSUME NEW x, IsBuffer(x), NEW n \in Nat, x.size <= n
  PROVE  /\ IsBuffer(Resized(x, n)) /\ Resized(x, n).size = n
         /\ Resized(x, n).writer = x.writer
         /\ toStringPiece(Resized(x, n)) = toStringPiece(x)
<1> DEFINE y == Resized(x, n)
           d == [i \in 0 .. n - 1 |-> IF i < x.size THEN x.data[i] ELSE 0]
<1>1. y.size = n /\ y.reader = x.reader /\ y.writer = x.writer /\ y.data = d
  BY DEF Resized, IsBuffer
<1>2. d \in [0 .. n - 1 -> Bytes]
  BY QueueAssumption DEF IsBuffer
<1>3. y \in [size : Nat, data : [0 .. n - 1 -> Bytes], reader : Nat, writer : Nat]
  BY Zenon, <1>2 DEF Resized, IsBuffer
<1>5. \A i \in 0 .. x.size - 1 : d[i] = x.data[i]
  BY DEF IsBuffer
<1> HIDE DEF d, y
<1>4. IsBuffer(y)
  BY <1>1, <1>3, BufferAssumption DEF IsBuffer
<1>6. readableBytes(y) = readableBytes(x) /\ readableBytes(x) = x.writer - x.reader
  BY ZenonT(60), <1>1 DEF readableBytes
<1>7. ASSUME NEW i \in 1 .. readableBytes(x)
      PROVE  y.data[y.reader + i - 1] = toStringPiece(x)[i]
  <2>1. x.reader + i - 1 \in 0 .. x.size - 1
    BY <1>6 DEF IsBuffer
  <2> QED BY ZenonT(60), <2>1, <1>1, <1>5, ContentDef
<1>8. toStringPiece(y) = toStringPiece(x)
  BY ZenonT(60), <1>4, <1>6, <1>7, ContentDef, ContentIs
<1> QED BY <1>1, <1>4, <1>8 DEF y

LEMMA MoveContent ==
  ASSUME NEW x, IsBuffer(x), kCheapPrepend <= x.reader
  PROVE  LET y == MovedToFront(x)
         IN  /\ IsBuffer(y) /\ y.size = x.size
             /\ y.writer = kCheapPrepend + readableBytes(x)
             /\ toStringPiece(y) = toStringPiece(x)
<1> DEFINE s == toStringPiece(x)
           c == CopyTo(x, s, kCheapPrepend)
           y == MovedToFront(x)
<1>1. /\ s \in Seq(Bytes) /\ Len(s) = readableBytes(x) /\ readableBytes(x) \in Nat
      /\ readableBytes(x) = x.writer - x.reader
  BY ContentDef DEF readableBytes
<1>2. kCheapPrepend \in Nat /\ kCheapPrepend + Len(s) <= x.size
  BY <1>1, BufferAssumption DEF IsBuffer
<1> HIDE DEF s
<1>3. /\ IsBuffer(c) /\ c.size = x.size
      /\ \A i \in 0 .. x.size - 1 :
           c.data[i] = IF kCheapPrepend <= i /\ i < kCheapPrepend + Len(s)
                         THEN s[i - kCheapPrepend + 1] ELSE x.data[i]
  BY Zenon, <1>1, <1>2, CopyToDef
<1>4. y = [c EXCEPT !.reader = kCheapPrepend, !.writer = kCheapPrepend + readableBytes(x)]
  BY DEF MovedToFront, s
<1> HIDE DEF c, y
<1>5. c \in [size : Nat, data : [0 .. c.size - 1 -> Bytes], reader : Nat, writer : Nat]
  BY <1>3 DEF IsBuffer
<1>6. /\ y \in [size : Nat, data : [0 .. c.size - 1 -> Bytes], reader : Nat, writer : Nat]
      /\ y.size = c.size /\ y.data = c.data /\ y.reader = kCheapPrepend
      /\ y.writer = kCheapPrepend + readableBytes(x)
  <2>1. kCheapPrepend + readableBytes(x) \in Nat
    BY <1>1, <1>2
  <2> QED BY Zenon, <1>2, <1>4, <1>5, <2>1
<1>7. IsBuffer(y)
  BY <1>1, <1>2, <1>3, <1>6 DEF IsBuffer
<1>8. readableBytes(y) = Len(s)
  BY <1>1, <1>2, <1>6 DEF readableBytes
<1>9. ASSUME NEW i \in 1 .. Len(s)
      PROVE  y.data[y.reader + i - 1] = s[i]
  <2> DEFINE j == kCheapPrepend + i - 1
  <2>1. /\ j \in 0 .. x.size - 1 /\ kCheapPrepend <= j /\ j < kCheapPrepend + Len(s)
        /\ j - kCheapPrepend + 1 = i
    BY <1>1, <1>2 DEF IsBuffer
  <2>2. c.data[j] = s[j - kCheapPrepend + 1]
    BY ZenonT(60), <2>1, <1>3
  <2> QED BY <2>1, <2>2, <1>6
<1>10. toStringPiece(y) = s
  BY ZenonT(60), <1>1, <1>7, <1>8, <1>9, ContentIs
<1> QED BY ZenonT(60), <1>3, <1>6, <1>7, <1>10 DEF s, y

\* After ensureWritableBytes(len) there is room for len bytes (Buffer.h:211).
LEMMA EnsureContent ==
  ASSUME NEW x, IsBuffer(x), NEW len \in Nat
  PROVE  LET y == ensureWritableBytes(x, len)
         IN  /\ IsBuffer(y) /\ len <= writableBytes(y)
             /\ toStringPiece(y) = toStringPiece(x)
<1>1. CASE ~(writableBytes(x) < len)
  BY <1>1 DEF ensureWritableBytes, writableBytes, IsBuffer
<1>2. CASE writableBytes(x) < len /\ MustGrow(x, len)
  <2>1. x.size <= x.writer + len /\ x.writer + len \in Nat
    BY <1>2 DEF writableBytes, IsBuffer
  <2>2. ensureWritableBytes(x, len) = Resized(x, x.writer + len)
    BY <1>2 DEF ensureWritableBytes, makeSpace
  <2>3. /\ IsBuffer(Resized(x, x.writer + len)) /\ Resized(x, x.writer + len).size = x.writer + len
        /\ Resized(x, x.writer + len).writer = x.writer
        /\ toStringPiece(Resized(x, x.writer + len)) = toStringPiece(x)
    BY ZenonT(60), <2>1, GrowContent
  <2> QED BY <2>2, <2>3 DEF writableBytes, IsBuffer
<1>3. CASE writableBytes(x) < len /\ ~MustGrow(x, len)
  <2>1. kCheapPrepend <= x.reader
    BY <1>3, BufferAssumption DEF writableBytes, prependableBytes, MustGrow, IsBuffer
  <2>2. ensureWritableBytes(x, len) = MovedToFront(x)
    BY <1>3 DEF ensureWritableBytes, makeSpace
  <2>3. /\ IsBuffer(MovedToFront(x)) /\ MovedToFront(x).size = x.size
        /\ MovedToFront(x).writer = kCheapPrepend + readableBytes(x)
        /\ toStringPiece(MovedToFront(x)) = toStringPiece(x)
    BY <2>1, MoveContent
  <2>4. len <= x.size - (kCheapPrepend + readableBytes(x))
    BY <1>3, BufferAssumption DEF readableBytes, writableBytes, prependableBytes, MustGrow, IsBuffer
  <2> QED BY <2>2, <2>3, <2>4 DEF writableBytes
<1> QED BY ZenonT(60), <1>1, <1>2, <1>3

LEMMA NewContent ==
  /\ IsBuffer(NewBuffer(kInitialSize))
  /\ toStringPiece(NewBuffer(kInitialSize)) = <<>>
<1> DEFINE n == kCheapPrepend + kInitialSize
           x == NewBuffer(kInitialSize)
<1>1. n \in Nat /\ kCheapPrepend \in Nat /\ kCheapPrepend <= n
  BY BufferAssumption
<1>2. Zeroed(n) \in [0 .. n - 1 -> Bytes]
  BY QueueAssumption DEF Zeroed
<1>3. x = [size |-> n, data |-> Zeroed(n), reader |-> kCheapPrepend, writer |-> kCheapPrepend]
  BY DEF NewBuffer
<1> HIDE DEF n, x
<1>4. x \in [size : Nat, data : [0 .. n - 1 -> Bytes], reader : Nat, writer : Nat]
  BY <1>1, <1>2, <1>3
<1>5. x.size = n /\ x.reader = kCheapPrepend /\ x.writer = kCheapPrepend
  BY <1>3
<1>6. IsBuffer(x)
  BY <1>1, <1>4, <1>5 DEF IsBuffer
<1>7. readableBytes(x) = 0
  BY <1>1, <1>5 DEF readableBytes
<1>8. toStringPiece(x) = <<>>
  BY <1>6, <1>7, ContentDef, NoBytes
<1> QED BY <1>6, <1>8 DEF x

LEMMA AppendContent ==
  ASSUME NEW x, IsBuffer(x), NEW s \in Seq(Bytes)
  PROVE  IsBuffer(append(x, s)) /\ toStringPiece(append(x, s)) = toStringPiece(x) \o s
<1> DEFINE e == ensureWritableBytes(x, Len(s))
<1>1. IsBuffer(e) /\ Len(s) <= writableBytes(e) /\ toStringPiece(e) = toStringPiece(x)
  BY EnsureContent, StringLength
<1>2. append(x, s) = hasWritten(CopyTo(e, s, e.writer), Len(s))
  BY DEF append
<1> HIDE DEF e
<1> QED BY <1>1, <1>2, WriteContent

LEMMA RetrieveContent ==
  ASSUME NEW x, IsBuffer(x), NEW n \in Nat, n <= readableBytes(x)
  PROVE  /\ IsBuffer(retrieve(x, n))
         /\ toStringPiece(retrieve(x, n)) = SubSeq(toStringPiece(x), n + 1, readableBytes(x))
<1> DEFINE t == toStringPiece(x)
           r == readableBytes(x)
           u == SubSeq(t, n + 1, r)
           y == retrieve(x, n)
<1>1. t \in Seq(Bytes) /\ Len(t) = r /\ r \in Nat /\ r = x.writer - x.reader
  BY ContentDef DEF readableBytes
<1>2. /\ u \in Seq(Bytes) /\ Len(u) = (IF n + 1 <= r THEN r - n ELSE 0)
      /\ \A i \in 1 .. r - n : u[i] = t[n + 1 + i - 1]
  <2>1. \A i \in n + 1 .. r : t[i] \in Bytes
    BY <1>1, StringLength
  <2> HIDE DEF t, r
  <2> QED BY <1>1, <2>1, PartOfString
<1>3. x \in [size : Nat, data : [0 .. x.size - 1 -> Bytes], reader : Nat, writer : Nat]
  BY DEF IsBuffer
<1>4. CASE n < r
  <2>1. y = [x EXCEPT !.reader = x.reader + n] /\ x.reader + n \in Nat
    BY <1>3, <1>4 DEF retrieve
  <2>2. /\ y \in [size : Nat, data : [0 .. x.size - 1 -> Bytes], reader : Nat, writer : Nat]
        /\ y.size = x.size /\ y.data = x.data /\ y.writer = x.writer /\ y.reader = x.reader + n
    BY ZenonT(60), <1>3, <2>1
  <2> HIDE DEF y, u
  <2>3. IsBuffer(y) /\ readableBytes(y) = Len(u)
    BY <1>1, <1>2, <1>3, <1>4, <2>2 DEF IsBuffer, readableBytes
  <2>4. ASSUME NEW i \in 1 .. Len(u) PROVE y.data[y.reader + i - 1] = u[i]
    <3>1. n + 1 + i - 1 \in 1 .. r /\ i \in 1 .. r - n
      BY <1>1, <1>2, <1>4
    <3>2. t[n + 1 + i - 1] = x.data[x.reader + (n + 1 + i - 1) - 1]
      BY <3>1, ContentDef
    <3>3. x.reader + (n + 1 + i - 1) - 1 = y.reader + i - 1
      BY <1>3, <2>2, <1>1, <3>1
    <3> QED BY ZenonT(60), <3>1, <3>2, <3>3, <2>2, <1>2
  <2> QED BY Zenon, <1>2, <2>3, <2>4, ContentIs DEF y, u
<1>5. CASE n = r
  <2>1. y = [x EXCEPT !.reader = kCheapPrepend, !.writer = kCheapPrepend]
    BY <1>1, <1>5 DEF retrieve, retrieveAll
  <2>2. /\ y \in [size : Nat, data : [0 .. x.size - 1 -> Bytes], reader : Nat, writer : Nat]
        /\ y.size = x.size /\ y.reader = kCheapPrepend /\ y.writer = kCheapPrepend
    BY Zenon, <1>3, <2>1, BufferAssumption
  <2> HIDE DEF y, u
  <2>3. IsBuffer(y) /\ readableBytes(y) = 0
    BY <2>2, BufferAssumption DEF IsBuffer, readableBytes
  <2>4. Len(u) = 0 /\ u \in Seq(Bytes)
    BY <1>1, <1>2, <1>5
  <2>5. \A i \in 1 .. Len(u) : y.data[y.reader + i - 1] = u[i]
    BY <2>4
  <2>6. toStringPiece(y) = u
    BY Zenon, <2>3, <2>4, <2>5, ContentIs
  <2> QED BY <2>3, <2>6 DEF y, u
<1> QED BY <1>1, <1>4, <1>5

LEMMA UnwriteContent ==
  ASSUME NEW x, IsBuffer(x), NEW n \in Nat, n <= readableBytes(x)
  PROVE  /\ IsBuffer(unwrite(x, n))
         /\ toStringPiece(unwrite(x, n)) = SubSeq(toStringPiece(x), 1, readableBytes(x) - n)
<1> DEFINE t == toStringPiece(x)
           r == readableBytes(x)
           u == SubSeq(t, 1, r - n)
           y == unwrite(x, n)
<1>1. t \in Seq(Bytes) /\ Len(t) = r /\ r \in Nat /\ r = x.writer - x.reader
  BY ContentDef DEF readableBytes
<1>2. /\ u \in Seq(Bytes) /\ Len(u) = (IF 1 <= r - n THEN r - n ELSE 0)
      /\ \A i \in 1 .. r - n : u[i] = t[1 + i - 1]
  <2>1. \A i \in 1 .. r - n : t[i] \in Bytes
    BY <1>1, StringLength
  <2> HIDE DEF t, r
  <2>2. 1 \in Int /\ r - n \in Int
    BY <1>1
  <2> QED BY <1>1, <2>1, <2>2, PartOfString
<1>3. x \in [size : Nat, data : [0 .. x.size - 1 -> Bytes], reader : Nat, writer : Nat]
  BY DEF IsBuffer
<1>4. y = [x EXCEPT !.writer = x.writer - n] /\ x.writer - n \in Nat
  BY <1>1, <1>3 DEF unwrite
<1>5. /\ y \in [size : Nat, data : [0 .. x.size - 1 -> Bytes], reader : Nat, writer : Nat]
      /\ y.size = x.size /\ y.data = x.data /\ y.reader = x.reader /\ y.writer = x.writer - n
  BY ZenonT(60), <1>3, <1>4
<1> HIDE DEF y, u
<1>6. IsBuffer(y) /\ readableBytes(y) = Len(u) /\ Len(u) = r - n
  BY <1>1, <1>2, <1>3, <1>5 DEF IsBuffer, readableBytes
<1>7. ASSUME NEW i \in 1 .. Len(u) PROVE y.data[y.reader + i - 1] = u[i]
  <2>1. i \in 1 .. r /\ i \in 1 .. r - n /\ 1 + i - 1 = i
    BY <1>1, <1>6
  <2> QED BY <2>1, <1>2, <1>5, ContentDef
<1> QED BY ZenonT(60), <1>2, <1>6, <1>7, ContentIs DEF y, u

LEMMA PrependContent ==
  ASSUME NEW x, IsBuffer(x), NEW s \in Seq(Bytes), Len(s) <= prependableBytes(x)
  PROVE  IsBuffer(prepend(x, s)) /\ toStringPiece(prepend(x, s)) = s \o toStringPiece(x)
<1> DEFINE k == x.reader - Len(s)
           w == [x EXCEPT !.reader = k]
           y == CopyTo(w, s, k)
           t == toStringPiece(x)
           r == readableBytes(x)
<1>1. x \in [size : Nat, data : [0 .. x.size - 1 -> Bytes], reader : Nat, writer : Nat]
  BY DEF IsBuffer
<1>2. k \in Nat /\ k + Len(s) = x.reader /\ Len(s) \in Nat
  BY <1>1, StringLength DEF prependableBytes
<1>3. /\ w \in [size : Nat, data : [0 .. x.size - 1 -> Bytes], reader : Nat, writer : Nat]
      /\ w.size = x.size /\ w.data = x.data /\ w.reader = k /\ w.writer = x.writer
  BY Zenon, <1>1, <1>2
<1>4. prepend(x, s) = y
  BY <1>1 DEF prepend
<1> HIDE DEF k, w
<1>5. IsBuffer(w) /\ k + Len(s) <= w.size
  BY <1>1, <1>2, <1>3 DEF IsBuffer
<1>6. /\ IsBuffer(y) /\ y.size = x.size /\ y.reader = k /\ y.writer = x.writer
      /\ \A i \in 0 .. x.size - 1 :
           y.data[i] = IF k <= i /\ i < k + Len(s) THEN s[i - k + 1] ELSE x.data[i]
  BY <1>2, <1>3, <1>5, CopyToDef
<1> HIDE DEF y
<1>7. t \in Seq(Bytes) /\ Len(t) = r /\ r \in Nat /\ r = x.writer - x.reader
  BY ContentDef DEF readableBytes
<1>8. /\ s \o t \in Seq(Bytes) /\ Len(s \o t) = Len(s) + r
      /\ \A i \in 1 .. Len(s) + r : (s \o t)[i] = IF i <= Len(s) THEN s[i] ELSE t[i - Len(s)]
  <2> HIDE DEF t, r
  <2>1. /\ s \o t \in Seq(Bytes) /\ Len(s \o t) = Len(s) + Len(t)
        /\ \A i \in 1 .. Len(s) + Len(t) :
             (s \o t)[i] = IF i <= Len(s) THEN s[i] ELSE t[i - Len(s)]
    BY ONLY ZenonT(60), <1>7, s \in Seq(Bytes), StringsJoined
  <2> QED BY ONLY SMTT(60), Z3T(60), <2>1, <1>7, Zenon
<1>9. readableBytes(y) = Len(s \o t)
  BY <1>1, <1>2, <1>6, <1>7, <1>8 DEF readableBytes
<1>10. ASSUME NEW i \in 1 .. Len(s \o t) PROVE y.data[y.reader + i - 1] = (s \o t)[i]
  <2> DEFINE j == k + i - 1
  <2>1. j \in 0 .. x.size - 1 /\ i \in 1 .. Len(s) + r
    BY <1>1, <1>2, <1>7, <1>8 DEF IsBuffer
  <2>2. CASE i <= Len(s)
    <3>1. k <= j /\ j < k + Len(s) /\ j - k + 1 = i
      BY <1>2, <2>1, <2>2
    <3>2. y.data[j] = s[j - k + 1]
      BY ZenonT(60), <2>1, <3>1, <1>6
    <3> QED BY <2>1, <2>2, <3>1, <3>2, <1>6, <1>8
  <2>3. CASE i > Len(s)
    <3>1. ~(j < k + Len(s)) /\ i - Len(s) \in 1 .. r /\ j = x.reader + (i - Len(s)) - 1
      <4> HIDE DEF r
      <4>1. i \in Int /\ i > Len(s) /\ i <= Len(s) + r /\ r \in Nat
        BY <2>1, <2>3, <1>7
      <4>2. j = k + i - 1 /\ k \in Nat /\ k + Len(s) = x.reader /\ Len(s) \in Nat
        BY <1>2
      <4> HIDE DEF j
      <4> QED BY ONLY SMTT(60), Z3T(60), <4>1, <4>2
    <3>2. y.data[j] = x.data[j]
      BY ZenonT(60), <2>1, <3>1, <1>6
    <3>3. t[i - Len(s)] = x.data[x.reader + (i - Len(s)) - 1]
      BY ZenonT(60), <3>1, ContentDef
    <3> QED BY <2>1, <2>3, <3>1, <3>2, <3>3, <1>6, <1>8
  <2> QED BY <2>1, <2>2, <2>3, <1>2
<1>11. toStringPiece(y) = s \o t
  BY Zenon, <1>6, <1>8, <1>9, <1>10, ContentIs
<1> QED BY <1>4, <1>6, <1>11

\* What overflows into extrabuf is appended behind what filled the buffer.
LEMMA ReadFdContent ==
  ASSUME NEW x, IsBuffer(x), NEW s \in Seq(Bytes)
  PROVE  IsBuffer(readFd(x, s)) /\ toStringPiece(readFd(x, s)) = toStringPiece(x) \o s
<1> DEFINE fit == writableBytes(x)
           s1 == SubSeq(s, 1, fit)
           s2 == SubSeq(s, fit + 1, Len(s))
           full == [CopyTo(x, s1, x.writer) EXCEPT !.writer = x.size]
<1>1. fit \in Nat /\ fit = x.size - x.writer /\ Len(s) \in Nat
  BY StringLength DEF writableBytes, IsBuffer
<1>2. CASE Len(s) <= fit
  BY <1>2, WriteContent DEF readFd
<1>3. CASE ~(Len(s) <= fit)
  <2>1. readFd(x, s) = append(full, s2)
    BY <1>3 DEF readFd
  <2>2. /\ s1 \in Seq(Bytes) /\ Len(s1) = fit
        /\ \A i \in 1 .. fit : s1[i] = s[1 + i - 1]
    <3>1. \A i \in 1 .. fit : s[i] \in Bytes
      BY <1>1, <1>3, StringLength
    <3> HIDE DEF fit
    <3>2. /\ s1 \in Seq(Bytes) /\ Len(s1) = (IF 1 <= fit THEN fit - 1 + 1 ELSE 0)
          /\ \A i \in 1 .. fit - 1 + 1 : s1[i] = s[1 + i - 1]
      BY <3>1, <1>1, PartOfString
    <3> QED BY <3>2, <1>1
  <2>3. /\ s2 \in Seq(Bytes) /\ Len(s2) = Len(s) - fit
        /\ \A i \in 1 .. Len(s) - fit : s2[i] = s[fit + 1 + i - 1]
    <3>1. \A i \in fit + 1 .. Len(s) : s[i] \in Bytes
      BY <1>1, <1>3, StringLength
    <3> HIDE DEF fit
    <3>2. /\ s2 \in Seq(Bytes) /\ Len(s2) = (IF fit + 1 <= Len(s) THEN Len(s) - (fit + 1) + 1 ELSE 0)
          /\ \A i \in 1 .. Len(s) - (fit + 1) + 1 : s2[i] = s[fit + 1 + i - 1]
      BY <3>1, <1>1, PartOfString
    <3> QED BY <3>2, <1>1, <1>3
  <2> HIDE DEF s1, s2
  <2>4. full = hasWritten(CopyTo(x, s1, x.writer), Len(s1))
    <3>1. /\ IsBuffer(CopyTo(x, s1, x.writer)) /\ CopyTo(x, s1, x.writer).writer = x.writer
      <4>1. s1 \in Seq(Bytes) /\ x.writer \in Nat /\ x.writer + Len(s1) <= x.size
        BY <2>2, <1>1 DEF IsBuffer
      <4> QED BY ONLY SMTT(60), Z3T(60), IsBuffer(x), <4>1, CopyToDef
    <3>2. x.writer + Len(s1) = x.size
      BY <2>2, <1>1 DEF IsBuffer
    <3> QED BY <3>1, <3>2 DEF hasWritten
  <2>5. IsBuffer(full) /\ toStringPiece(full) = toStringPiece(x) \o s1
    <3>1. Len(s1) <= writableBytes(x)
      BY <2>2, <1>1
    <3>2. LET y == hasWritten(CopyTo(x, s1, x.writer), Len(s1))
          IN  IsBuffer(y) /\ toStringPiece(y) = toStringPiece(x) \o s1
      BY <2>2, <3>1, WriteContent
    <3> HIDE DEF full
    <3> QED BY <2>4, <3>2
  <2> HIDE DEF full
  <2>6. /\ IsBuffer(append(full, s2))
        /\ toStringPiece(append(full, s2)) = (toStringPiece(x) \o s1) \o s2
    BY Zenon, <2>3, <2>5, AppendContent
  <2>7. s1 \o s2 = s
    <3>1. /\ s1 \o s2 \in Seq(Bytes) /\ Len(s1 \o s2) = Len(s1) + Len(s2)
          /\ \A i \in 1 .. Len(s1) + Len(s2) :
               (s1 \o s2)[i] = IF i <= Len(s1) THEN s1[i] ELSE s2[i - Len(s1)]
      BY ONLY ZenonT(60), <2>2, <2>3, StringsJoined
    <3>2. Len(s1 \o s2) = Len(s)
      BY <3>1, <2>2, <2>3, <1>1
    <3>3. ASSUME NEW i \in 1 .. Len(s1 \o s2) PROVE (s1 \o s2)[i] = s[i]
      <4>1. CASE i <= fit
        BY <4>1, <3>1, <2>2, <2>3, <1>1
      <4>2. CASE i > fit
        <5>1. i - fit \in 1 .. Len(s) - fit /\ fit + 1 + (i - fit) - 1 = i
          BY <4>2, <3>2, <1>1
        <5>2. s2[i - fit] = s[i]
          BY <5>1, <2>3
        <5> QED BY <4>2, <5>2, <3>1, <2>2, <1>1
      <4> QED BY <4>1, <4>2, <1>1
    <3> QED BY Zenon, <3>1, <3>2, <3>3, StringsEqual
  <2>8. (toStringPiece(x) \o s1) \o s2 = toStringPiece(x) \o (s1 \o s2)
    <3> DEFINE t == toStringPiece(x)
    <3>1. t \in Seq(Bytes)
      BY ContentDef
    <3>2. s1 \in Seq(Bytes) /\ s2 \in Seq(Bytes)
      BY <2>2, <2>3
    <3> HIDE DEF t
    <3>3. (t \o s1) \o s2 = t \o (s1 \o s2)
      BY ONLY SMTT(60), Z3T(60), <3>1, <3>2, JoiningAssociates
    <3> QED BY <3>3 DEF t
  <2> QED BY <2>1, <2>6, <2>7, <2>8
<1> QED BY <1>2, <1>3

LEMMA ShrinkContent ==
  ASSUME NEW x, IsBuffer(x), NEW n \in Nat
  PROVE  IsBuffer(shrink(x, n)) /\ toStringPiece(shrink(x, n)) = toStringPiece(x)
<1> DEFINE o == NewBuffer(kInitialSize)
           len == readableBytes(x) + n
           e == ensureWritableBytes(o, len)
           t == toStringPiece(x)
<1>1. IsBuffer(o) /\ toStringPiece(o) = <<>>
  BY NewContent
<1>2. len \in Nat /\ t \in Seq(Bytes)
  BY ContentDef
<1> HIDE DEF o, len, t
<1>3. IsBuffer(e) /\ toStringPiece(e) = <<>>
  BY <1>1, <1>2, EnsureContent
<1>4. shrink(x, n) = append(e, t)
  BY DEF shrink, o, len, t
<1> HIDE DEF e
<1>5. IsBuffer(append(e, t)) /\ toStringPiece(append(e, t)) = <<>> \o t
  BY Zenon, <1>2, <1>3, AppendContent
<1>6. <<>> \o t = t
  BY ZenonT(60), <1>2, JoinedWithNothing
<1> QED BY <1>4, <1>5, <1>6 DEF t

-----------------------------------------------------------------------------
\* Every call leaves a buffer whose content is what the queue makes of the call.
LEMMA StepContent ==
  ASSUME IsBuffer(b), Next
  PROVE  IsBuffer(b') /\ Queue!Next
<1> USE DEF Queue!Next, Queue!Put, Queue!PutFront, Queue!Take, Queue!TakeBack, Queue!MakeRoom
<1>1. ASSUME NEW s \in Chunks, DoAppend(s) PROVE IsBuffer(b') /\ Queue!Next
  <2>1. s \in Seq(Bytes)
    BY QueueAssumption
  <2>2. IsBuffer(b') /\ toStringPiece(b') = toStringPiece(b) \o s
    BY <1>1, <2>1, AppendContent DEF DoAppend
  <2> QED BY <1>1, <2>2 DEF DoAppend, Call
<1>2. ASSUME NEW s \in Chunks, DoWrite(s) PROVE IsBuffer(b') /\ Queue!Next
  <2>1. s \in Seq(Bytes) /\ Len(s) <= writableBytes(b)
    BY <1>2, QueueAssumption DEF DoWrite
  <2>2. LET y == hasWritten(CopyTo(b, s, b.writer), Len(s))
        IN  IsBuffer(y) /\ toStringPiece(y) = toStringPiece(b) \o s
    BY <2>1, WriteContent
  <2>3. IsBuffer(b') /\ toStringPiece(b') = toStringPiece(b) \o s
    BY <1>2, <2>2 DEF DoWrite
  <2> QED BY <1>2, <2>3 DEF DoWrite, Call
<1>3. ASSUME NEW s \in Chunks, DoReadFd(s) PROVE IsBuffer(b') /\ Queue!Next
  <2>1. s \in Seq(Bytes)
    BY QueueAssumption
  <2>2. IsBuffer(b') /\ toStringPiece(b') = toStringPiece(b) \o s
    BY ZenonT(60), <1>3, <2>1, ReadFdContent DEF DoReadFd
  <2> QED BY <1>3, <2>2 DEF DoReadFd, Call
<1>4. ASSUME NEW s \in Chunks, DoPrepend(s) PROVE IsBuffer(b') /\ Queue!Next
  <2>1. s \in Seq(Bytes)
    BY QueueAssumption
  <2>2. IsBuffer(b') /\ toStringPiece(b') = s \o toStringPiece(b)
    BY <1>4, <2>1, PrependContent DEF DoPrepend
  <2> QED BY <1>4, <2>2 DEF DoPrepend, Call
<1>5. ASSUME NEW n \in 0 .. MaxReadable, DoRetrieve(n) PROVE IsBuffer(b') /\ Queue!Next
  <2>1. n \in Nat /\ Len(toStringPiece(b)) = readableBytes(b)
    BY QueueAssumption, ContentDef
  <2>2. IsBuffer(b') /\ toStringPiece(b') = SubSeq(toStringPiece(b), n + 1, readableBytes(b))
    BY <1>5, <2>1, RetrieveContent DEF DoRetrieve
  <2> QED BY <1>5, <2>1, <2>2 DEF DoRetrieve, Call
<1>6. ASSUME NEW n \in 0 .. MaxReadable, DoUnwrite(n) PROVE IsBuffer(b') /\ Queue!Next
  <2>1. n \in Nat /\ Len(toStringPiece(b)) = readableBytes(b)
    BY QueueAssumption, ContentDef
  <2>2. IsBuffer(b') /\ toStringPiece(b') = SubSeq(toStringPiece(b), 1, readableBytes(b) - n)
    BY <1>6, <2>1, UnwriteContent DEF DoUnwrite
  <2> QED BY <1>6, <2>1, <2>2 DEF DoUnwrite, Call
<1>7. ASSUME NEW n \in 0 .. MaxReadable, DoEnsureWritable(n) PROVE IsBuffer(b') /\ Queue!Next
  <2>1. n \in Nat
    BY QueueAssumption
  <2>2. IsBuffer(b') /\ toStringPiece(b') = toStringPiece(b)
    BY <1>7, <2>1, EnsureContent DEF DoEnsureWritable
  <2> QED BY <1>7, <2>2 DEF DoEnsureWritable, Call
<1>8. ASSUME NEW n \in 0 .. MaxReadable, DoShrink(n) PROVE IsBuffer(b') /\ Queue!Next
  <2>1. n \in Nat
    BY QueueAssumption
  <2>2. IsBuffer(b') /\ toStringPiece(b') = toStringPiece(b)
    BY <1>8, <2>1, ShrinkContent DEF DoShrink
  <2> QED BY <1>8, <2>2 DEF DoShrink, Call
<1> QED BY ZenonT(60), <1>1, <1>2, <1>3, <1>4, <1>5, <1>6, <1>7, <1>8 DEF Next

\* A buffer always has its indexes in order and moves its data only to gain room
\* (makeSpace, Buffer.h:409).
LEMMA BufferMeansInOrder ==
  ASSUME IsBuffer(b)
  PROVE  IndexesInOrder
<1> SUFFICES ASSUME NEW len \in 1 .. MaxReadable, writableBytes(b) < len, ~MustGrow(b, len)
             PROVE  kCheapPrepend < b.reader
  BY DEF IndexesInOrder
<1> QED BY BufferAssumption, QueueAssumption
        DEF MustGrow, writableBytes, prependableBytes, IsBuffer

\* For all sizes, chunks and bytes: the indexes of a Buffer stay in order and
\* the assertion of makeSpace holds, whatever calls are made.
THEOREM IndexesStayInOrder == Spec => []IndexesInOrder
<1>1. Init => IsBuffer(b)
  BY NewContent DEF Init
<1>2. IsBuffer(b) /\ [Next]_vars => IsBuffer(b)'
  <2> SUFFICES ASSUME IsBuffer(b), [Next]_vars PROVE IsBuffer(b')
    OBVIOUS
  <2>1. CASE Next
    BY <2>1, StepContent
  <2>2. CASE UNCHANGED vars
    BY <2>2 DEF vars
  <2> QED BY <2>1, <2>2
<1>3. IsBuffer(b) => IndexesInOrder
  BY BufferMeansInOrder
<1> QED BY <1>1, <1>2, <1>3, PTL DEF Spec

\* For all sizes, chunks and bytes: a Buffer implements the queue of bytes.
THEOREM BufferIsByteQueue == Spec => ImplementsByteQueue
<1>1. Init => IsBuffer(b) /\ Queue!Init
  BY NewContent DEF Init, Queue!Init, Call
<1>2. IsBuffer(b) /\ [Next]_vars => IsBuffer(b)' /\ [Queue!Next]_(Queue!vars)
  <2> SUFFICES ASSUME IsBuffer(b), [Next]_vars
               PROVE  IsBuffer(b') /\ [Queue!Next]_(Queue!vars)
    OBVIOUS
  <2>1. CASE Next
    BY <2>1, StepContent
  <2>2. CASE UNCHANGED vars
    BY <2>2 DEF vars, Queue!vars, toStringPiece, readableBytes
  <2> QED BY <2>1, <2>2
<1> QED BY <1>1, <1>2, PTL DEF Spec, ImplementsByteQueue, Queue!Spec
=============================================================================
