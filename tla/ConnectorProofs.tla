--------------------------- MODULE ConnectorProofs ---------------------------
(***************************************************************************)
(* Proofs about the connector and its client, for any delays and any       *)
(* number of calls.                                                        *)
(***************************************************************************)
EXTENDS Connector, SequenceTheorems, FiniteSetTheorems, TLAPS

(* The prover of each step that names none. *)
USE ZenonT(60)

-----------------------------------------------------------------------------
(* The queues                                                              *)

(* What queueInLoop() adds to a queue of the loop.                         *)
LEMMA Appended ==
  ASSUME NEW q \in Seq(Functors), NEW f \in Functors, NEW r, r = Append(q, f)
  PROVE  /\ r \in Seq(Functors) /\ r # <<>>
         /\ Range(r) = Range(q) \cup {f}
         /\ Once(q) /\ (f = "resetChannel" => "resetChannel" \notin Range(q)) => Once(r)
         /\ ResetFirst(q) /\ (f = "resetChannel" => "forceClose" \notin Range(q)) => ResetFirst(r)
  <1>1. /\ r \in Seq(Functors) /\ Len(r) = Len(q) + 1 /\ r[Len(q) + 1] = f
        /\ \A i \in 1 .. Len(q) : r[i] = q[i]
        /\ Len(q) \in Nat /\ DOMAIN q = 1 .. Len(q) /\ DOMAIN r = 1 .. Len(q) + 1
    BY AppendProperties, LenProperties, SMT
  <1>2. Range(r) = Range(q) \cup {f}
    BY <1>1, SMT DEF Range
  <1>3. r # <<>>
    BY <1>1, SMT
  <1>4. Once(q) /\ (f = "resetChannel" => "resetChannel" \notin Range(q)) => Once(r)
    BY <1>1, SMT DEF Once, Range
  <1>5. ResetFirst(q) /\ (f = "resetChannel" => "forceClose" \notin Range(q)) => ResetFirst(r)
    BY <1>1, SMT DEF ResetFirst, Range
  <1> QED  BY <1>1, <1>2, <1>3, <1>4, <1>5

(* What is left of a batch when its first functor is taken.                *)
LEMMA Taken ==
  ASSUME NEW q \in Seq(Functors), q # <<>>, NEW r, r = Tail(q)
  PROVE  /\ r \in Seq(Functors) /\ Head(q) \in Functors
         /\ Range(q) = {Head(q)} \cup Range(r)
         /\ Once(q) => Once(r) /\ (Head(q) = "resetChannel" => "resetChannel" \notin Range(r))
         /\ ResetFirst(q) => /\ ResetFirst(r)
                             /\ Head(q) = "forceClose" => "resetChannel" \notin Range(r)
  <1>1. /\ r \in Seq(Functors) /\ Head(q) \in Functors /\ Head(q) = q[1]
        /\ Len(q) \in Nat \ {0} /\ DOMAIN q = 1 .. Len(q) /\ DOMAIN r = 1 .. Len(q) - 1
        /\ \A i \in 1 .. Len(q) - 1 : r[i] = q[i + 1]
    BY SMTT(60), HeadTailProperties, LenProperties, EmptySeq
  <1>2. \A j \in 1 .. Len(q) : j = 1 \/ (j - 1 \in 1 .. Len(q) - 1 /\ q[j] = r[j - 1])
    BY <1>1, SMT
  <1>3. Range(q) = {Head(q)} \cup Range(r)
    <2>1. ASSUME NEW x \in Range(q) PROVE x \in {Head(q)} \cup Range(r)
      <3>1. PICK j \in 1 .. Len(q) : x = q[j]
        BY <1>1 DEF Range
      <3>2. CASE j = 1
        BY <1>1, <3>1, <3>2
      <3>3. CASE j # 1
        <4>1. j - 1 \in DOMAIN r /\ x = r[j - 1]
          BY <1>1, <1>2, <3>1, <3>3
        <4> QED  BY <4>1 DEF Range
      <3> QED  BY <3>2, <3>3
    <2>2. \A i \in 1 .. Len(q) - 1 : r[i] \in Range(q)
      BY <1>1, SMT DEF Range
    <2>3. Head(q) \in Range(q)
      BY <1>1, SMT DEF Range
    <2>4. Range(r) \subseteq Range(q)
      BY <1>1, <2>2 DEF Range
    <2> QED  BY <2>1, <2>3, <2>4
  <1>4. Once(q) => Once(r) /\ (Head(q) = "resetChannel" => "resetChannel" \notin Range(r))
    BY SMTT(60), <1>1 DEF Once, Range
  <1>5. ResetFirst(q) => /\ ResetFirst(r)
                         /\ Head(q) = "forceClose" => "resetChannel" \notin Range(r)
    BY SMTT(60), <1>1 DEF ResetFirst, Range
  <1> QED  BY <1>1, <1>3, <1>4, <1>5

(* An empty queue.                                                         *)
LEMMA NoFunctors ==
  ASSUME NEW q, q = <<>>
  PROVE  q \in Seq(Functors) /\ Range(q) = {} /\ Once(q) /\ ResetFirst(q)
  BY EmptySeq, SMT DEF Range, Once, ResetFirst

(* The functors connectDestroyed() of a queue, by their places.            *)
Places(q) == {i \in DOMAIN q : q[i] = "connectDestroyed"}

(* They are finitely many, and counted by Destroys.                        *)
LEMMA PlacesAreFinite ==
  ASSUME NEW q \in Seq(Functors)
  PROVE  IsFiniteSet(Places(q)) /\ Destroys(q) = Cardinality(Places(q)) /\ Destroys(q) \in Nat
  <1>1. Len(q) \in Nat /\ DOMAIN q = 1 .. Len(q)
    BY LenProperties
  <1>2. IsFiniteSet(1 .. Len(q))
    BY <1>1, FS_Interval, SMT
  <1>3. Places(q) \in SUBSET (1 .. Len(q))
    BY <1>1 DEF Places
  <1>4. IsFiniteSet(Places(q))
    BY <1>2, <1>3, FS_Subset
  <1>5. Destroys(q) = Cardinality(Places(q))
    BY DEF Destroys, Places
  <1> QED  BY <1>4, <1>5, FS_CardinalityType

(* queueInLoop() adds one, if it is given connectDestroyed().              *)
LEMMA DestroysAppended ==
  ASSUME NEW q \in Seq(Functors), NEW f \in Functors, NEW r, r = Append(q, f)
  PROVE  Destroys(r) = Destroys(q) + IF f = "connectDestroyed" THEN 1 ELSE 0
  <1>1. /\ r \in Seq(Functors) /\ Len(r) = Len(q) + 1 /\ r[Len(q) + 1] = f
        /\ \A i \in 1 .. Len(q) : r[i] = q[i]
        /\ Len(q) \in Nat /\ DOMAIN q = 1 .. Len(q) /\ DOMAIN r = 1 .. Len(q) + 1
    BY AppendProperties, LenProperties, SMT
  <1>2. /\ IsFiniteSet(Places(q)) /\ Destroys(q) = Cardinality(Places(q)) /\ Destroys(q) \in Nat
        /\ Destroys(r) = Cardinality(Places(r))
    BY <1>1, PlacesAreFinite
  <1>3. CASE f = "connectDestroyed"
    <2>1. Places(r) = Places(q) \cup {Len(q) + 1} /\ Len(q) + 1 \notin Places(q)
      BY <1>1, <1>3, SMT DEF Places
    <2>2. Cardinality(Places(r)) = Cardinality(Places(q)) + 1
      BY <1>2, <2>1, FS_AddElement
    <2> QED  BY <1>2, <1>3, <2>2, SMT
  <1>4. CASE f # "connectDestroyed"
    <2>1. Places(r) = Places(q)
      BY <1>1, <1>4, SMT DEF Places
    <2> QED  BY <1>2, <1>4, <2>1, SMT
  <1> QED  BY <1>3, <1>4

(* The loop takes one off the batch, if connectDestroyed() is first.       *)
LEMMA DestroysTaken ==
  ASSUME NEW q \in Seq(Functors), q # <<>>, NEW r, r = Tail(q)
  PROVE  Destroys(q) = Destroys(r) + IF Head(q) = "connectDestroyed" THEN 1 ELSE 0
  <1>1. /\ r \in Seq(Functors) /\ Head(q) \in Functors /\ Head(q) = q[1]
        /\ Len(q) \in Nat \ {0} /\ DOMAIN q = 1 .. Len(q) /\ DOMAIN r = 1 .. Len(q) - 1
        /\ \A i \in 1 .. Len(q) - 1 : r[i] = q[i + 1]
    BY HeadTailProperties, LenProperties, EmptySeq, SMT
  <1>2. /\ IsFiniteSet(Places(q)) /\ Destroys(q) = Cardinality(Places(q)) /\ Destroys(q) \in Nat
        /\ IsFiniteSet(Places(r)) /\ Destroys(r) = Cardinality(Places(r)) /\ Destroys(r) \in Nat
    BY <1>1, PlacesAreFinite
  <1> DEFINE S == Places(r)
             T == Places(q) \ {1}
             f == [i \in S |-> i + 1]
  <1>3. Cardinality(T) = Cardinality(S)
    <2>1. \A i \in S : i \in Int /\ i + 1 \in T
      BY <1>1, SMT DEF Places
    <2>2. \A j \in T : j - 1 \in S /\ (j - 1) + 1 = j
      <3> SUFFICES ASSUME NEW j \in T PROVE j - 1 \in S /\ (j - 1) + 1 = j
        OBVIOUS
      <3>1. j \in 1 .. Len(q) /\ j # 1 /\ q[j] = "connectDestroyed"
        BY <1>1 DEF Places
      <3>2. j - 1 \in 1 .. Len(q) - 1 /\ (j - 1) + 1 = j
        BY <1>1, <3>1, SMT
      <3> QED  BY <1>1, <3>1, <3>2 DEF Places
    <2> HIDE DEF S, T
    <2>3. f \in [S -> T]
      BY <2>1
    <2>4. \A i, j \in S : f[i] = f[j] => i = j
      BY <2>1, SMT
    <2>5. \A j \in T : \E i \in S : f[i] = j
      BY <2>2
    <2>6. f \in Bijection(S, T)
      BY <2>3, <2>4, <2>5 DEF Bijection, Injection, Surjection, IsInjective
    <2>7. ExistsBijection(S, T)
      BY <2>6 DEF ExistsBijection
    <2>8. IsFiniteSet(S)
      BY <1>2 DEF S
    <2> QED  BY <2>7, <2>8, FS_Bijection
  <1>4. CASE Head(q) = "connectDestroyed"
    <2>1. 1 \in Places(q)
      BY <1>1, <1>4, SMT DEF Places
    <2>2. Cardinality(T) = Cardinality(Places(q)) - 1
      BY <1>2, <2>1, FS_RemoveElement
    <2> HIDE DEF S, T
    <2> QED  BY SMTT(60), <1>2, <1>3, <1>4, <2>2 DEF S
  <1>5. CASE Head(q) # "connectDestroyed"
    <2>1. 1 \notin Places(q)
      BY <1>1, <1>5 DEF Places
    <2>2. T = Places(q)
      BY <2>1
    <2> HIDE DEF S, T
    <2> QED  BY <1>2, <1>3, <1>5, <2>2, SMT DEF S
  <1> QED  BY <1>4, <1>5

(* An empty queue has none.                                                *)
LEMMA NoneDestroyed ==
  ASSUME NEW q, q = <<>>
  PROVE  Destroys(q) = 0
  <1>1. {i \in DOMAIN q : q[i] = "connectDestroyed"} = {}
    BY SMT
  <1> QED  BY <1>1, FS_EmptySet DEF Destroys

-----------------------------------------------------------------------------
(* The connector                                                           *)

(* retryDelayMs_ stays between its two constants when it is doubled.       *)
LEMMA DelayInRange ==
  ASSUME NEW d \in kInitRetryDelayMs .. kMaxRetryDelayMs
  PROVE  NextDelay(d) \in kInitRetryDelayMs .. kMaxRetryDelayMs
  BY DelayAssumption, SMT DEF NextDelay

(* retry() of an attempt that has ended: a new timer, or none.             *)
LEMMA RetryOnce ==
  ASSUME NEW c \in Connectors, c.timers = 0, NEW r, r = Retried(c)
  PROVE  /\ r \in Connectors /\ r.connect = c.connect /\ r.channel = c.channel
         /\ r.state = "kDisconnected"
         /\ r.timers = IF c.connect THEN 1 ELSE 0
         /\ c.connect => r.fresh
  <1>1. CASE c.connect
    <2>1. NextDelay(c.delay) \in kInitRetryDelayMs .. kMaxRetryDelayMs
      BY DelayInRange, SMT DEF Connectors
    <2>2. r = [c EXCEPT !.state = "kDisconnected", !.timers = @ + 1, !.fresh = TRUE,
                        !.delay = NextDelay(c.delay)]
      BY <1>1 DEF Retried, RetriesWhen
    <2>3. c.timers + 1 \in 0 .. 1
      BY SMT
    <2>4. r \in Connectors
      BY <2>1, <2>2, <2>3 DEF Connectors
    <2>5. /\ r.connect = c.connect /\ r.channel = c.channel /\ r.state = "kDisconnected"
          /\ r.timers = 1 /\ r.fresh
      BY <2>2, SMT DEF Connectors
    <2> QED  BY <1>1, <2>4, <2>5
  <1>2. CASE ~c.connect
    <2>1. r = [c EXCEPT !.state = "kDisconnected"]
      BY <1>2 DEF Retried, RetriesWhen
    <2>2. r \in Connectors
      BY <2>1 DEF Connectors
    <2>3. /\ r.connect = c.connect /\ r.channel = c.channel /\ r.state = "kDisconnected"
          /\ r.timers = 0
      BY <2>1, SMT DEF Connectors
    <2> QED  BY <1>2, <2>2, <2>3
  <1> QED  BY <1>1, <1>2

(* removeAndResetChannel(): nothing but the channel is changed.            *)
LEMMA UnwatchedFields ==
  ASSUME NEW c \in Connectors, NEW r, r = Unwatched(c)
  PROVE  /\ r \in Connectors /\ r.channel = "removed" /\ r.connect = c.connect
         /\ r.state = c.state /\ r.timers = c.timers
  <1>1. r \in Connectors
    BY DEF Unwatched, Connectors
  <1> QED  BY <1>1, SMT DEF Unwatched, Connectors

(* restart(): the connector is at rest and to connect.                     *)
LEMMA RestartedFields ==
  ASSUME NEW c \in Connectors, NEW r, r = Restarted(c)
  PROVE  /\ r \in Connectors /\ r.state = "kDisconnected" /\ r.connect
         /\ r.channel = c.channel /\ r.timers = c.timers
  <1>1. kInitRetryDelayMs \in kInitRetryDelayMs .. kMaxRetryDelayMs
    BY DelayAssumption, SMT
  <1>2. r \in Connectors
    BY <1>1 DEF Restarted, Connectors
  <1>3. r.connect
    BY SMT DEF Restarted, Connectors
  <1> QED  BY <1>2, <1>3, SMT DEF Restarted, Connectors

(* startInLoop() of a connector at rest: a connect under way, a retry      *)
(* timer, or an end to it; no assertion fails.                             *)
Begins(c, r) ==
  /\ r \in Connectors /\ r.connect = c.connect
  /\ r.channel \in {"none", "watched"} /\ r.state \in {"kDisconnected", "kConnecting"}
  /\ r.state = "kConnecting" <=> r.channel = "watched"
  /\ r.timers = 1 => r.channel = "none"

(* connects() and retry() give what Begins says.                           *)
LEMMA StartsOnce ==
  ASSUME NEW c \in Connectors, c.state = "kDisconnected", c.channel = "none", c.timers = 0,
         gaveUp \in BOOLEAN, startInLoop(c)
  PROVE  /\ Begins(c, k')
         /\ ~c.connect => k'.channel = "none" /\ k'.timers = 0
         /\ failed' = failed /\ gaveUp' \in BOOLEAN /\ (gaveUp => gaveUp')
         /\ c.connect => k'.timers = 1 \/ k'.channel = "watched" \/ gaveUp'
         /\ sockets' = IF k'.channel = "watched" THEN sockets + 1 ELSE sockets
  <1> DEFINE f == failed \cup Failing(c.state = "kDisconnected", "startInLoop")
  <1>1. f = failed
    BY SMT DEF Failing
  <1>2. CASE ~c.connect
    <2>1. k' = c /\ failed' = f /\ UNCHANGED <<sockets, gaveUp>>
      BY <1>2 DEF startInLoop
    <2>2. Begins(c, k') /\ k'.channel = "none" /\ k'.timers = 0
      BY <2>1, SMT DEF Begins, Connectors
    <2> QED  BY <1>1, <1>2, <2>1, <2>2
  <1>3. CASE c.connect
    <2>1. connects(c, f)
      BY <1>3 DEF startInLoop
    <2>2. CASE /\ k' = [c EXCEPT !.state = "kConnecting", !.channel = "watched"]
               /\ failed' = f \cup Failing(c.channel = "none", "connecting")
               /\ sockets' = sockets + 1 /\ UNCHANGED gaveUp
      <3>3. k' \in Connectors
        BY <2>2 DEF Connectors
      <3>4. /\ k'.connect = c.connect /\ k'.channel = "watched" /\ k'.state = "kConnecting"
            /\ k'.timers = 0
        BY <2>2, SMT DEF Connectors
      <3>1. Begins(c, k') /\ k'.channel = "watched"
        BY <3>3, <3>4, SMT DEF Begins
      <3>2. failed' = failed
        BY <1>1, <2>2, SMT DEF Failing
      <3> QED  BY <1>3, <2>2, <3>1, <3>2
    <2>3. CASE k' = Retried(c) /\ failed' = f /\ UNCHANGED <<sockets, gaveUp>>
      <3>1. Begins(c, k') /\ k'.channel = "none" /\ k'.timers = 1
        <4>1. /\ k' \in Connectors /\ k'.connect = c.connect /\ k'.channel = "none"
              /\ k'.state = "kDisconnected" /\ k'.timers = 1
          BY <1>3, <2>3, RetryOnce
        <4> QED  BY <4>1, SMT DEF Begins
      <3> QED  BY <1>1, <1>3, <2>3, <3>1
    <2>4. CASE k' = c /\ failed' = f /\ gaveUp' = TRUE /\ UNCHANGED sockets
      <3>1. Begins(c, k') /\ k'.channel = "none"
        BY <2>4, SMT DEF Begins, Connectors
      <3> QED  BY <1>1, <1>3, <2>4, <3>1
    <2> QED  BY <2>1, <2>2, <2>3, <2>4 DEF connects
  <1> QED  BY <1>2, <1>3

-----------------------------------------------------------------------------
(* The attempts                                                            *)

(* What OneAttempt counts, said of state_: with StateInv, the attempts     *)
(* exclude each other, and none is forgotten if this holds.                *)
NotForgotten ==
  begun /\ k.connect /\ k.state # "kConnected" => k.timers = 1 \/ k.channel = "watched" \/ gaveUp

(* The count of attempts, said of state_.                                  *)
LEMMA AttemptsOfState ==
  ASSUME TypeOK, StateInv
  PROVE  AttemptsExclude <=> NotForgotten
  <1>1. k.timers \in {0, 1} /\ k.state \in {"kDisconnected", "kConnecting", "kConnected"}
    BY SMT DEF TypeOK, Connectors
  <1>2. Attempts <= 1
    BY SMTT(60), <1>1 DEF StateInv, Attempts
  <1>3. k.state # "kConnected" => (Attempts = 1 <=> k.timers = 1 \/ k.channel = "watched")
    BY <1>1, SMT DEF StateInv, Attempts
  <1> QED  BY <1>2, <1>3 DEF AttemptsExclude, NotForgotten

(* AttemptInv with NotForgotten for AttemptsExclude: the inductive         *)
(* invariant.                                                              *)
Core ==
  /\ TypeOK /\ NotForgotten /\ StateInv /\ LoopInv /\ ResetInv /\ StopInv
  /\ failed \subseteq RawFunctors

(* poll() waits for the timers that are due, unless functors are queued;   *)
(* then a fresh timer stays fresh.                                         *)
LEMMA Poll ==
  ASSUME Core, poll
  PROVE  Core'
  <1> DEFINE fresh == k.fresh /\ pending # <<>>
  <1>1. /\ k' = [k EXCEPT !.fresh = fresh] /\ phase = "poll" /\ phase' = "events"
        /\ conn' = IF conn = "none" THEN conn ELSE "up"
        /\ revents' \subseteq {"out", "err", "timer"}
        /\ revents' \cap {"out", "err"} # {} => k.channel = "watched"
        /\ "timer" \in revents' => k.timers > 0 /\ ~fresh
        /\ UNCHANGED <<client, sockets, pending, batch, holder, begun, stopped, gaveUp, failed>>
    BY SMT DEF poll, historyVars
  <1>2. k' \in Connectors
    <2>1. fresh \in BOOLEAN
      OBVIOUS
    <2> QED  BY <1>1, <2>1 DEF Core, TypeOK, Connectors
  <1>3. /\ k'.connect = k.connect /\ k'.state = k.state /\ k'.channel = k.channel
        /\ k'.timers = k.timers /\ k'.fresh = fresh /\ k.timers \in {0, 1}
    BY <1>1, SMT DEF Core, TypeOK, Connectors
  <1>10. k'.fresh <=> k.fresh /\ pending # <<>>
    BY <1>3
  <1>4. TypeOK'
    BY <1>1, <1>2 DEF Core, TypeOK
  <1>9. Range(batch) = {} /\ (pending = <<>> => Range(pending) = {})
    BY <1>1, NoFunctors DEF Core, LoopInv
  <1>5. NotForgotten' /\ StateInv'
    BY <1>1, <1>3, SMT DEF Core, NotForgotten, StateInv
  <1>6. LoopInv'
    <2>1. (phase # "functors" => batch = <<>>)' /\ (revents # {} => phase = "events")'
      BY <1>1, SMT DEF Core, LoopInv
    <2>2. ("timer" \in revents => k.timers = 1 /\ ~k.fresh)'
      BY SMTT(60), <1>1, <1>3, <1>10
    <2>3. (revents \cap {"out", "err"} # {} => k.channel = "watched" /\ "forceClose" \notin Queued)'
      BY <1>1, <1>3, <1>9, SMT DEF Core, LoopInv, StateInv, Queued
    <2>4. (phase # "events" /\ "forceClose" \in Range(pending) =>
       conn # "none" /\ "forceClose" \notin Range(batch))'
      BY SMTT(60), <1>1, <1>3, <1>9 DEF Core, LoopInv, StateInv, Queued
    <2> QED  BY <2>1, <2>2, <2>3, <2>4 DEF LoopInv
  <1>7. ResetInv'
    <2>1. (k.channel = "removed" <=> "resetChannel" \in Queued)'
      BY <1>1, <1>3, <1>9, SMT DEF Core, ResetInv, Queued
    <2>2. (Once(pending) /\ Once(batch))'
      BY <1>1, <1>3, <1>9 DEF Core, ResetInv
    <2>3. ("resetChannel" \in Range(pending) => "resetChannel" \notin Range(batch))'
      BY SMTT(60), <1>1, <1>3, <1>9 DEF Core, ResetInv
    <2>4. (k.channel = "removed" /\ k.timers = 1 => k.fresh)'
      BY SMTT(60), <1>1, <1>3, <1>9, <1>10 DEF Core, ResetInv, Queued
    <2>5. (conn = "up" => k.channel # "removed")'
      BY SMTT(60), <1>1, <1>3, <1>9 DEF Core, ResetInv, Queued
    <2>6. (conn # "none" => /\ ResetFirst(pending) /\ ResetFirst(batch)
                            /\ "resetChannel" \in Range(pending) => phase = "events")'
      BY SMTT(60), <1>1, <1>3, <1>9 DEF Core, ResetInv, Queued
    <2> QED  BY <2>1, <2>2, <2>3, <2>4, <2>5, <2>6 DEF ResetInv
  <1>8. StopInv'
    BY <1>1, <1>3, SMT DEF Core, StopInv, Queued
  <1> QED  BY <1>1, <1>4, <1>5, <1>6, <1>7, <1>8 DEF Core

(* The queues hold nothing when they are empty, and the batch is empty     *)
(* until the functors run.                                                 *)
LEMMA EmptyQueues ==
  ASSUME Core
  PROVE  /\ phase # "functors" => batch = <<>> /\ Range(batch) = {}
         /\ pending = <<>> => Range(pending) = {}
         /\ batch = <<>> => Range(batch) = {}
  BY NoFunctors DEF Core, LoopInv

(* The fields of the connector.                                            *)
LEMMA Fields ==
  ASSUME Core
  PROVE  /\ k \in Connectors /\ k.timers \in {0, 1}
         /\ k.state \in {"kDisconnected", "kConnecting", "kConnected"}
         /\ k.channel \in {"none", "watched", "removed"}
         /\ conn \in {"none", "new", "up"}
  BY SMT DEF Core, TypeOK, Connectors

(* A connect under way is the only attempt, and no functor is queued that  *)
(* would reset its channel.                                                *)
LEMMA UnderWay ==
  ASSUME Core, k.channel = "watched"
  PROVE  /\ k.state = "kConnecting" /\ k.timers = 0 /\ conn = "none" /\ begun
         /\ "resetChannel" \notin Range(pending) /\ "resetChannel" \notin Range(batch)
         /\ "timer" \notin revents
         /\ k.connect => client.alive
  <1>1. k.state = "kConnecting" /\ k.timers = 0 /\ conn = "none"
    BY Fields, SMT DEF Core, StateInv
  <1>2. "resetChannel" \notin Range(pending) /\ "resetChannel" \notin Range(batch)
    BY SMT DEF Core, ResetInv, Queued
  <1>3. "timer" \notin revents
    BY <1>1, SMT DEF Core, LoopInv
  <1>4. begun
    BY SMT DEF Core, StateInv
  <1>5. k.connect => client.alive
    BY <1>1 DEF Core, StopInv
  <1> QED  BY <1>1, <1>2, <1>3, <1>4, <1>5

(* handleEvent() ends the attempt: its descriptor is the connection's or   *)
(* is closed, and the channel is to be reset.                              *)
LEMMA HandleEvent ==
  ASSUME Core, handleEvent
  PROVE  /\ Core'
         /\ k.channel = "watched" /\ k'.channel = "removed" /\ k.state = "kConnecting"
         /\ conn = "none" /\ (conn' # "none" => k.connect)
         /\ sockets' = IF conn' = "none" THEN sockets - 1 ELSE sockets
         /\ pending' = Append(pending, "resetChannel") /\ failed' = failed
         /\ UNCHANGED <<client, batch, holder, stopped>>
  <1>1. /\ phase = "events" /\ k.channel = "watched" /\ "forceClose" \notin Queued
        /\ revents' \subseteq revents /\ revents' \cap {"out", "err"} = {}
        /\ UNCHANGED <<client, batch, phase, holder, begun, stopped, gaveUp>>
    BY SMT DEF Core, LoopInv, handleEvent, historyVars
  <1>2. /\ k.state = "kConnecting" /\ k.timers = 0 /\ conn = "none" /\ begun
        /\ "resetChannel" \notin Range(pending) /\ "resetChannel" \notin Range(batch)
        /\ "timer" \notin revents
        /\ k.connect => client.alive
    BY <1>1, UnderWay
  <1>3. /\ pending' = Append(pending, "resetChannel")
        /\ \/ /\ k' = Retried(Unwatched(k))
              /\ sockets' = sockets - 1
              /\ UNCHANGED <<conn, failed>>
           \/ /\ k' = [Unwatched(k) EXCEPT !.state = "kConnected"]
              /\ conn' = IF k.connect THEN "new" ELSE conn
              /\ sockets' = IF k.connect THEN sockets ELSE sockets - 1
              /\ failed' = failed \cup
                   IF k.connect THEN Failing(client.alive, "newConnection") ELSE {}
    BY <1>1, <1>2 DEF handleEvent, handleError, handleWrite, Queue, Reports, SocketsLeft
  <1>4. /\ k' \in Connectors /\ k'.connect = k.connect /\ k'.channel = "removed" /\ failed' = failed
        /\ \/ /\ k'.state = "kDisconnected" /\ conn' = conn
              /\ k'.timers = (IF k.connect THEN 1 ELSE 0) /\ (k.connect => k'.fresh)
           \/ /\ k'.state = "kConnected" /\ conn' = (IF k.connect THEN "new" ELSE "none")
              /\ k'.timers = 0
    <2> DEFINE u == Unwatched(k)
    <2>1. /\ u \in Connectors /\ u.channel = "removed" /\ u.connect = k.connect
          /\ u.state = k.state /\ u.timers = 0
      BY <1>2, Fields, UnwatchedFields
    <2> HIDE DEF u
    <2>2. CASE k' = Retried(u) /\ sockets' = sockets - 1 /\ UNCHANGED <<conn, failed>>
      <3>1. /\ k' \in Connectors /\ k'.connect = u.connect /\ k'.channel = u.channel
            /\ k'.state = "kDisconnected" /\ k'.timers = (IF u.connect THEN 1 ELSE 0)
            /\ u.connect => k'.fresh
        BY <2>1, <2>2, RetryOnce
      <3> QED  BY <2>1, <2>2, <3>1
    <2>3. CASE /\ k' = [u EXCEPT !.state = "kConnected"]
               /\ conn' = IF k.connect THEN "new" ELSE conn
               /\ sockets' = IF k.connect THEN sockets ELSE sockets - 1
               /\ failed' = failed \cup
                   IF k.connect THEN Failing(client.alive, "newConnection") ELSE {}
      <3>1. k' \in Connectors
        BY <2>1, <2>3 DEF Connectors
      <3>2. k'.connect = k.connect /\ k'.channel = "removed" /\ k'.state = "kConnected" /\ k'.timers = 0
        BY <2>1, <2>3, SMT DEF Connectors
      <3>3. failed' = failed
        BY <1>2, <2>3, SMT DEF Failing
      <3> QED  BY <1>2, <2>3, <3>1, <3>2, <3>3
    <2> QED  BY <1>3, <2>2, <2>3 DEF u
  <1>5. /\ pending' \in Seq(Functors) /\ Range(pending') = Range(pending) \cup {"resetChannel"}
        /\ Once(pending') /\ (conn' # "none" => ResetFirst(pending'))
    <2>1. pending \in Seq(Functors) /\ "resetChannel" \in Functors /\ Once(pending)
      BY DEF Core, TypeOK, Functors, RawFunctors, ResetInv
    <2>2. "forceClose" \notin Range(pending)
      BY <1>1 DEF Queued
    <2>3. ResetFirst(pending)
      BY <1>2 DEF ResetFirst, Range
    <2> QED  BY <1>2, <1>3, <2>1, <2>2, <2>3, Appended
  <1>6. batch = <<>> /\ Range(batch) = {} /\ ResetFirst(batch)
    BY <1>1, EmptyQueues, NoFunctors
  <1>7. TypeOK'
    BY <1>1, <1>2, <1>4, <1>5 DEF Core, TypeOK
  <1>8. NotForgotten' /\ StateInv'
    BY SMTT(60), <1>1, <1>2, <1>4 DEF Core, NotForgotten, StateInv
  <1>9. LoopInv'
    BY SMTT(60), <1>1, <1>2, <1>4, <1>5, <1>6 DEF Core, LoopInv, Queued
  <1>10. ResetInv'
    BY SMTT(60), <1>1, <1>2, <1>4, <1>5, <1>6 DEF Core, ResetInv, Queued
  <1>11. StopInv'
    BY SMTT(60), <1>1, <1>2, <1>4, <1>5, <1>6 DEF Core, StopInv, Queued
  <1>12. /\ conn' # "none" => k.connect
         /\ sockets' = IF conn' = "none" THEN sockets - 1 ELSE sockets
    <2>1. CASE k.connect
      BY SMTT(60), <1>2, <1>3, <2>1
    <2>2. CASE ~k.connect
      BY SMTT(60), <1>2, <1>3, <2>2
    <2> QED  BY <2>1, <2>2
  <1> QED  BY <1>1, <1>2, <1>3, <1>4, <1>7, <1>8, <1>9, <1>10, <1>11, <1>12 DEF Core

(* The fields of the client, when it is to connect or not to, and when it  *)
(* is destructed.                                                          *)
LEMMA ClientConnects ==
  ASSUME NEW c \in Clients, NEW b \in BOOLEAN, NEW r, r = [c EXCEPT !.connect = b]
  PROVE  r \in Clients /\ r.alive = c.alive /\ r.connect = b
  BY DEF Clients

(* The fields of a client that is destructed.                              *)
LEMMA ClientDestructs ==
  ASSUME NEW c \in Clients, NEW r, r = [c EXCEPT !.alive = FALSE]
  PROVE  r \in Clients /\ ~r.alive
  BY DEF Clients

(* timerFires() finds the connector at rest, and begins the next attempt.  *)
LEMMA TimerFires ==
  ASSUME Core, timerFires
  PROVE  /\ Core'
         /\ k.channel = "none" /\ k.state = "kDisconnected" /\ (k'.channel = "watched" => k.connect)
         /\ sockets' = IF k'.channel = "watched" THEN sockets + 1 ELSE sockets
         /\ failed' = failed /\ UNCHANGED <<client, conn, pending, batch, holder, stopped>>
  <1> DEFINE c == [k EXCEPT !.timers = @ - 1]
  <1>1. /\ phase = "events" /\ "timer" \in revents /\ revents' = revents \ {"timer"}
        /\ startInLoop(c)
        /\ UNCHANGED <<client, conn, pending, batch, phase, holder, begun, stopped>>
    BY DEF timerFires, historyVars
  <1>2. /\ k.timers = 1 /\ k.state = "kDisconnected" /\ k.channel = "none" /\ conn = "none" /\ begun
        /\ revents \cap {"out", "err"} = {}
    <2>1. k.timers = 1 /\ ~k.fresh
      BY <1>1 DEF Core, LoopInv
    <2>2. k.state = "kDisconnected" /\ conn = "none" /\ begun /\ k.channel # "watched"
      BY SMTT(60), <2>1 DEF Core, StateInv
    <2>3. k.channel # "removed"
      BY <2>1 DEF Core, ResetInv
    <2>4. revents \cap {"out", "err"} = {}
      BY <2>2 DEF Core, LoopInv
    <2> QED  BY <2>1, <2>2, <2>3, <2>4, Fields
  <1>3. /\ c \in Connectors /\ c.connect = k.connect /\ c.state = "kDisconnected"
        /\ c.channel = "none" /\ c.timers = 0
    <2>1. k.timers - 1 \in 0 .. 1
      BY <1>2, SMT
    <2>2. c \in Connectors
      BY <2>1, Fields DEF Connectors
    <2> QED  BY SMTT(60), <1>2, <2>2, Fields DEF Connectors
  <1> HIDE DEF c
  <1>4. /\ Begins(c, k') /\ (~c.connect => k'.channel = "none" /\ k'.timers = 0)
        /\ failed' = failed /\ gaveUp' \in BOOLEAN /\ (gaveUp => gaveUp')
        /\ c.connect => k'.timers = 1 \/ k'.channel = "watched" \/ gaveUp'
        /\ sockets' = IF k'.channel = "watched" THEN sockets + 1 ELSE sockets
    <2>1. gaveUp \in BOOLEAN
      BY DEF Core, TypeOK
    <2> QED  BY <1>1, <1>3, <2>1, StartsOnce
  <1>5. /\ k' \in Connectors /\ k'.connect = k.connect
        /\ k'.channel \in {"none", "watched"} /\ k'.state \in {"kDisconnected", "kConnecting"}
        /\ k'.state = "kConnecting" <=> k'.channel = "watched"
        /\ k'.timers = 1 => k'.channel = "none"
    BY <1>3, <1>4 DEF Begins
  <1>6. revents' = {}
    BY SMTT(60), <1>1, <1>2 DEF Core, TypeOK
  <1>7. TypeOK'
    BY <1>1, <1>4, <1>5, <1>6 DEF Core, TypeOK
  <1>8. NotForgotten' /\ StateInv'
    BY SMTT(60), <1>1, <1>2, <1>3, <1>4, <1>5 DEF Core, NotForgotten, StateInv
  <1>9. LoopInv'
    BY SMTT(60), <1>1, <1>5, <1>6 DEF Core, LoopInv, Queued
  <1>10. ResetInv'
    BY SMTT(60), <1>1, <1>2, <1>5 DEF Core, ResetInv, Queued
  <1>11. StopInv'
    BY SMTT(60), <1>1, <1>2, <1>3, <1>4, <1>5 DEF Core, StopInv, Queued
  <1>12. k'.channel = "watched" => k.connect
    BY <1>3, <1>4
  <1> QED  BY <1>1, <1>2, <1>4, <1>7, <1>8, <1>9, <1>10, <1>11, <1>12 DEF Core

(* connect() of the client, once.                                          *)
LEMMA Connect ==
  ASSUME Core, connect
  PROVE  /\ Core'
         /\ k.channel = "none" /\ ~stopped
         /\ sockets' = IF k'.channel = "watched" THEN sockets + 1 ELSE sockets
         /\ client'.alive /\ failed' = failed /\ UNCHANGED <<conn, pending, batch>>
  <1> DEFINE c == [k EXCEPT !.connect = TRUE]
  <1>1. /\ client.alive /\ ~begun /\ begun' = TRUE /\ client' = [client EXCEPT !.connect = TRUE]
        /\ startInLoop(c)
        /\ UNCHANGED <<conn, pending, batch, phase, revents, holder, stopped>>
    BY DEF connect, UserHere, loopVars
  <1>2. /\ k.state = "kDisconnected" /\ k.channel = "none" /\ k.timers = 0 /\ conn = "none"
        /\ ~stopped /\ revents = {}
    <2>1. k.state = "kDisconnected" /\ k.channel = "none" /\ k.timers = 0 /\ conn = "none"
      BY <1>1, SMT DEF Core, StateInv
    <2>2. ~stopped
      BY <1>1 DEF Core, StopInv
    <2>3. revents = {}
      BY <2>1, SMT DEF Core, LoopInv, TypeOK
    <2> QED  BY <2>1, <2>2, <2>3
  <1>3. /\ c \in Connectors /\ c.connect /\ c.state = "kDisconnected"
        /\ c.channel = "none" /\ c.timers = 0
    <2>1. c \in Connectors
      BY Fields DEF Connectors
    <2>2. c.connect
      BY Fields, SMT DEF Connectors
    <2> QED  BY SMTT(60), <1>2, <2>1, <2>2, Fields DEF Connectors
  <1> HIDE DEF c
  <1>4. /\ Begins(c, k')
        /\ failed' = failed /\ gaveUp' \in BOOLEAN
        /\ k'.timers = 1 \/ k'.channel = "watched" \/ gaveUp'
        /\ sockets' = IF k'.channel = "watched" THEN sockets + 1 ELSE sockets
    <2>1. gaveUp \in BOOLEAN
      BY DEF Core, TypeOK
    <2> QED  BY <1>1, <1>3, <2>1, StartsOnce
  <1>5. /\ k' \in Connectors /\ k'.connect
        /\ k'.channel \in {"none", "watched"} /\ k'.state \in {"kDisconnected", "kConnecting"}
        /\ k'.state = "kConnecting" <=> k'.channel = "watched"
        /\ k'.timers = 1 => k'.channel = "none"
    BY <1>3, <1>4 DEF Begins
  <1>6. client' \in Clients /\ client'.alive
    BY <1>1, ClientConnects DEF Core, TypeOK
  <1>7. TypeOK'
    BY <1>1, <1>4, <1>5, <1>6 DEF Core, TypeOK
  <1>8. NotForgotten' /\ StateInv'
    BY SMTT(60), <1>1, <1>2, <1>4, <1>5 DEF NotForgotten, StateInv
  <1>9. LoopInv'
    BY SMTT(60), <1>1, <1>2, <1>5 DEF Core, LoopInv, Queued
  <1>10. ResetInv'
    BY SMTT(60), <1>1, <1>2, <1>5 DEF Core, ResetInv, Queued
  <1>11. StopInv'
    BY <1>1, <1>2, <1>6 DEF StopInv
  <1> QED  BY <1>1, <1>2, <1>4, <1>6, <1>7, <1>8, <1>9, <1>10, <1>11 DEF Core

(* The connection closes: the connector begins to connect again, or stays  *)
(* as it is.                                                               *)
Reconnected ==
  /\ k' \in Connectors /\ k'.channel \in {"none", "watched"}
  /\ k'.state = "kConnecting" <=> k'.channel = "watched"
  /\ k'.timers = 1 => k'.state = "kDisconnected"
  /\ \/ UNCHANGED <<k, gaveUp>>
     \/ /\ client.alive /\ client.connect /\ k'.state # "kConnected"
        /\ k'.timers = 1 \/ k'.channel = "watched" \/ gaveUp'
  /\ failed' = failed /\ gaveUp' \in BOOLEAN

(* connectionCloses() of a connector whose channel was reset.              *)
LEMMA ConnectionCloses ==
  ASSUME Core, conn # "none", k.channel # "removed", connectionCloses
  PROVE  /\ conn' = "none" /\ pending' = Append(pending, "connectDestroyed") /\ Reconnected
         /\ sockets' = IF k'.channel = "watched" THEN sockets + 1 ELSE sockets
  <1>1. /\ k.state = "kConnected" /\ k.channel = "none" /\ k.timers = 0
        /\ gaveUp \in BOOLEAN
    <2>1. k.state = "kConnected" /\ k.channel = "none" /\ k.timers = 0
      BY Fields, SMT DEF Core, StateInv
    <2> QED  BY <2>1 DEF Core, TypeOK
  <1>2. conn' = "none" /\ pending' = Append(pending, "connectDestroyed")
    BY DEF connectionCloses, Queue
  <1>3. CASE client.alive /\ Reconnects
    <2> DEFINE c == Restarted(k)
    <2>1. startInLoop(c)
      BY <1>3 DEF connectionCloses
    <2>2. /\ c \in Connectors /\ c.state = "kDisconnected" /\ c.connect /\ c.channel = "none"
          /\ c.timers = 0
      BY <1>1, Fields, RestartedFields
    <2> HIDE DEF c
    <2>3. /\ Begins(c, k')
          /\ failed' = failed /\ gaveUp' \in BOOLEAN
          /\ k'.timers = 1 \/ k'.channel = "watched" \/ gaveUp'
          /\ sockets' = IF k'.channel = "watched" THEN sockets + 1 ELSE sockets
      BY <1>1, <2>1, <2>2, StartsOnce
    <2>4. /\ k' \in Connectors /\ k'.channel \in {"none", "watched"} /\ k'.state # "kConnected"
          /\ k'.state = "kConnecting" <=> k'.channel = "watched"
          /\ k'.timers = 1 => k'.state = "kDisconnected"
      BY <2>3, SMT DEF Begins
    <2>5. client.connect
      BY <1>3 DEF Reconnects
    <2> QED  BY <1>2, <1>3, <2>3, <2>4, <2>5 DEF Reconnected
  <1>4. CASE ~(client.alive /\ Reconnects)
    <2>1. UNCHANGED <<k, sockets, gaveUp, failed>>
      BY <1>4 DEF connectionCloses
    <2>2. /\ k' \in Connectors /\ k'.channel \in {"none", "watched"}
          /\ k'.state = "kConnecting" <=> k'.channel = "watched"
          /\ k'.timers = 1 => k'.state = "kDisconnected"
          /\ k'.channel # "watched"
      BY <1>1, <2>1, Fields, SMT
    <2> QED  BY <1>1, <1>2, <2>1, <2>2 DEF Reconnected
  <1> QED  BY <1>3, <1>4

(* What a step that closes the connection does for its descriptor.         *)
ConnectionEnds ==
  /\ k.channel # "watched" /\ conn # "none" /\ conn' = "none"
  /\ k'.channel = "watched" => ~stopped
  /\ sockets' = IF k'.channel = "watched" THEN sockets + 1 ELSE sockets
  /\ pending' = Append(pending, "connectDestroyed")
  /\ failed' = failed /\ UNCHANGED <<client, holder, stopped>>

(* What Reconnected means for the attempts and for stop().                  *)
LEMMA ReconnectedInv ==
  ASSUME Core, conn # "none", conn' = "none", Reconnected,
         UNCHANGED <<client, begun, stopped>>
  PROVE  /\ NotForgotten' /\ StateInv' /\ (k'.channel = "watched" => client.alive /\ ~stopped)
         /\ (stopped => ~k'.connect \/ (~client.alive /\ k'.state = "kConnected"))
  <1>1. k.state = "kConnected" /\ begun
    BY SMT DEF Core, StateInv
  <1>2. CASE UNCHANGED <<k, gaveUp>>
    <2>1. NotForgotten' /\ StateInv' /\ k'.channel # "watched"
      BY <1>1, <1>2, SMT DEF Core, StateInv, NotForgotten
    <2> QED  BY <1>2, <2>1 DEF Core, StopInv
  <1>3. CASE /\ client.alive /\ client.connect /\ k'.state # "kConnected"
             /\ k'.timers = 1 \/ k'.channel = "watched" \/ gaveUp'
    <2>1. ~stopped
      BY <1>3 DEF Core, StopInv
    <2>2. NotForgotten'
      BY <1>3 DEF NotForgotten
    <2>3. StateInv'
      BY <1>1, SMT DEF StateInv, Reconnected
    <2> QED  BY <1>3, <2>1, <2>2, <2>3
  <1> QED  BY <1>2, <1>3 DEF Reconnected

(* The peer closes the connection.                                         *)
LEMMA PeerCloses ==
  ASSUME Core, peerCloses
  PROVE  Core' /\ ConnectionEnds /\ UNCHANGED batch
  <1>1. /\ phase = "events" /\ conn = "up" /\ connectionCloses
        /\ UNCHANGED <<client, batch, phase, revents, holder, begun, stopped>>
    BY DEF peerCloses, historyVars
  <1>2. k.channel # "removed" /\ k.channel # "watched" /\ k.timers = 0
    BY <1>1, Fields, SMT DEF Core, ResetInv, StateInv
  <1>3. /\ conn' = "none" /\ pending' = Append(pending, "connectDestroyed") /\ Reconnected
        /\ sockets' = IF k'.channel = "watched" THEN sockets + 1 ELSE sockets
    BY <1>1, <1>2, ConnectionCloses
  <1>4. /\ NotForgotten' /\ StateInv' /\ (k'.channel = "watched" => client.alive /\ ~stopped)
        /\ stopped => ~k'.connect \/ (~client.alive /\ k'.state = "kConnected")
    BY <1>1, <1>3, ReconnectedInv
  <1>5. revents = {}
    BY <1>2, SMT DEF Core, LoopInv, TypeOK
  <1>6. /\ pending' \in Seq(Functors) /\ Range(pending') = Range(pending) \cup {"connectDestroyed"}
        /\ Once(pending')
    <2>1. pending \in Seq(Functors) /\ "connectDestroyed" \in Functors /\ Once(pending)
      BY DEF Core, TypeOK, Functors, RawFunctors, ResetInv
    <2> QED  BY <1>3, <2>1, Appended
  <1>7. TypeOK'
    BY <1>1, <1>3, <1>6 DEF Core, TypeOK, Reconnected
  <1>9. LoopInv'
    BY SMTT(60), <1>1, <1>5, <1>6 DEF Core, LoopInv, Queued
  <1>10. ResetInv'
    BY SMTT(60), <1>1, <1>2, <1>3, <1>6 DEF Core, ResetInv, Queued, Reconnected
  <1>11. StopInv'
    BY SMTT(60), <1>1, <1>4, <1>6 DEF Core, StopInv, Queued
  <1>12. failed' \subseteq RawFunctors
    BY <1>3 DEF Core, Reconnected
  <1>13. ConnectionEnds
    BY <1>1, <1>2, <1>3, <1>4 DEF ConnectionEnds, Reconnected
  <1> QED  BY <1>1, <1>4, <1>7, <1>9, <1>10, <1>11, <1>12, <1>13 DEF Core

(* runFunctor() takes the first functor of the batch.                      *)
LEMMA FunctorTaken ==
  ASSUME Core, runFunctor
  PROVE  /\ phase = "functors" /\ revents = {} /\ batch # <<>> /\ batch' = Tail(batch)
         /\ batch' \in Seq(Functors) /\ Range(batch) = {Head(batch)} \cup Range(batch')
         /\ Once(batch') /\ (Head(batch) = "resetChannel" => "resetChannel" \notin Range(batch'))
         /\ conn # "none" => /\ ResetFirst(batch')
                             /\ Head(batch) = "forceClose" => "resetChannel" \notin Range(batch')
         /\ UNCHANGED <<client, phase, revents, holder, begun, stopped>>
  <1>1. /\ phase = "functors" /\ batch # <<>> /\ batch' = Tail(batch)
        /\ UNCHANGED <<client, phase, revents, holder, begun, stopped>>
    BY DEF runFunctor, historyVars
  <1>2. revents = {}
    BY <1>1 DEF Core, LoopInv
  <1>3. batch \in Seq(Functors) /\ Once(batch) /\ (conn # "none" => ResetFirst(batch))
    BY DEF Core, TypeOK, ResetInv
  <1> QED  BY <1>1, <1>2, <1>3, Taken

(* stopInLoop() ends the connect that is under way.                        *)
LEMMA RunStopInLoop ==
  ASSUME Core, runFunctor, Head(batch) = "stopInLoop", stopInLoop,
         failed' = failed \cup Failing(ConnectorAlive, "stopInLoop"), UNCHANGED <<conn, gaveUp>>
  PROVE  /\ Core'
         /\ \/ /\ k.channel = "watched" /\ k'.channel = "removed" /\ sockets' = sockets - 1
               /\ pending' = Append(pending, "resetChannel")
            \/ UNCHANGED <<k, sockets, pending>>
  <1>1. /\ phase = "functors" /\ revents = {} /\ batch # <<>> /\ batch' = Tail(batch)
        /\ batch' \in Seq(Functors) /\ Range(batch) = {"stopInLoop"} \cup Range(batch')
        /\ Once(batch') /\ (conn # "none" => ResetFirst(batch'))
        /\ UNCHANGED <<client, phase, revents, holder, begun, stopped>>
    BY FunctorTaken
  <1>2. failed' \subseteq RawFunctors
    BY SMT DEF Core, RawFunctors, Failing
  <1>3. CASE k.state = "kConnecting"
    <2>1. k.channel = "watched"
      BY <1>3 DEF Core, StateInv
    <2>2. /\ k.timers = 0 /\ conn = "none" /\ begun
          /\ "resetChannel" \notin Range(pending) /\ "resetChannel" \notin Range(batch)
      BY <2>1, UnderWay
    <2> DEFINE d == [k EXCEPT !.state = "kDisconnected"]
               u == Unwatched(d)
    <2>3. k' = Retried(u) /\ pending' = Append(pending, "resetChannel") /\ sockets' = sockets - 1
      BY <1>3 DEF stopInLoop, StopsWhen, Queue
    <2>4. d \in Connectors /\ d.connect = k.connect /\ d.timers = 0
      <3>1. d \in Connectors
        BY Fields DEF Connectors
      <3> QED  BY SMTT(60), <2>2, <3>1, Fields DEF Connectors
    <2> HIDE DEF d
    <2>5. u \in Connectors /\ u.connect = k.connect /\ u.channel = "removed" /\ u.timers = 0
      BY <2>4, UnwatchedFields
    <2> HIDE DEF u
    <2>6. /\ k' \in Connectors /\ k'.connect = k.connect /\ k'.channel = "removed"
          /\ k'.state = "kDisconnected" /\ k'.timers = (IF k.connect THEN 1 ELSE 0)
          /\ k.connect => k'.fresh
      BY <2>3, <2>5, RetryOnce
    <2>7. /\ pending' \in Seq(Functors) /\ Range(pending') = Range(pending) \cup {"resetChannel"}
          /\ Once(pending')
      <3>1. pending \in Seq(Functors) /\ "resetChannel" \in Functors /\ Once(pending)
        BY DEF Core, TypeOK, Functors, RawFunctors, ResetInv
      <3> QED  BY <2>2, <2>3, <3>1, Appended
    <2>8. TypeOK'
      BY <1>1, <2>6, <2>7 DEF Core, TypeOK
    <2>9. NotForgotten' /\ StateInv'
      BY <1>1, <2>2, <2>6, SMT DEF Core, NotForgotten, StateInv
    <2>10. LoopInv'
      BY <1>1, <2>7, SMT DEF Core, LoopInv, Queued
    <2>11. ResetInv'
      BY SMTT(60), <1>1, <2>2, <2>6, <2>7 DEF Core, ResetInv, Queued
    <2>12. StopInv'
      <3>1. k'.channel # "watched" /\ k.state # "kConnected"
        BY <1>3, <2>6
      <3> QED  BY <1>1, <2>6, <3>1 DEF Core, StopInv
    <2> QED  BY <1>2, <2>1, <2>3, <2>6, <2>8, <2>9, <2>10, <2>11, <2>12 DEF Core
  <1>4. CASE k.state # "kConnecting"
    <2>1. UNCHANGED <<k, sockets, pending>>
      BY <1>4 DEF stopInLoop, StopsWhen
    <2>2. k.channel # "watched"
      BY <1>4 DEF Core, StateInv
    <2>3. TypeOK'
      BY <1>1, <2>1 DEF Core, TypeOK
    <2>4. NotForgotten' /\ StateInv'
      BY <1>1, <2>1 DEF Core, NotForgotten, StateInv
    <2>5. LoopInv'
      BY SMTT(60), <1>1, <2>1 DEF Core, LoopInv, Queued
    <2>6. ResetInv'
      BY SMTT(60), <1>1, <2>1 DEF Core, ResetInv, Queued
    <2>7. StopInv'
      BY <1>1, <2>1, <2>2 DEF Core, StopInv
    <2> QED  BY <1>2, <2>1, <2>3, <2>4, <2>5, <2>6, <2>7 DEF Core
  <1> QED  BY <1>3, <1>4

(* resetChannel() is the only one queued, and finds the channel removed.   *)
LEMMA RunResetChannel ==
  ASSUME Core, runFunctor, Head(batch) = "resetChannel", k' = [k EXCEPT !.channel = "none"],
         failed' = failed \cup Failing(ConnectorAlive /\ k.channel = "removed", "resetChannel"),
         UNCHANGED <<conn, sockets, pending, gaveUp>>
  PROVE  Core' /\ k.channel = "removed"
  <1>1. /\ phase = "functors" /\ revents = {} /\ batch # <<>> /\ batch' = Tail(batch)
        /\ batch' \in Seq(Functors) /\ Range(batch) = {"resetChannel"} \cup Range(batch')
        /\ Once(batch') /\ "resetChannel" \notin Range(batch')
        /\ conn # "none" => ResetFirst(batch')
        /\ UNCHANGED <<client, phase, revents, holder, begun, stopped>>
    BY FunctorTaken
  <1>2. failed' \subseteq RawFunctors
    BY SMT DEF Core, RawFunctors, Failing
  <1>3. k.channel = "removed" /\ "resetChannel" \notin Range(pending)
    BY <1>1, SMT DEF Core, ResetInv, Queued
  <1>4. k' \in Connectors
    BY Fields DEF Connectors
  <1>5. /\ k'.connect = k.connect /\ k'.channel = "none" /\ k'.state = k.state
        /\ k'.timers = k.timers
    BY Fields, SMT DEF Connectors
  <1>6. TypeOK'
    BY <1>1, <1>4 DEF Core, TypeOK
  <1>7. NotForgotten' /\ StateInv'
    BY SMTT(60), <1>1, <1>3, <1>5 DEF Core, NotForgotten, StateInv
  <1>8. LoopInv'
    BY SMTT(60), <1>1, <1>5 DEF Core, LoopInv, Queued
  <1>9. ResetInv'
    BY SMTT(60), <1>1, <1>3, <1>5 DEF Core, ResetInv, Queued
  <1>10. StopInv'
    BY SMTT(60), <1>1, <1>5 DEF Core, StopInv, Queued
  <1> QED  BY <1>2, <1>3, <1>6, <1>7, <1>8, <1>9, <1>10 DEF Core

(* forceCloseInLoop() of a connection comes after resetChannel().          *)
LEMMA RunForceClose ==
  ASSUME Core, runFunctor, Head(batch) = "forceClose", conn # "none", connectionCloses
  PROVE  Core' /\ ConnectionEnds
  <1>1. /\ phase = "functors" /\ revents = {} /\ batch # <<>> /\ batch' = Tail(batch)
        /\ batch' \in Seq(Functors) /\ Range(batch) = {"forceClose"} \cup Range(batch')
        /\ Once(batch') /\ "resetChannel" \notin Range(batch')
        /\ UNCHANGED <<client, phase, revents, holder, begun, stopped>>
    BY FunctorTaken
  <1>2. "resetChannel" \notin Range(pending) /\ "resetChannel" \notin Range(batch)
    BY SMTT(60), <1>1 DEF Core, ResetInv
  <1>3. k.channel # "removed"
    BY SMTT(60), <1>2 DEF Core, ResetInv, Queued
  <1>4. "forceClose" \notin Range(pending)
    BY <1>1, SMT DEF Core, LoopInv
  <1>5. /\ conn' = "none" /\ pending' = Append(pending, "connectDestroyed") /\ Reconnected
        /\ sockets' = IF k'.channel = "watched" THEN sockets + 1 ELSE sockets
    BY <1>3, ConnectionCloses
  <1>6. /\ NotForgotten' /\ StateInv' /\ (k'.channel = "watched" => client.alive /\ ~stopped)
        /\ stopped => ~k'.connect \/ (~client.alive /\ k'.state = "kConnected")
    BY <1>1, <1>5, ReconnectedInv
  <1>7. /\ pending' \in Seq(Functors) /\ Range(pending') = Range(pending) \cup {"connectDestroyed"}
        /\ Once(pending')
    <2>1. pending \in Seq(Functors) /\ "connectDestroyed" \in Functors /\ Once(pending)
      BY DEF Core, TypeOK, Functors, RawFunctors, ResetInv
    <2> QED  BY <1>5, <2>1, Appended
  <1>8. TypeOK'
    BY <1>1, <1>5, <1>7 DEF Core, TypeOK, Reconnected
  <1>9. LoopInv'
    BY SMTT(60), <1>1, <1>4, <1>7 DEF LoopInv, Queued
  <1>10. ResetInv'
    BY SMTT(60), <1>1, <1>2, <1>5, <1>7 DEF ResetInv, Queued, Reconnected
  <1>11. StopInv'
    BY <1>1, <1>6 DEF Core, StopInv
  <1>12. failed' \subseteq RawFunctors
    BY <1>5 DEF Core, Reconnected
  <1>13. k.channel # "watched"
    BY SMT DEF Core, StateInv
  <1>14. ConnectionEnds
    BY <1>1, <1>5, <1>6, <1>13 DEF ConnectionEnds, Reconnected
  <1> QED  BY <1>6, <1>8, <1>9, <1>10, <1>11, <1>12, <1>14 DEF Core

(* The other functors are nothing to the connector.                        *)
LEMMA RunOther ==
  ASSUME Core, runFunctor, UNCHANGED <<k, conn, pending, gaveUp, failed>>,
         \/ Head(batch) = "connectDestroyed"
         \/ Head(batch) = "forceClose" /\ conn = "none"
  PROVE  Core'
  <1>1. /\ phase = "functors" /\ revents = {} /\ batch # <<>> /\ batch' = Tail(batch)
        /\ batch' \in Seq(Functors) /\ Range(batch) = {Head(batch)} \cup Range(batch')
        /\ Once(batch') /\ (conn # "none" => ResetFirst(batch'))
        /\ UNCHANGED <<client, phase, revents, holder, begun, stopped>>
    BY FunctorTaken
  <1>2. Head(batch) \in {"connectDestroyed", "forceClose"}
    OBVIOUS
  <1>3. TypeOK'
    BY <1>1 DEF Core, TypeOK
  <1>4. NotForgotten' /\ StateInv'
    BY <1>1 DEF Core, NotForgotten, StateInv
  <1>5. LoopInv'
    BY SMTT(60), <1>1 DEF Core, LoopInv, Queued
  <1>6. ResetInv'
    BY SMTT(60), <1>1, <1>2 DEF Core, ResetInv, Queued
  <1>7. StopInv'
    BY SMTT(60), <1>1, <1>2 DEF Core, StopInv, Queued
  <1> QED  BY <1>3, <1>4, <1>5, <1>6, <1>7 DEF Core

(* One step of the loop through its batch, whichever functor it runs.      *)
LEMMA RunFunctor ==
  ASSUME Core, runFunctor
  PROVE  Core'
  BY RunStopInLoop, RunResetChannel, RunForceClose, RunOther DEF runFunctor

(* The loop takes its functors, and comes to the end of them.              *)
LEMMA DoPendingFunctors ==
  ASSUME Core, doPendingFunctors
  PROVE  Core'
  <1>1. /\ phase = "events" /\ revents = {} /\ phase' = "functors"
        /\ batch' = pending /\ pending' = <<>>
        /\ UNCHANGED <<k, client, conn, sockets, revents, holder, begun, stopped, gaveUp, failed>>
    BY DEF doPendingFunctors, historyVars
  <1>2. /\ pending' \in Seq(Functors) /\ Range(pending') = {} /\ Once(pending') /\ ResetFirst(pending')
        /\ Range(batch) = {}
    BY <1>1, NoFunctors, EmptyQueues
  <1>3. TypeOK'
    BY <1>1, <1>2 DEF Core, TypeOK
  <1>4. NotForgotten' /\ StateInv'
    BY <1>1 DEF Core, NotForgotten, StateInv
  <1>5. LoopInv'
    BY SMTT(60), <1>1, <1>2 DEF LoopInv
  <1>6. ResetInv'
    BY SMTT(60), <1>1, <1>2 DEF Core, ResetInv, Queued
  <1>7. StopInv'
    BY SMTT(60), <1>1, <1>2 DEF Core, StopInv, Queued
  <1> QED  BY <1>1, <1>3, <1>4, <1>5, <1>6, <1>7 DEF Core

(* The batch is run; the loop goes back to poll().                         *)
LEMMA BatchEnds ==
  ASSUME Core, batchEnds
  PROVE  Core'
  <1>1. /\ phase = "functors" /\ batch = <<>> /\ phase' = "poll"
        /\ UNCHANGED <<k, client, conn, pending, batch, revents, holder, begun, stopped, gaveUp, failed>>
    BY DEF batchEnds, historyVars
  <1>2. TypeOK'
    BY <1>1 DEF Core, TypeOK
  <1>3. NotForgotten' /\ StateInv' /\ StopInv'
    BY <1>1 DEF Core, NotForgotten, StateInv, StopInv, Queued
  <1>4. LoopInv'
    BY SMTT(60), <1>1 DEF Core, LoopInv, Queued
  <1>5. ResetInv'
    BY SMTT(60), <1>1 DEF Core, ResetInv, Queued
  <1> QED  BY <1>1, <1>2, <1>3, <1>4, <1>5 DEF Core

(* Steps in which the holder goes, or nothing changes.                     *)
LEMMA NothingChanges ==
  ASSUME Core, holder' \in BOOLEAN,
         UNCHANGED <<k, client, conn, pending, batch, phase, revents, begun, stopped, gaveUp, failed>>
  PROVE  Core'
  BY DEF Core, TypeOK, NotForgotten, StateInv, StopInv, LoopInv, ResetInv, Queued

-----------------------------------------------------------------------------
(* The user's calls                                                        *)

(* A call queues a functor other than resetChannel().                      *)
LEMMA CallQueues ==
  ASSUME Core, NEW f \in Functors, f # "resetChannel", pending' = Append(pending, f)
  PROVE  /\ pending' \in Seq(Functors) /\ Range(pending') = Range(pending) \cup {f}
         /\ Once(pending') /\ (conn # "none" => ResetFirst(pending'))
  <1>1. pending \in Seq(Functors) /\ Once(pending) /\ (conn # "none" => ResetFirst(pending))
    BY DEF Core, TypeOK, ResetInv
  <1> QED  BY <1>1, Appended

(* connect_ of the connector is cleared, and nothing else of it.           *)
LEMMA NotToConnect ==
  ASSUME Core, NEW r, r = [k EXCEPT !.connect = FALSE]
  PROVE  /\ r \in Connectors /\ ~r.connect /\ r.state = k.state /\ r.channel = k.channel
         /\ r.timers = k.timers /\ (r.fresh <=> k.fresh)
  <1>1. r \in Connectors /\ ~r.connect /\ (r.fresh <=> k.fresh)
    BY Fields DEF Connectors
  <1> QED  BY <1>1, Fields, SMT DEF Connectors

(* stop(), and a destructor that finds no connection: stopInLoop() is      *)
(* queued, and the connector is not to connect.                            *)
LEMMA QueuesStop ==
  ASSUME Core, k' = [k EXCEPT !.connect = FALSE], pending' = Append(pending, "stopInLoop"),
         client' \in Clients, stopped' \in BOOLEAN, holder' \in BOOLEAN,
         ~client'.alive => stopped', stopped' => ~client'.alive \/ (begun /\ ~client'.connect),
         UNCHANGED <<conn, batch, phase, revents, begun, gaveUp, failed>>
  PROVE  Core'
  <1>1. /\ k' \in Connectors /\ ~k'.connect /\ k'.state = k.state /\ k'.channel = k.channel
        /\ k'.timers = k.timers /\ (k'.fresh <=> k.fresh)
    BY NotToConnect
  <1>2. /\ pending' \in Seq(Functors) /\ Range(pending') = Range(pending) \cup {"stopInLoop"}
        /\ Once(pending') /\ (conn # "none" => ResetFirst(pending'))
    <2>1. "stopInLoop" \in Functors
      BY DEF Functors, RawFunctors
    <2> QED  BY <2>1, CallQueues
  <1>3. TypeOK'
    BY <1>1, <1>2 DEF Core, TypeOK
  <1>4. NotForgotten'
    BY <1>1 DEF NotForgotten
  <1>5. StateInv'
    BY SMTT(60), <1>1 DEF Core, StateInv
  <1>6. LoopInv'
    BY SMTT(60), <1>1, <1>2 DEF Core, LoopInv, Queued
  <1>7. ResetInv'
    BY SMTT(60), <1>1, <1>2 DEF Core, ResetInv, Queued
  <1>8. StopInv'
    BY <1>1, <1>2 DEF StopInv, Queued
  <1> QED  BY <1>3, <1>4, <1>5, <1>6, <1>7, <1>8 DEF Core

(* stop() of the client, any number of times.                              *)
LEMMA Stop ==
  ASSUME Core, stop
  PROVE  Core'
  <1>1. /\ client.alive /\ client' = [client EXCEPT !.connect = FALSE] /\ stopped' = begun
        /\ k' = [k EXCEPT !.connect = FALSE] /\ pending' = Append(pending, "stopInLoop")
        /\ UNCHANGED <<conn, batch, phase, revents, holder, begun, gaveUp, failed>>
    BY DEF stop, UserHere, Queue
  <1>2. client \in Clients /\ begun \in BOOLEAN /\ holder \in BOOLEAN
    BY DEF Core, TypeOK
  <1>3. client' \in Clients /\ client'.alive /\ ~client'.connect
    BY <1>1, <1>2, ClientConnects
  <1> QED  BY <1>1, <1>2, <1>3, QueuesStop

(* disconnect() of the client, which leaves the connector alone.           *)
LEMMA Disconnect ==
  ASSUME Core, disconnect
  PROVE  Core'
  <1>1. /\ client.alive /\ client' = [client EXCEPT !.connect = FALSE]
        /\ UNCHANGED <<k, conn, pending, batch, phase, revents, holder, begun, stopped, gaveUp, failed>>
    BY DEF disconnect, UserHere, loopVars
  <1>2. client' \in Clients /\ client'.alive /\ ~client'.connect
    BY <1>1, ClientConnects DEF Core, TypeOK
  <1>3. TypeOK'
    BY <1>1, <1>2 DEF Core, TypeOK
  <1>4. NotForgotten' /\ StateInv' /\ LoopInv' /\ ResetInv'
    BY <1>1 DEF Core, NotForgotten, StateInv, LoopInv, ResetInv, Queued
  <1>5. StopInv'
    BY <1>1, <1>2 DEF Core, StopInv
  <1> QED  BY <1>1, <1>3, <1>4, <1>5 DEF Core

(* forceClose() of the connection, also by ~TcpClient().                   *)
LEMMA QueuesClose ==
  ASSUME Core, conn # "none", phase # "poll", "forceClose" \notin Queued,
         pending' = Append(pending, "forceClose"),
         UNCHANGED <<k, conn, batch, phase, revents, begun, gaveUp, failed>>
  PROVE  /\ pending' \in Seq(Functors) /\ Range(pending') = Range(pending) \cup {"forceClose"}
         /\ NotForgotten' /\ StateInv' /\ LoopInv' /\ ResetInv' /\ k.channel # "watched"
  <1>1. /\ pending' \in Seq(Functors) /\ Range(pending') = Range(pending) \cup {"forceClose"}
        /\ Once(pending') /\ (conn # "none" => ResetFirst(pending'))
    <2>1. "forceClose" \in Functors
      BY DEF Functors
    <2> QED  BY <2>1, CallQueues
  <1>2. k.channel # "watched"
    BY SMT DEF Core, StateInv
  <1>3. revents \cap {"out", "err"} = {}
    BY <1>2 DEF Core, LoopInv
  <1>4. NotForgotten' /\ StateInv'
    BY DEF Core, NotForgotten, StateInv
  <1>5. LoopInv'
    BY SMTT(60), <1>1, <1>3 DEF Core, LoopInv, Queued
  <1>6. ResetInv'
    BY <1>1, SMT DEF Core, ResetInv, Queued
  <1> QED  BY <1>1, <1>2, <1>4, <1>5, <1>6

(* forceClose() of the connection.                                         *)
LEMMA ForceClose ==
  ASSUME Core, forceClose
  PROVE  Core'
  <1>1. /\ phase # "poll" /\ conn # "none" /\ "forceClose" \notin Queued
        /\ pending' = Append(pending, "forceClose")
        /\ UNCHANGED <<k, client, conn, batch, phase, revents, holder, begun, stopped, gaveUp, failed>>
    BY DEF forceClose, Queue
  <1>2. /\ pending' \in Seq(Functors) /\ NotForgotten' /\ StateInv' /\ LoopInv' /\ ResetInv'
        /\ k.channel # "watched"
    BY <1>1, QueuesClose
  <1>3. TypeOK'
    BY <1>1, <1>2 DEF Core, TypeOK
  <1>4. StopInv'
    BY <1>1, <1>2 DEF Core, StopInv
  <1> QED  BY <1>1, <1>2, <1>3, <1>4 DEF Core

(* ~TcpClient(), however early.                                            *)
LEMMA Destruct ==
  ASSUME Core, destruct
  PROVE  Core'
  <1>1. /\ client.alive /\ phase # "poll" /\ client' = [client EXCEPT !.alive = FALSE]
        /\ stopped' = TRUE
        /\ UNCHANGED <<conn, batch, phase, revents, begun, gaveUp, failed>>
    BY DEF destruct, UserHere
  <1>2. client' \in Clients /\ ~client'.alive
    BY <1>1, ClientDestructs DEF Core, TypeOK
  <1>3. CASE conn # "none" /\ "forceClose" \notin Queued /\ Queue("forceClose") /\ UNCHANGED <<k, holder>>
    <2>1. /\ pending' \in Seq(Functors) /\ NotForgotten' /\ StateInv' /\ LoopInv' /\ ResetInv'
          /\ k.channel # "watched"
      BY <1>1, <1>3, QueuesClose DEF Queue
    <2>2. TypeOK'
      BY <1>1, <1>2, <1>3, <2>1 DEF Core, TypeOK
    <2>3. k.state = "kConnected"
      BY <1>3 DEF Core, StateInv
    <2>4. StopInv'
      BY <1>1, <1>2, <1>3, <2>1, <2>3 DEF StopInv
    <2> QED  BY <1>1, <2>1, <2>2, <2>4 DEF Core
  <1>4. CASE conn # "none" /\ UNCHANGED <<pending, k, holder>>
    <2>1. TypeOK'
      BY <1>1, <1>2, <1>4 DEF Core, TypeOK
    <2>2. k.state = "kConnected" /\ k.channel # "watched"
      BY <1>4, SMT DEF Core, StateInv
    <2>3. StopInv'
      BY <1>1, <1>2, <1>4, <2>2 DEF StopInv
    <2>4. NotForgotten' /\ StateInv' /\ LoopInv' /\ ResetInv'
      BY <1>1, <1>4 DEF Core, NotForgotten, StateInv, LoopInv, ResetInv, Queued
    <2> QED  BY <1>1, <2>1, <2>3, <2>4 DEF Core
  <1>5. CASE /\ conn = "none" /\ k' = [k EXCEPT !.connect = FALSE] /\ Queue("stopInLoop")
             /\ holder' = HoldsConnector
    BY <1>1, <1>2, <1>5, QueuesStop DEF Queue, HoldsConnector
  <1> QED  BY <1>3, <1>4, <1>5 DEF destruct

-----------------------------------------------------------------------------
(* The theorems                                                            *)

(* The client before connect().                                            *)
LEMMA CoreInit == Init => Core
  <1> SUFFICES ASSUME Init PROVE Core
    OBVIOUS
  <1>1. kInitRetryDelayMs \in kInitRetryDelayMs .. kMaxRetryDelayMs
    BY DelayAssumption, SMT
  <1>2. k \in Connectors
    <2>1. 0 \in 0 .. 1
      BY SMT
    <2> QED  BY <1>1, <2>1 DEF Init, Connectors
  <1>3. client \in Clients /\ client.alive
    BY DEF Init, Clients
  <1>4. /\ pending \in Seq(Functors) /\ Range(pending) = {} /\ Once(pending)
        /\ batch \in Seq(Functors) /\ Range(batch) = {} /\ Once(batch)
    BY NoFunctors DEF Init
  <1>5. ~k.connect /\ k.state = "kDisconnected" /\ k.channel = "none" /\ k.timers = 0
    BY DEF Init
  <1>6. TypeOK
    BY <1>2, <1>3, <1>4 DEF Init, TypeOK
  <1>7. NotForgotten /\ LoopInv /\ StopInv /\ failed \subseteq RawFunctors
    BY <1>3, <1>5 DEF Init, NotForgotten, LoopInv, StopInv
  <1>8. StateInv
    BY SMTT(60), <1>5 DEF Init, StateInv
  <1>9. ResetInv
    BY SMTT(60), <1>4, <1>5 DEF Init, ResetInv, Queued
  <1> QED  BY <1>6, <1>7, <1>8, <1>9 DEF Core

(* No step of the loop or of its user breaks the inductive invariant.      *)
LEMMA CoreStep == Core /\ [Next]_vars => Core'
  <1> SUFFICES ASSUME Core, [Next]_vars PROVE Core'
    OBVIOUS
  <1>1. CASE holderFires
    BY <1>1, NothingChanges DEF holderFires, loopVars, historyVars
  <1>2. CASE UNCHANGED vars
    <2>1. UNCHANGED <<k, client, conn, pending, batch, phase, revents, holder, begun, stopped, gaveUp, failed>>
      BY <1>2 DEF vars, loopVars, historyVars
    <2>2. holder' \in BOOLEAN
      BY <2>1 DEF Core, TypeOK
    <2> QED  BY <2>1, <2>2, NothingChanges
  <1>3. CASE Loop
    BY <1>3, Poll, HandleEvent, TimerFires, DoPendingFunctors, RunFunctor, BatchEnds DEF Loop
  <1>4. CASE User
    BY <1>4, Connect, Stop, Disconnect, ForceClose, Destruct DEF User
  <1> QED  BY <1>1, <1>2, <1>3, <1>4, PeerCloses DEF Next

-----------------------------------------------------------------------------
(* The descriptors                                                         *)

(* What a step adds to the queue and takes from the batch, in terms of the *)
(* connections that are to be destroyed.                                   *)
LEMMA DestroysOfQueues ==
  ASSUME Core
  PROVE  /\ Destroys(pending) \in Nat /\ Destroys(batch) \in Nat
         /\ \A f \in Functors : pending' = Append(pending, f) =>
              Destroys(pending') = Destroys(pending) + IF f = "connectDestroyed" THEN 1 ELSE 0
         /\ batch # <<>> /\ batch' = Tail(batch) =>
              /\ Destroys(batch') \in Nat
              /\ Destroys(batch) = Destroys(batch') + IF Head(batch) = "connectDestroyed" THEN 1 ELSE 0
  <1>1. pending \in Seq(Functors) /\ batch \in Seq(Functors)
    BY DEF Core, TypeOK
  <1>2. batch # <<>> /\ batch' = Tail(batch) => batch' \in Seq(Functors)
    BY <1>1, Taken
  <1> QED  BY <1>1, <1>2, PlacesAreFinite, DestroysAppended, DestroysTaken

(* A functor that is not connectDestroyed() is queued, or none is.         *)
LEMMA OthersQueued ==
  ASSUME Core, NEW f \in Functors, f # "connectDestroyed",
         pending' = Append(pending, f) \/ UNCHANGED pending
  PROVE  Destroys(pending') = Destroys(pending)
  <1>1. CASE UNCHANGED pending
    BY <1>1
  <1>2. CASE pending' = Append(pending, f)
    <2>1. Destroys(pending) \in Nat
      BY DestroysOfQueues
    <2>2. Destroys(pending') = Destroys(pending) + IF f = "connectDestroyed" THEN 1 ELSE 0
      BY <1>2, DestroysOfQueues
    <2> QED  BY <2>1, <2>2, SMT
  <1> QED  BY <1>1, <1>2

(* Steps that neither open nor close a descriptor.                         *)
LEMMA SocketsStay ==
  ASSUME SocketsAccounted, k'.channel = k.channel, conn' = "none" <=> conn = "none",
         UNCHANGED sockets, Destroys(pending') = Destroys(pending), Destroys(batch') = Destroys(batch)
  PROVE  SocketsAccounted'
  BY SMTT(60) DEF SocketsAccounted

(* A connection closes, by an event or by a functor: its descriptor is now *)
(* that of connectDestroyed(), and a new connect has one of its own.       *)
LEMMA ConnectionEndsSockets ==
  ASSUME Core, SocketsAccounted, ConnectionEnds, Destroys(batch') = Destroys(batch)
  PROVE  SocketsAccounted'
  <1>1. "connectDestroyed" \in Functors
    BY DEF Functors
  <1>2. Destroys(pending) \in Nat /\ Destroys(batch) \in Nat
    BY DestroysOfQueues
  <1>3. Destroys(pending') = Destroys(pending) + 1
    BY SMTT(60), <1>1, DestroysOfQueues DEF ConnectionEnds
  <1>4. /\ sockets = 1 + Destroys(pending) + Destroys(batch)
        /\ sockets' = IF k'.channel = "watched" THEN sockets + 1 ELSE sockets
        /\ conn' = "none"
    BY <1>2, SMT DEF SocketsAccounted, ConnectionEnds
  <1> QED  BY SMTT(60), <1>2, <1>3, <1>4 DEF SocketsAccounted

(* The functors of the loop: only connectDestroyed() closes the descriptor *)
(* of a connection, only stopInLoop() that of a connect under way.         *)
LEMMA RunFunctorSockets ==
  ASSUME Core, SocketsAccounted, runFunctor
  PROVE  SocketsAccounted'
  <1>1. batch # <<>> /\ batch' = Tail(batch)
    BY DEF runFunctor
  <1>2. /\ Destroys(pending) \in Nat /\ Destroys(batch) \in Nat /\ Destroys(batch') \in Nat
        /\ Destroys(batch) = Destroys(batch') + IF Head(batch) = "connectDestroyed" THEN 1 ELSE 0
    BY <1>1, DestroysOfQueues
  <1>3. CASE /\ Head(batch) = "stopInLoop" /\ stopInLoop
             /\ failed' = failed \cup Failing(ConnectorAlive, "stopInLoop")
             /\ UNCHANGED <<conn, gaveUp>>
    <2>1. \/ /\ k.channel = "watched" /\ k'.channel = "removed" /\ sockets' = sockets - 1
             /\ pending' = Append(pending, "resetChannel")
          \/ UNCHANGED <<k, sockets, pending>>
      BY <1>3, RunStopInLoop
    <2>2. Destroys(pending') = Destroys(pending)
      BY <2>1, OthersQueued DEF Functors, RawFunctors
    <2>3. Destroys(batch') = Destroys(batch) /\ UNCHANGED conn
      BY SMTT(60), <1>2, <1>3
    <2>4. CASE UNCHANGED <<k, sockets, pending>>
      BY <2>3, <2>4, SocketsStay
    <2>5. CASE k.channel = "watched" /\ k'.channel = "removed" /\ sockets' = sockets - 1
      BY <1>2, <2>2, <2>3, <2>5, SMTT(60) DEF SocketsAccounted
    <2> QED  BY <2>1, <2>4, <2>5
  <1>4. CASE /\ Head(batch) = "resetChannel" /\ k' = [k EXCEPT !.channel = "none"]
             /\ failed' = failed \cup
                  Failing(ConnectorAlive /\ k.channel = "removed", "resetChannel")
             /\ UNCHANGED <<conn, sockets, pending, gaveUp>>
    <2>1. k.channel = "removed"
      BY <1>4, RunResetChannel
    <2>2. k'.channel = "none"
      BY SMTT(60), <1>4, Fields DEF Connectors
    <2> QED  BY SMTT(60), <1>2, <1>4, <2>1, <2>2 DEF SocketsAccounted
  <1>5. CASE Head(batch) = "forceClose" /\ conn # "none" /\ connectionCloses
    <2>1. ConnectionEnds
      BY <1>5, RunForceClose
    <2>2. Destroys(batch') = Destroys(batch)
      BY SMTT(60), <1>2, <1>5
    <2> QED  BY <2>1, <2>2, ConnectionEndsSockets
  <1>6. CASE /\ Head(batch) = "forceClose"
             /\ UNCHANGED <<k, conn, sockets, pending, gaveUp, failed>>
    BY SMTT(60), <1>2, <1>6 DEF SocketsAccounted
  <1>7. CASE /\ Head(batch) = "connectDestroyed" /\ sockets' = sockets - 1
             /\ UNCHANGED <<k, conn, pending, gaveUp, failed>>
    BY SMTT(60), <1>2, <1>7 DEF SocketsAccounted
  <1> QED  BY <1>3, <1>4, <1>5, <1>6, <1>7 DEF runFunctor

(* Every step keeps the account of the descriptors.                        *)
LEMMA SocketsStep ==
  ASSUME Core, SocketsAccounted, [Next]_vars
  PROVE  SocketsAccounted'
  <1>1. Destroys(pending) \in Nat /\ Destroys(batch) \in Nat
    BY DestroysOfQueues
  <1>2. "stopInLoop" \in Functors /\ "resetChannel" \in Functors /\ "forceClose" \in Functors
    BY DEF Functors, RawFunctors
  <1>3. CASE poll
    <2>1. /\ conn' = (IF conn = "none" THEN conn ELSE "up") /\ UNCHANGED <<sockets, pending, batch>>
          /\ k' = [k EXCEPT !.fresh = k.fresh /\ pending # <<>>]
      BY <1>3 DEF poll
    <2>2. k'.channel = k.channel
      BY SMTT(60), <2>1, Fields DEF Connectors
    <2>3. conn' = "none" <=> conn = "none"
      BY <2>1, SMT
    <2> QED  BY <2>1, <2>2, <2>3, SocketsStay
  <1>4. CASE handleEvent
    <2>1. /\ k.channel = "watched" /\ k'.channel = "removed" /\ conn = "none"
          /\ sockets' = IF conn' = "none" THEN sockets - 1 ELSE sockets
          /\ pending' = Append(pending, "resetChannel") /\ UNCHANGED batch
      BY <1>4, HandleEvent
    <2>2. Destroys(pending') = Destroys(pending)
      BY <1>2, <2>1, OthersQueued
    <2> QED  BY SMTT(60), <1>1, <2>1, <2>2 DEF SocketsAccounted
  <1>5. CASE timerFires
    <2>1. /\ k.channel = "none" /\ sockets' = IF k'.channel = "watched" THEN sockets + 1 ELSE sockets
          /\ UNCHANGED <<conn, pending, batch>>
      BY <1>5, TimerFires
    <2> QED  BY SMTT(60), <1>1, <2>1 DEF SocketsAccounted
  <1>6. CASE connect
    <2>1. /\ k.channel = "none" /\ sockets' = IF k'.channel = "watched" THEN sockets + 1 ELSE sockets
          /\ UNCHANGED <<conn, pending, batch>>
      BY <1>6, Connect
    <2> QED  BY <1>1, <2>1, SMT DEF SocketsAccounted
  <1>7. CASE peerCloses
    BY <1>7, PeerCloses, ConnectionEndsSockets
  <1>8. CASE doPendingFunctors
    <2>1. /\ phase = "events" /\ batch' = pending /\ pending' = <<>> /\ UNCHANGED <<k, conn, sockets>>
      BY <1>8 DEF doPendingFunctors
    <2>2. Destroys(batch) = 0 /\ Destroys(pending') = 0
      BY <2>1, EmptyQueues, NoneDestroyed
    <2> QED  BY SMTT(60), <1>1, <2>1, <2>2 DEF SocketsAccounted
  <1>9. CASE stop \/ (destruct /\ conn = "none")
    <2>1. /\ k' = [k EXCEPT !.connect = FALSE] /\ pending' = Append(pending, "stopInLoop")
          /\ UNCHANGED <<conn, sockets, batch>>
      BY <1>9 DEF stop, destruct, Queue
    <2>2. Destroys(pending') = Destroys(pending)
      BY <1>2, <2>1, OthersQueued
    <2> QED  BY <2>1, <2>2, NotToConnect, SocketsStay
  <1>10. CASE forceClose \/ (destruct /\ conn # "none")
    <2>1. /\ pending' = Append(pending, "forceClose") \/ UNCHANGED pending
          /\ UNCHANGED <<k, conn, sockets, batch>>
      BY <1>10 DEF forceClose, destruct, Queue
    <2>2. Destroys(pending') = Destroys(pending)
      BY <1>2, <2>1, OthersQueued
    <2> QED  BY <2>1, <2>2, SocketsStay
  <1>11. CASE batchEnds \/ holderFires \/ disconnect \/ UNCHANGED vars
    <2>1. UNCHANGED <<k, conn, sockets, pending, batch>>
      BY <1>11 DEF batchEnds, holderFires, disconnect, vars, loopVars
    <2> QED  BY <2>1, SocketsStay
  <1> QED  BY <1>3, <1>4, <1>5, <1>6, <1>7, <1>8, <1>9, <1>10, <1>11, RunFunctorSockets
           DEF Next, Loop, User

-----------------------------------------------------------------------------
(* The end of the connector                                                *)

(* Where no client is destructed before the functors of its connector have *)
(* run, those functors have a client, or its timer, that keeps the         *)
(* connector until they have.                                              *)
Kept == failed = {} /\ (RawFunctors \cap Queued # {} => client.alive \/ holder)

(* RestInv and DestroyedCleanly follow: a channel that is watched or to be *)
(* reset has its functor queued.                                           *)
LEMMA KeptIsEnough ==
  ASSUME Core, Kept
  PROVE  RestInv /\ DestroyedCleanly /\ AssertionsHold
  <1>1. k.channel = "removed" => RawFunctors \cap Queued # {}
    BY DEF Core, ResetInv, RawFunctors
  <1>2. ~client.alive /\ k.channel = "watched" => RawFunctors \cap Queued # {}
    BY DEF Core, StopInv, RawFunctors
  <1>3. k.channel \in {"none", "watched", "removed"}
    BY Fields
  <1>4. RestInv
    BY <1>1, <1>2, <1>3 DEF Kept, RestInv
  <1>5. DestroyedCleanly
    BY <1>4 DEF RestInv, DestroyedCleanly, ChannelGone, ConnectorAlive
  <1> QED  BY <1>4, <1>5 DEF Kept, AssertionsHold

(* Steps that leave the client and its timer alone keep the connector, if  *)
(* they queue one of its functors only where there is one already.         *)
LEMMA KeptStays ==
  ASSUME Kept, failed' = failed, client'.alive = client.alive, holder' = holder,
         RawFunctors \cap Queued' # {} => RawFunctors \cap Queued # {}
  PROVE  Kept'
  BY DEF Kept

(* The functors of the connector find it alive.                            *)
LEMMA RunFunctorKept ==
  ASSUME Core, Kept, runFunctor
  PROVE  Kept'
  <1>1. /\ Range(batch) = {Head(batch)} \cup Range(batch')
        /\ UNCHANGED <<client, holder>>
    BY FunctorTaken
  <1>2. pending \in Seq(Functors) /\ "connectDestroyed" \in Functors
    BY DEF Core, TypeOK, Functors
  <1>3. Head(batch) \in RawFunctors => RawFunctors \cap Queued # {} /\ ConnectorAlive
    BY <1>1 DEF Queued, Kept, ConnectorAlive
  <1>4. CASE /\ Head(batch) = "stopInLoop" /\ stopInLoop
             /\ failed' = failed \cup Failing(ConnectorAlive, "stopInLoop")
    <2>1. RawFunctors \cap Queued # {} /\ ConnectorAlive
      BY <1>3, <1>4 DEF RawFunctors
    <2>2. failed' = failed
      BY SMTT(60), <1>4, <2>1 DEF Failing
    <2> QED  BY <1>1, <2>1, <2>2, KeptStays
  <1>5. CASE /\ Head(batch) = "resetChannel" /\ k' = [k EXCEPT !.channel = "none"]
             /\ failed' = failed \cup
                  Failing(ConnectorAlive /\ k.channel = "removed", "resetChannel")
             /\ UNCHANGED <<conn, sockets, pending, gaveUp>>
    <2>1. RawFunctors \cap Queued # {} /\ ConnectorAlive
      BY <1>3, <1>5 DEF RawFunctors
    <2>2. k.channel = "removed"
      BY <1>5, RunResetChannel
    <2>3. failed' = failed
      BY SMTT(60), <1>5, <2>1, <2>2 DEF Failing
    <2> QED  BY <1>1, <2>1, <2>3, KeptStays
  <1>6. CASE Head(batch) = "forceClose" /\ conn # "none" /\ connectionCloses
    <2>1. pending' = Append(pending, "connectDestroyed") /\ failed' = failed
      BY <1>6, RunForceClose DEF ConnectionEnds
    <2>2. Range(pending') = Range(pending) \cup {"connectDestroyed"}
      BY <1>2, <2>1, Appended
    <2>3. RawFunctors \cap Queued' # {} => RawFunctors \cap Queued # {}
      BY <1>1, <2>2, SMT DEF Queued, RawFunctors
    <2> QED  BY <1>1, <2>1, <2>3, KeptStays
  <1>7. CASE UNCHANGED <<pending, failed>>
    <2>1. RawFunctors \cap Queued' # {} => RawFunctors \cap Queued # {}
      BY <1>1, <1>7 DEF Queued
    <2> QED  BY <1>1, <1>7, <2>1, KeptStays
  <1> QED  BY <1>4, <1>5, <1>6, <1>7 DEF runFunctor

(* ~TcpClient() leaves no functor of the connector behind, or a timer that *)
(* keeps it.                                                               *)
LEMMA DestructKept ==
  ASSUME ~DestructsEarly, Core, Kept, destruct
  PROVE  Kept'
  <1>1. failed' = failed /\ UNCHANGED batch
    BY DEF destruct
  <1>2. CASE /\ conn # "none" /\ RawFunctors \cap Queued = {}
             /\ pending' = Append(pending, "forceClose") \/ UNCHANGED pending
    <2>1. pending \in Seq(Functors) /\ "forceClose" \in Functors
      BY DEF Core, TypeOK, Functors
    <2>2. Range(pending') \subseteq Range(pending) \cup {"forceClose"}
      BY <1>2, <2>1, Appended
    <2>3. RawFunctors \cap Queued' = {}
      BY SMTT(60), <1>1, <1>2, <2>2 DEF Queued, RawFunctors
    <2> QED  BY <1>1, <2>3 DEF Kept
  <1>3. CASE holder' = HoldsConnector
    BY <1>1, <1>3 DEF Kept, HoldsConnector
  <1> QED  BY <1>2, <1>3 DEF destruct, Queue

(* Every step keeps the connector for as long as it is needed.             *)
LEMMA KeptStep ==
  ASSUME ~DestructsEarly, Core, Kept, [Next]_vars
  PROVE  Kept'
  <1>1. CASE handleEvent
    <2>1. /\ k.channel = "watched" /\ pending' = Append(pending, "resetChannel")
          /\ failed' = failed /\ UNCHANGED <<client, holder>>
      BY <1>1, HandleEvent
    <2>2. client.alive \/ holder
      <3>1. ~client.alive => RawFunctors \cap Queued # {}
        BY <2>1 DEF Core, StopInv, RawFunctors
      <3> QED  BY <3>1 DEF Kept
    <2> QED  BY <2>1, <2>2 DEF Kept
  <1>2. CASE timerFires
    <2>1. failed' = failed /\ UNCHANGED <<client, pending, batch, holder>>
      BY <1>2, TimerFires
    <2> QED  BY <2>1, KeptStays DEF Queued
  <1>3. CASE connect
    <2>1. client'.alive /\ failed' = failed
      BY <1>3, Connect
    <2> QED  BY <2>1 DEF Kept
  <1>4. CASE peerCloses
    <2>1. /\ pending' = Append(pending, "connectDestroyed") /\ failed' = failed
          /\ UNCHANGED <<client, batch, holder>>
      BY <1>4, PeerCloses DEF ConnectionEnds
    <2>2. pending \in Seq(Functors) /\ "connectDestroyed" \in Functors
      BY DEF Core, TypeOK, Functors
    <2>3. Range(pending') = Range(pending) \cup {"connectDestroyed"}
      BY <2>1, <2>2, Appended
    <2>4. RawFunctors \cap Queued' # {} => RawFunctors \cap Queued # {}
      BY SMTT(60), <2>1, <2>3 DEF Queued, RawFunctors
    <2> QED  BY <2>1, <2>4, KeptStays
  <1>5. CASE doPendingFunctors
    <2>1. /\ phase = "events" /\ batch' = pending /\ pending' = <<>>
          /\ UNCHANGED <<client, holder, failed>>
      BY <1>5 DEF doPendingFunctors
    <2>2. Range(pending') = {}
      BY <2>1, NoFunctors
    <2>3. RawFunctors \cap Queued' # {} => RawFunctors \cap Queued # {}
      BY <2>1, <2>2 DEF Queued
    <2> QED  BY <2>1, <2>3, KeptStays
  <1>6. CASE holderFires
    <2>1. RawFunctors \cap Queued = {} /\ UNCHANGED <<pending, batch, failed>>
      BY <1>6 DEF holderFires, loopVars
    <2> QED  BY <2>1 DEF Kept, Queued
  <1>7. CASE stop \/ disconnect
    <2>1. /\ client.alive /\ client' = [client EXCEPT !.connect = FALSE] /\ failed' = failed
          /\ client \in Clients
      BY <1>7 DEF stop, disconnect, UserHere, Core, TypeOK
    <2>2. client'.alive
      BY <2>1, ClientConnects
    <2> QED  BY <2>1, <2>2 DEF Kept
  <1>8. CASE forceClose
    <2>1. /\ pending' = Append(pending, "forceClose") /\ UNCHANGED <<client, batch, holder, failed>>
      BY <1>8 DEF forceClose, Queue
    <2>2. pending \in Seq(Functors) /\ "forceClose" \in Functors
      BY DEF Core, TypeOK, Functors
    <2>3. Range(pending') = Range(pending) \cup {"forceClose"}
      BY <2>1, <2>2, Appended
    <2>4. RawFunctors \cap Queued' # {} => RawFunctors \cap Queued # {}
      BY SMTT(60), <2>1, <2>3 DEF Queued, RawFunctors
    <2> QED  BY <2>1, <2>4, KeptStays
  <1>9. CASE poll \/ batchEnds \/ UNCHANGED vars
    <2>1. UNCHANGED <<client, pending, batch, holder, failed>>
      BY <1>9 DEF poll, batchEnds, vars, loopVars
    <2> QED  BY <2>1, KeptStays DEF Queued
  <1> QED  BY <1>1, <1>2, <1>3, <1>4, <1>5, <1>6, <1>7, <1>8, <1>9, RunFunctorKept, DestructKept
           DEF Next, Loop, User

-----------------------------------------------------------------------------
(* The end of the attempts                                                 *)

(* What a step may not do once stop() was called.                          *)
Final ==
  stopped => /\ k'.channel = "watched" => k.channel = "watched"
             /\ conn' = "new" => conn = "new"

(* No functor begins an attempt or reports a connection.                   *)
LEMMA RunFunctorFinal ==
  ASSUME Core, runFunctor
  PROVE  Final
  <1>1. CASE /\ Head(batch) = "stopInLoop" /\ stopInLoop
             /\ failed' = failed \cup Failing(ConnectorAlive, "stopInLoop")
             /\ UNCHANGED <<conn, gaveUp>>
    <2>1. k.channel = "watched" \/ UNCHANGED k
      BY <1>1, RunStopInLoop
    <2> QED  BY <1>1, <2>1 DEF Final
  <1>2. CASE k' = [k EXCEPT !.channel = "none"] /\ UNCHANGED conn
    <2>1. k'.channel = "none"
      BY SMTT(60), <1>2, Fields DEF Connectors
    <2> QED  BY SMTT(60), <1>2, <2>1 DEF Final
  <1>3. CASE Head(batch) = "forceClose" /\ conn # "none" /\ connectionCloses
    <2>1. conn' = "none" /\ (k'.channel = "watched" => ~stopped)
      BY <1>3, RunForceClose DEF ConnectionEnds
    <2> QED  BY SMTT(60), <2>1 DEF Final
  <1>4. CASE UNCHANGED <<k, conn>>
    BY <1>4 DEF Final
  <1> QED  BY <1>1, <1>2, <1>3, <1>4 DEF runFunctor

(* A stopped connector is not to connect, but for one that is connected:   *)
(* its timer and its connect under way come to nothing.                    *)
LEMMA FinalStep ==
  ASSUME Core, [Next]_vars
  PROVE  Final
  <1>1. stopped => ~k.connect \/ k.state = "kConnected"
    BY DEF Core, StopInv
  <1>2. CASE poll
    <2>1. /\ k' = [k EXCEPT !.fresh = k.fresh /\ pending # <<>>]
          /\ conn' = IF conn = "none" THEN conn ELSE "up"
      BY <1>2 DEF poll
    <2>2. k'.channel = k.channel
      BY SMTT(60), <2>1, Fields DEF Connectors
    <2>3. conn' # "new"
      BY SMTT(60), <2>1
    <2> QED  BY <2>2, <2>3 DEF Final
  <1>3. CASE handleEvent
    <2>1. k.channel = "watched" /\ k.state = "kConnecting" /\ (conn' # "none" => k.connect)
      BY <1>3, HandleEvent
    <2>2. stopped => conn' = "none"
      BY SMTT(60), <1>1, <2>1
    <2> QED  BY SMTT(60), <2>1, <2>2 DEF Final
  <1>4. CASE timerFires
    <2>1. k.state = "kDisconnected" /\ (k'.channel = "watched" => k.connect) /\ UNCHANGED conn
      BY <1>4, TimerFires
    <2>2. stopped => k'.channel # "watched"
      BY SMTT(60), <1>1, <2>1
    <2> QED  BY <2>1, <2>2 DEF Final
  <1>5. CASE connect
    <2>1. ~stopped
      BY <1>5, Connect
    <2> QED  BY <2>1 DEF Final
  <1>6. CASE peerCloses
    <2>1. conn' = "none" /\ (k'.channel = "watched" => ~stopped)
      BY <1>6, PeerCloses DEF ConnectionEnds
    <2> QED  BY SMTT(60), <2>1 DEF Final
  <1>7. CASE k' = [k EXCEPT !.connect = FALSE] /\ UNCHANGED conn
    BY <1>7, NotToConnect DEF Final
  <1>8. CASE UNCHANGED <<k, conn>>
    BY <1>8 DEF Final
  <1>9. CASE stop \/ disconnect \/ forceClose \/ destruct
    BY <1>7, <1>8, <1>9 DEF stop, disconnect, forceClose, destruct
  <1>10. CASE doPendingFunctors \/ batchEnds \/ holderFires \/ UNCHANGED vars
    BY <1>8, <1>10 DEF doPendingFunctors, batchEnds, holderFires, vars
  <1> QED  BY <1>2, <1>3, <1>4, <1>5, <1>6, <1>9, <1>10, RunFunctorFinal DEF Next, Loop, User

-----------------------------------------------------------------------------
(* The theorems                                                            *)

(* So it holds throughout.                                                 *)
LEMMA CoreHolds == Spec => []Core
  BY CoreInit, CoreStep, PTL DEF Spec

(* However early the client is destructed, the connector makes one attempt *)
(* at a time and forgets none, its queued functors reset each channel      *)
(* once and in time, and no assertion of startInLoop(), connecting() or    *)
(* handleWrite() fails (Connector.cc:53, 138, 204).                        *)
THEOREM AttemptsOneByOne == Spec => []AttemptInv
  <1>1. Core => AttemptInv
    BY AttemptsOfState DEF Core, AttemptInv
  <1> QED  BY <1>1, CoreHolds, PTL

(* With a client that is destructed after the functors of its connector    *)
(* have run, besides: no functor finds its connector destructed, and       *)
(* ~Connector() finds no channel (Connector.cc:40).                        *)
THEOREM OneAttemptAtATime ==
  ASSUME ~DestructsEarly
  PROVE  Spec => []OneAttempt
  <1> DEFINE I == Core /\ Kept
  <1>1. Init => I
    <2> SUFFICES ASSUME Init PROVE Kept
      BY CoreInit
    <2>1. client.alive /\ failed = {}
      BY DEF Init
    <2> QED  BY <2>1 DEF Kept
  <1>2. I /\ [Next]_vars => I'
    BY CoreStep, KeptStep
  <1>3. I => OneAttempt
    BY KeptIsEnough, AttemptsOfState DEF Core, AttemptInv, OneAttempt
  <1> QED  BY <1>1, <1>2, <1>3, PTL DEF Spec

(* No path on which an attempt or a connection ends leaks its descriptor   *)
(* or closes it twice (Connector.cc:197, 224, TcpClient.cc:176).           *)
THEOREM NoSocketIsLeaked == Spec => []SocketsAccounted
  <1>1. Init => SocketsAccounted
    <2> SUFFICES ASSUME Init PROVE SocketsAccounted
      OBVIOUS
    <2>1. Destroys(pending) = 0 /\ Destroys(batch) = 0
      BY NoneDestroyed DEF Init
    <2>2. sockets = 0 /\ k.channel = "none" /\ conn = "none"
      BY DEF Init
    <2> QED  BY SMTT(60), <2>1, <2>2 DEF SocketsAccounted
  <1>2. Core /\ SocketsAccounted /\ [Next]_vars => SocketsAccounted'
    BY SocketsStep
  <1> QED  BY <1>1, <1>2, CoreHolds, PTL DEF Spec

(* After stop() or the client's destruction no attempt is begun and no     *)
(* connection reported, by whatever timer, event or functor is on its way  *)
(* (Connector.cc:54, 191).                                                 *)
THEOREM StopEndsAttempts == Spec => StopIsFinal
  <1>1. Core /\ [Next]_vars =>
          [stopped => /\ k'.channel = "watched" => k.channel = "watched"
                      /\ conn' = "new" => conn = "new"]_vars
    BY FinalStep DEF Final
  <1> QED  BY <1>1, CoreHolds, PTL DEF Spec, StopIsFinal
=============================================================================
