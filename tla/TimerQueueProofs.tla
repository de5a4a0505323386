--------------------------- MODULE TimerQueueProofs ---------------------------
(***************************************************************************)
(* Theorems about TimerQueue, for any number of threads and timers: its    *)
(* indexes agree, it follows no dangling pointer, and what was cancelled   *)
(* is not put back.                                                        *)
(***************************************************************************)
EXTENDS TimerQueue, WellFoundedInduction, TLAPS

(* The provers of each step that names none, in this order. *)
USE SMTT(60), Z3T(60), ZenonT(60)

(* Times and intervals are counts of ticks. *)
NaturalTimes == Delays \subseteq Nat /\ Intervals \subseteq Nat

Ids == Addresses \X Nat
Calls == [op : {"add", "cancel"}, id : Ids]
Timer == [sequence : Nat, expiration : Nat, interval : Nat]

Types ==
  /\ now \in Nat /\ numCreated \in Nat /\ resetAt \in Nat
  /\ heap \in [Addresses -> Timer]
  /\ timers \in SUBSET (Nat \X Addresses) /\ batch \in SUBSET (Nat \X Addresses)
  /\ activeTimers \in SUBSET Ids
  /\ pending \in Seq(Calls)
  /\ adding \in [Threads -> Ids \cup {<<>>}]
  /\ ids \in SUBSET Ids

-----------------------------------------------------------------------------
(* The adds in a queue after one more call was queued.                     *)
LEMMA Queued1 ==
  ASSUME NEW q \in Seq(Calls), NEW f \in Calls
  PROVE  /\ Append(q, f) \in Seq(Calls)
         /\ Adds(Append(q, f)) = Adds(q) \cup (IF f.op = "add" THEN {f.id} ELSE {})
         /\ AddsOnce(q) /\ (f.op = "add" => f.id \notin Adds(q)) => AddsOnce(Append(q, f))
  <1> DEFINE r == Append(q, f)
  <1>1. r \in Seq(Calls) /\ Len(r) = Len(q) + 1 /\ Len(q) \in Nat
    OBVIOUS
  <1>2. DOMAIN q = 1..Len(q) /\ DOMAIN r = 1..(Len(q) + 1)
    BY <1>1
  <1>3. (\A i \in DOMAIN q : r[i] = q[i]) /\ r[Len(q) + 1] = f
    BY <1>2
  <1>4. DOMAIN r = DOMAIN q \cup {Len(q) + 1} /\ Len(q) + 1 \notin DOMAIN q
    BY <1>1, <1>2
  <1> HIDE DEF r
  <1>5. Adds(r) = Adds(q) \cup (IF f.op = "add" THEN {f.id} ELSE {})
    BY <1>3, <1>4 DEF Adds
  <1>6. ASSUME AddsOnce(q), f.op = "add" => f.id \notin Adds(q)
        PROVE  AddsOnce(r)
    BY <1>3, <1>4, <1>6 DEF AddsOnce, Adds
  <1>7. QED
    BY <1>1, <1>5, <1>6 DEF r

(* The adds in a queue once its first call was taken.                      *)
LEMMA Dequeued ==
  ASSUME NEW q \in Seq(Calls), q # <<>>
  PROVE  /\ Head(q) \in Calls /\ Tail(q) \in Seq(Calls)
         /\ Adds(q) = Adds(Tail(q)) \cup (IF Head(q).op = "add" THEN {Head(q).id} ELSE {})
         /\ AddsOnce(q) => /\ AddsOnce(Tail(q))
                           /\ Head(q).op = "add" => Head(q).id \notin Adds(Tail(q))
  <1> DEFINE t == Tail(q)
  <1>1. Len(q) \in Nat /\ Len(q) > 0 /\ Len(t) = Len(q) - 1 /\ t \in Seq(Calls)
    OBVIOUS
  <1>2. Head(q) = q[1] /\ Head(q) \in Calls
    OBVIOUS
  <1>3. DOMAIN q = 1..Len(q) /\ DOMAIN t = 1..(Len(q) - 1)
    BY <1>1
  <1>4. \A i \in DOMAIN t : t[i] = q[i + 1] /\ i + 1 \in DOMAIN q /\ i + 1 # 1
    BY <1>1, <1>3
  <1>5. \A i \in DOMAIN q : i = 1 \/ (i - 1 \in DOMAIN t /\ t[i - 1] = q[i])
    BY <1>1, <1>3
  <1>6. 1 \in DOMAIN q /\ \A i, j \in DOMAIN t : i + 1 = j + 1 => i = j
    BY <1>1, <1>3
  <1> HIDE DEF t
  <1>7. Adds(q) = Adds(t) \cup (IF q[1].op = "add" THEN {q[1].id} ELSE {})
    BY <1>4, <1>5, <1>6 DEF Adds
  <1>8. ASSUME AddsOnce(q)
        PROVE  AddsOnce(t) /\ (q[1].op = "add" => q[1].id \notin Adds(t))
    BY <1>4, <1>6, <1>8 DEF AddsOnce, Adds
  <1>9. QED
    BY <1>1, <1>2, <1>7, <1>8 DEF t
-----------------------------------------------------------------------------
(* Each key of an index is the key of the Timer it points to, so erasing   *)
(* that key erases the timer.                                              *)
LEMMA Erased ==
  ASSUME Types, NEW S \in SUBSET (Nat \X Addresses), NEW A \in SUBSET Addresses,
         \A e \in S : heap[e[2]].expiration = e[1]
  PROVE  At(S \ {<<heap[a].expiration, a>> : a \in A}) = At(S) \ A
  <1>1. \A e \in S : e = <<e[1], e[2]>> /\ e[2] \in Addresses
    OBVIOUS
  <1>2. \A e \in S : e \in {<<heap[a].expiration, a>> : a \in A} <=> e[2] \in A
    BY <1>1
  <1>3. QED
    BY <1>2 DEF At

(* cancelInLoop() finds its timer in the queue, alive and under its own    *)
(* number, or finds nothing.                                               *)
LEMMA Found ==
  ASSUME Types, QueueInv, NEW id \in Ids
  PROVE  \/ /\ id \in activeTimers /\ FindActive(id) = {id} /\ DeletedBy(id) = {id[1]}
            /\ id[1] \in At(timers) /\ heap[id[1]] # Free /\ heap[id[1]].sequence = id[2]
         \/ /\ id \notin activeTimers /\ FindActive(id) = {} /\ DeletedBy(id) = {}
            /\ \/ id[1] \notin At(timers)
               \/ heap[id[1]].sequence # id[2]
  <1>1. CASE id \in activeTimers
    <2>1. FindActive(id) = {id} /\ DeletedBy(id) = {id[1]}
      BY <1>1 DEF FindActive, DeletedBy
    <2>2. PICK e \in timers : id = <<e[2], SeqAt(e)>>
      BY <1>1 DEF QueueInv, IndexesAreSound, IndexesAgree
    <2>3. id[1] = e[2] /\ id[2] = heap[e[2]].sequence
      BY <2>2 DEF SeqAt
    <2>4. id[1] \in At(timers)
      BY <2>3 DEF At
    <2>5. heap[id[1]] # Free
      BY <2>4 DEF QueueInv, IndexesAreSound, NoDanglingTimer
    <2>6. QED
      BY <1>1, <2>1, <2>3, <2>4, <2>5
  <1>2. CASE id \notin activeTimers
    <2>1. FindActive(id) = {} /\ DeletedBy(id) = {}
      BY <1>2 DEF FindActive, DeletedBy
    <2>2. ASSUME id[1] \in At(timers), heap[id[1]].sequence = id[2]
          PROVE  FALSE
      <3>1. PICK e \in timers : e[2] = id[1]
        BY <2>2 DEF At
      <3>2. id = <<e[2], SeqAt(e)>>
        BY <2>2, <3>1 DEF SeqAt, Ids
      <3>3. QED
        BY <1>2, <3>1, <3>2 DEF QueueInv, IndexesAreSound, IndexesAgree
    <2>3. QED
      BY <1>2, <2>1, <2>2
  <1>3. QED
    BY <1>1, <1>2
(* cancelInLoop() keeps the invariant, called directly or from the queue.  *)
LEMMA CancelKeeps ==
  ASSUME Types, QueueInv, NEW id \in Ids, cancelInLoop(id),
         UNCHANGED <<batch, numCreated, calling>>,
         Adds(pending') = Adds(pending), AddsOnce(pending')
  PROVE  /\ QueueInv'
         /\ heap' \in [Addresses -> Timer]
         /\ timers' \in SUBSET (Nat \X Addresses) /\ activeTimers' \in SUBSET Ids
         /\ Queued \subseteq Queued' \cup cancelled'
  <1> USE DEF QueueInv, IndexesAreSound
  <1>1. CASE id \in activeTimers
    <2> DEFINE b == id[1]
    <2>1. /\ FindActive(id) = {id} /\ DeletedBy(id) = {b} /\ b \in Addresses
          /\ b \in At(timers) /\ heap[b] # Free /\ heap[b].sequence = id[2]
      BY <1>1, Found DEF Ids
    <2>2. /\ timers' = timers \ {<<heap[a].expiration, a>> : a \in {b}}
          /\ activeTimers' = activeTimers \ {id}
          /\ heap' = [a \in Addresses |-> IF a = b THEN Free ELSE heap[a]]
          /\ cancelingTimers' = cancelingTimers
          /\ cancelled' = cancelled \cup {id[2]}
      BY <1>1, <2>1 DEF cancelInLoop
    <2>3. b \notin At(batch) /\ b \notin Arriving
      BY <2>1 DEF NoDanglingTimer
    <2>4. At(timers') = At(timers) \ {b}
      <3>1. timers \in SUBSET (Nat \X Addresses)
        BY DEF Types
      <3>2. \A e \in timers : heap[e[2]].expiration = e[1]
        BY DEF IndexesAgree
      <3>3. {b} \in SUBSET Addresses
        BY <2>1
      <3> HIDE DEF b, QueueInv, IndexesAreSound
      <3>4. At(timers \ {<<heap[a].expiration, a>> : a \in {b}}) = At(timers) \ {b}
        BY Zenon, <3>1, <3>2, <3>3, Erased
      <3>5. QED
        BY <2>2, <3>4
    <2>5. heap' \in [Addresses -> Timer]
      BY <2>2 DEF Types, Timer, Free
    <2>6. \A a \in Addresses \ {b} : heap'[a] = heap[a]
      BY <2>2
    <2>7. heap'[b] = Free /\ Free.sequence = 0
      BY <2>1, <2>2 DEF Free
    <2>8. IndexesAgree'
      <3>1. \A e \in timers' : e \in timers /\ e[2] # b /\ e[2] \in Addresses
        BY ZenonT(60), <2>2, <2>4 DEF At, Types
      <3>2. \A e \in timers' : heap'[e[2]].expiration = e[1] /\ SeqAt(e)' = SeqAt(e)
        BY <2>6, <3>1 DEF IndexesAgree, SeqAt
      <3>3. \A x \in activeTimers' : \E e \in timers' : x = <<e[2], SeqAt(e)'>>
        <4> SUFFICES ASSUME NEW x \in activeTimers' PROVE \E e \in timers' : x = <<e[2], SeqAt(e)'>>
          OBVIOUS
        <4>1. PICK e \in timers : x = <<e[2], SeqAt(e)>>
          BY <2>2 DEF IndexesAgree
        <4>2. e[2] # b
          BY <2>1, <2>2, <4>1 DEF SeqAt, Ids
        <4>3. e \in timers'
          BY <2>2, <4>2
        <4>4. QED
          BY <3>2, <4>1, <4>3
      <3>4. \A e \in timers' : <<e[2], SeqAt(e)'>> \in activeTimers'
        BY <2>2, <3>1, <3>2 DEF IndexesAgree
      <3>5. QED
        BY <3>2, <3>3, <3>4 DEF IndexesAgree
    <2>9. NoDanglingTimer'
      <3>1. Arriving' = Arriving /\ At(batch)' = At(batch)
        BY DEF Arriving, At
      <3>2. {a \in Addresses : heap'[a] # Free} = {a \in Addresses : heap[a] # Free} \ {b}
        BY <2>6, <2>7
      <3>3. \A e \in batch : e[2] # b /\ e[2] \in Addresses
        BY <2>3 DEF At, Types
      <3>4. \A x \in Adds(pending) : x[1] # b /\ x[1] \in Arriving
        BY <2>3 DEF Arriving
      <3>5. \A x \in Adds(pending) : x[1] \in Addresses
        BY <3>4 DEF NoDanglingTimer
      <3>6. At(timers)' = At(timers')
        BY DEF At
      <3>7. QED
        BY <2>3, <2>4, <2>6, <3>1, <3>2, <3>3, <3>4, <3>5, <3>6 DEF NoDanglingTimer
    <2>10. NumbersAreUnique'
      BY <2>6, <2>7 DEF NumbersAreUnique, Types
    <2>11. CancelledIsNoted'
      <3>1. \A a \in Addresses \ {b} : heap[a] # Free => heap[a].sequence # id[2]
        BY <2>1 DEF NumbersAreUnique
      <3>2. QED
        BY <2>2, <2>6, <2>7, <3>1 DEF CancelledIsNoted, At
    <2>12. CancelledIsGone'
      <3>1. ASSUME NEW s \in cancelled', s \in Queued' PROVE FALSE
        <4>1. PICK e \in timers' : s = heap'[e[2]].sequence
          BY <3>1 DEF Queued, SeqAt
        <4>2. e[2] \in At(timers') /\ e[2] # b /\ e[2] \in Addresses /\ e \in timers
          BY <2>2, <2>4 DEF At, Types
        <4>3. s = heap[e[2]].sequence /\ heap[e[2]] # Free /\ s \in Queued
          BY <2>6, <4>1, <4>2 DEF NoDanglingTimer, At, Queued, SeqAt
        <4>4. s # id[2]
          BY <2>1, <4>2, <4>3 DEF NumbersAreUnique
        <4>5. QED
          BY <2>2, <3>1, <4>3, <4>4 DEF CancelledIsGone
      <3>2. QED
        BY <3>1 DEF CancelledIsGone
    <2>13. cancelled' \subseteq 0..numCreated'
      <3>1. heap[b].sequence \in 0..numCreated
        BY <2>1 DEF NumbersAreUnique, Types, Timer
      <3>2. QED
        BY Zenon, <2>1, <2>2, <3>1
    <2>14. Queued \subseteq Queued' \cup cancelled'
      <3> SUFFICES ASSUME NEW e \in timers PROVE SeqAt(e) \in Queued' \cup cancelled'
        BY DEF Queued
      <3>1. e[2] \in Addresses
        BY DEF Types
      <3>2. CASE e[2] = b
        BY <2>1, <2>2, <3>2 DEF SeqAt
      <3>3. CASE e[2] # b
        <4>1. e \in timers' /\ heap'[e[2]] = heap[e[2]]
          BY <2>2, <2>6, <3>1, <3>3
        <4>2. QED
          BY <4>1 DEF Queued, SeqAt
      <3>4. QED
        BY <3>2, <3>3
    <2>15. QED
      BY <2>2, <2>5, <2>8, <2>9, <2>10, <2>11, <2>12, <2>13, <2>14 DEF Types
  <1>2. CASE id \notin activeTimers
    <2>1. FindActive(id) = {} /\ DeletedBy(id) = {}
          /\ (id[1] \notin At(timers) \/ heap[id[1]].sequence # id[2])
      BY <1>2, Found
    <2>2. timers' = timers /\ activeTimers' = activeTimers
      BY <2>1 DEF cancelInLoop
    <2>3. heap' = heap
      BY <2>1 DEF cancelInLoop, Types
    <2>4. cancelingTimers' = IF calling THEN cancelingTimers \cup {id} ELSE cancelingTimers
      BY <2>1 DEF cancelInLoop, NotesCancel
    <2>5. /\ cancelled \subseteq cancelled' /\ cancelled' \subseteq cancelled \cup {id[2]}
          /\ id[2] \in cancelled' \ cancelled => \E e \in batch : id = <<e[2], heap[e[2]].sequence>>
      BY <1>2 DEF cancelInLoop
    <2>6. UNCHANGED <<IndexesAgree, NumbersAreUnique>>
      BY ZenonT(60), <2>2, <2>3 DEF IndexesAgree, NumbersAreUnique, SeqAt
    <2>7. NoDanglingTimer'
      BY <2>2, <2>3 DEF NoDanglingTimer, At, Arriving
    <2>8. ASSUME id[2] \in cancelled' \ cancelled
          PROVE  /\ id[1] \in At(batch) /\ heap[id[1]].sequence = id[2] /\ heap[id[1]] # Free
                 /\ id[1] \in Addresses /\ id = <<id[1], id[2]>>
                 /\ id \in cancelingTimers'
      <3>1. PICK e \in batch : id = <<e[2], heap[e[2]].sequence>>
        BY <2>5, <2>8
      <3>2. calling
        BY <3>1
      <3>3. id[1] = e[2] /\ id[1] \in At(batch)
        BY <3>1 DEF At
      <3>4. QED
        BY <2>4, <3>1, <3>2, <3>3 DEF NoDanglingTimer, Ids
    <2>9. CancelledIsNoted'
      <3> SUFFICES ASSUME NEW a \in Addresses, heap[a].sequence \in cancelled', heap[a] # Free
                   PROVE  a \in At(batch) /\ <<a, heap[a].sequence>> \in cancelingTimers'
        BY <2>3 DEF CancelledIsNoted, At
      <3>1. CASE heap[a].sequence \in cancelled
        BY <2>4, <3>1 DEF CancelledIsNoted
      <3>2. CASE heap[a].sequence \notin cancelled
        <4>1. heap[a].sequence = id[2] /\ id[2] \in cancelled' \ cancelled
          BY Zenon, <2>5, <3>2
        <4>2. a = id[1]
          BY <2>8, <4>1 DEF NumbersAreUnique
        <4>3. QED
          BY <2>8, <4>1, <4>2
      <3>3. QED
        BY <3>1, <3>2
    <2>10. CancelledIsGone'
      <3>1. Queued' = Queued
        BY <2>2, <2>3 DEF Queued, SeqAt
      <3>2. ASSUME id[2] \in cancelled' \ cancelled, id[2] \in Queued PROVE FALSE
        <4>1. PICK e \in timers : id[2] = heap[e[2]].sequence
          BY <3>2 DEF Queued, SeqAt
        <4>2. e[2] \in At(timers) /\ e[2] \in Addresses /\ heap[e[2]] # Free
          BY DEF At, Types, NoDanglingTimer
        <4>3. e[2] = id[1]
          BY <2>8, <3>2, <4>1, <4>2 DEF NumbersAreUnique
        <4>4. QED
          BY <2>8, <3>2, <4>2, <4>3 DEF NoDanglingTimer
      <3>3. QED
        BY Zenon, <2>5, <3>1, <3>2 DEF CancelledIsGone
    <2>11. cancelled' \subseteq 0..numCreated'
      <3>1. \A a \in Addresses : heap[a].sequence \in 0..numCreated
        BY DEF NumbersAreUnique, Types, Timer
      <3>2. QED
        BY <2>5, <2>8, <3>1
    <2>12. Queued' = Queued
      BY <2>2, <2>3 DEF Queued, SeqAt
    <2>13. QED
      BY <2>2, <2>3, <2>6, <2>7, <2>9, <2>10, <2>11, <2>12 DEF Types
  <1>3. QED
    BY <1>1, <1>2
-----------------------------------------------------------------------------
(* new Timer(): a free address, which no index knows, gets a number that   *)
(* was never given out.                                                    *)
LEMMA NewKeeps ==
  ASSUME Types, QueueInv, NEW a \in Addresses, NEW when \in Nat, NEW i \in Nat,
         newTimer(a, when, i), UNCHANGED <<batch, cancelled, cancelingTimers>>
  PROVE  /\ heap' \in [Addresses -> Timer]
         /\ numCreated' = numCreated + 1
         /\ \A x \in Addresses \ {a} : heap'[x] = heap[x]
         /\ heap'[a].sequence = numCreated' /\ heap'[a].expiration = when
         /\ heap'[a] # Free /\ heap[a] = Free
         /\ a \notin At(timers) \cup At(batch) \cup Arriving
         /\ NumbersAreUnique' /\ CancelledIsNoted' /\ cancelled' \subseteq 0..numCreated'
         /\ numCreated' \notin cancelled'
  <1> DEFINE timer == [sequence |-> numCreated + 1, expiration |-> when, interval |-> i]
  <1>1. heap' = [heap EXCEPT ![a] = timer] /\ heap[a] = Free /\ numCreated' = numCreated + 1
    BY DEF newTimer
  <1>2. timer \in Timer /\ timer.sequence = numCreated + 1 /\ timer.expiration = when
    BY DEF Types, Timer
  <1>3. timer # Free /\ numCreated + 1 # 0
    BY DEF Types, Free
  <1> HIDE DEF timer
  <1>4. heap' \in [Addresses -> Timer] /\ heap'[a] = timer /\ \A x \in Addresses \ {a} : heap'[x] = heap[x]
    BY <1>1, <1>2 DEF Types
  <1>5. a \notin At(timers) \cup At(batch) \cup Arriving
    BY <1>1 DEF QueueInv, IndexesAreSound, NoDanglingTimer
  <1>6. \A x \in Addresses : heap[x].sequence \in Nat /\ heap[x].sequence <= numCreated
    BY DEF QueueInv, NumbersAreUnique, Types, Timer
  <1>7. numCreated \in Nat
    BY DEF Types
  <1>8. NumbersAreUnique'
    <2>1. \A x \in Addresses : heap'[x].sequence <= numCreated' /\ (heap'[x] = Free <=> heap'[x].sequence = 0)
      BY <1>1, <1>2, <1>3, <1>4, <1>6, <1>7 DEF QueueInv, NumbersAreUnique
    <2>2. \A x \in Addresses \ {a} : heap'[x].sequence # heap'[a].sequence
      BY <1>2, <1>4, <1>6, <1>7
    <2>3. \A x, y \in Addresses : heap'[x].sequence = heap'[y].sequence /\ heap'[x] # Free => x = y
      BY <1>4, <2>2 DEF QueueInv, NumbersAreUnique
    <2>4. QED
      BY <2>1, <2>3 DEF NumbersAreUnique
  <1>9. numCreated' \notin cancelled' /\ cancelled' \subseteq 0..numCreated'
    BY <1>1, <1>7 DEF QueueInv
  <1>10. CancelledIsNoted'
    BY <1>1, <1>2, <1>4, <1>9 DEF QueueInv, CancelledIsNoted, At
  <1>11. QED
    BY <1>1, <1>2, <1>3, <1>4, <1>5, <1>8, <1>9, <1>10

(* insert() of a Timer at an address no entry points to: both indexes get  *)
(* it, and keep agreeing.                                                  *)
LEMMA InsertKeeps ==
  ASSUME Types, QueueInv, NEW a \in Addresses, a \notin At(timers),
         heap' \in [Addresses -> Timer],
         \A x \in Addresses \ {a} : heap'[x] = heap[x],
         insertTimer(a, heap'[a]), heap'[a].sequence \notin cancelled, UNCHANGED cancelled
  PROVE  /\ timers' \in SUBSET (Nat \X Addresses) /\ activeTimers' \in SUBSET Ids
         /\ At(timers)' = At(timers) \cup {a}
         /\ IndexesAgree' /\ CancelledIsGone'
         /\ Queued \subseteq Queued'
  <1>1. heap'[a].expiration \in Nat /\ heap'[a].sequence \in Nat
    BY DEF Timer
  <1>2. PICK e0 \in Nat \X Addresses : e0 = <<heap'[a].expiration, a>>
    BY Zenon, <1>1
  <1>3. timers' = timers \cup {e0} /\ activeTimers' = activeTimers \cup {<<a, heap'[a].sequence>>}
    BY <1>2 DEF insertTimer
  <1> e0[2] = a /\ e0[1] = heap'[a].expiration
    BY <1>2
  <1>4. timers' \in SUBSET (Nat \X Addresses) /\ activeTimers' \in SUBSET Ids
    BY <1>3, <1>1, <1>2 DEF Types, Ids
  <1>5. At(timers)' = At(timers) \cup {a}
    BY <1>3, <1>2 DEF At
  <1>6. \A e \in timers : e[2] \in Addresses \ {a}
    BY DEF At, Types
  <1>7. \A e \in timers : SeqAt(e)' = SeqAt(e) /\ heap'[e[2]].expiration = e[1]
    BY <1>6 DEF SeqAt, QueueInv, IndexesAreSound, IndexesAgree
  <1>8. SeqAt(e0)' = heap'[a].sequence
    BY <1>2 DEF SeqAt
  <1>9. IndexesAgree'
    <2>1. \A e \in timers' : heap'[e[2]].expiration = e[1]
      BY <1>3, <1>2, <1>7
    <2>2. activeTimers = {<<e[2], SeqAt(e)>> : e \in timers}
      BY DEF QueueInv, IndexesAreSound, IndexesAgree
    <2>3. activeTimers' = {<<e[2], SeqAt(e)'>> : e \in timers'}
      <3>1. <<e0[2], SeqAt(e0)'>> = <<a, heap'[a].sequence>>
        BY <1>2, <1>8
      <3>2. \A e \in timers : <<e[2], SeqAt(e)'>> = <<e[2], SeqAt(e)>>
        BY <1>7
      <3>3. QED
        BY <1>3, <2>2, <3>1, <3>2
    <2>4. QED
      BY <2>1, <2>3 DEF IndexesAgree
  <1>10. CancelledIsGone' /\ Queued \subseteq Queued'
    <2>1. Queued' = Queued \cup {heap'[a].sequence}
      BY <1>3, <1>7, <1>8 DEF Queued
    <2>2. QED
      BY <2>1 DEF QueueInv, IndexesAreSound, CancelledIsGone
  <1>11. QED
    BY <1>4, <1>5, <1>9, <1>10
-----------------------------------------------------------------------------
(* addTimer() on the loop's thread.                                        *)
LEMMA AddHereKeeps ==
  ASSUME Types, QueueInv, NEW a \in Addresses, NEW when \in Nat, NEW i \in Nat,
         addTimerHere(a, when, i)
  PROVE  Types' /\ QueueInv' /\ Queued \subseteq Queued'
  <1>1. newTimer(a, when, i) /\ insertTimer(a, heap'[a])
    BY DEF addTimerHere
  <1>2. UNCHANGED <<now, calling, cancelingTimers, batch, resetAt, pending, adding, cancelled>>
    BY DEF addTimerHere, batchVars, historyVars
  <1>3. /\ heap' \in [Addresses -> Timer]
        /\ numCreated' = numCreated + 1
        /\ \A x \in Addresses \ {a} : heap'[x] = heap[x]
        /\ heap'[a].sequence = numCreated' /\ heap'[a] # Free /\ heap[a] = Free
        /\ a \notin At(timers) \cup At(batch) \cup Arriving
        /\ NumbersAreUnique' /\ CancelledIsNoted' /\ cancelled' \subseteq 0..numCreated'
        /\ numCreated' \notin cancelled
    BY ZenonT(60), <1>1, <1>2, NewKeeps
  <1>4. /\ timers' \in SUBSET (Nat \X Addresses) /\ activeTimers' \in SUBSET Ids
        /\ At(timers)' = At(timers) \cup {a}
        /\ IndexesAgree' /\ CancelledIsGone' /\ Queued \subseteq Queued'
    BY ZenonT(60), <1>1, <1>2, <1>3, InsertKeeps
  <1>5. ids' = ids \cup {<<a, numCreated'>>}
    BY <1>3 DEF addTimerHere
  <1>6. Types'
    BY <1>2, <1>3, <1>4, <1>5 DEF Types, Ids
  <1>7. NoDanglingTimer'
    <2> USE DEF QueueInv, IndexesAreSound
    <2>1. At(batch)' = At(batch) /\ Arriving' = Arriving /\ Adds(pending)' = Adds(pending)
      BY ZenonT(60), <1>2 DEF At, Arriving, Adds
    <2>2. {x \in Addresses : heap'[x] # Free} = {x \in Addresses : heap[x] # Free} \cup {a}
      BY <1>3
    <2>3. \A e \in batch : e[2] \in Addresses \ {a}
      BY ZenonT(60), <1>3 DEF At, Types
    <2>4. \A id \in Adds(pending) : id[1] \in Addresses \ {a}
      BY ZenonT(60), <1>3 DEF Arriving, NoDanglingTimer
    <2>5. AddsOnce(pending)'
      BY ZenonT(60), <1>2 DEF AddsOnce, NoDanglingTimer
    <2>6. /\ (At(timers) \cup At(batch) \cup Arriving)' = {x \in Addresses : heap'[x] # Free}
          /\ (At(timers) \cap At(batch))' = {} /\ ((At(timers) \cup At(batch)) \cap Arriving)' = {}
      BY ZenonT(60), <1>3, <1>4, <2>1, <2>2 DEF NoDanglingTimer
    <2>7. \A e \in batch : heap'[e[2]].expiration = e[1]
      BY ZenonT(60), <1>3, <2>3 DEF NoDanglingTimer
    <2>8. \A id \in Adds(pending) : heap'[id[1]].sequence = id[2]
      BY <1>3, <2>4 DEF NoDanglingTimer
    <2>9. QED
      BY ZenonT(60), <1>2, <2>1, <2>5, <2>6, <2>7, <2>8 DEF NoDanglingTimer
  <1>8. QED
    BY <1>2, <1>3, <1>4, <1>6, <1>7 DEF QueueInv, IndexesAreSound

(* addTimer() on another thread: the new Timer belongs to the queued call. *)
LEMMA AddKeeps ==
  ASSUME Types, QueueInv, NEW t \in Threads, NEW a \in Addresses, NEW when \in Nat, NEW i \in Nat,
         addTimer(t, a, when, i)
  PROVE  Types' /\ QueueInv' /\ Queued \subseteq Queued'
  <1>1. newTimer(a, when, i)
    BY DEF addTimer
  <1>2. UNCHANGED <<now, timers, activeTimers, calling, cancelingTimers, batch, resetAt, ids, cancelled>>
    BY ZenonT(60) DEF addTimer, batchVars, historyVars
  <1>3. /\ heap' \in [Addresses -> Timer]
        /\ numCreated' = numCreated + 1
        /\ \A x \in Addresses \ {a} : heap'[x] = heap[x]
        /\ heap'[a].sequence = numCreated' /\ heap'[a] # Free /\ heap[a] = Free
        /\ a \notin At(timers) \cup At(batch) \cup Arriving
        /\ NumbersAreUnique' /\ CancelledIsNoted' /\ cancelled' \subseteq 0..numCreated'
    BY ZenonT(60), <1>1, <1>2, NewKeeps
  <1>4. PICK id \in Ids : id = <<a, numCreated'>>
    <2>1. numCreated + 1 \in Nat
      BY DEF Types
    <2>2. <<a, numCreated + 1>> \in Ids
      BY <2>1 DEF Ids
    <2>3. QED
      BY <1>3, <2>2
  <1>5. PICK f \in Calls : f = [op |-> "add", id |-> id]
    BY Zenon DEF Calls
  <1>6. f.op = "add" /\ f.id = id /\ id[1] = a /\ id[2] = numCreated'
    BY <1>4, <1>5
  <1>7. pending' = Append(pending, f) /\ adding' = [adding EXCEPT ![t] = id]
    BY ZenonT(60), <1>4, <1>5 DEF addTimer
  <1>8. id \notin Adds(pending)
    BY ZenonT(60), <1>3, <1>6 DEF Arriving
  <1>9. pending' \in Seq(Calls) /\ Adds(pending') = Adds(pending) \cup {id} /\ AddsOnce(pending')
    BY ZenonT(60), <1>6, <1>7, <1>8, Queued1 DEF Types, QueueInv, IndexesAreSound, NoDanglingTimer
  <1>10. Types'
    BY <1>2, <1>3, <1>7, <1>9 DEF Types
  <1> USE DEF QueueInv, IndexesAreSound
  <1>11. \A e \in timers \cup batch : e[2] \in Addresses \ {a}
    BY ZenonT(60), <1>3 DEF At, Types
  <1>12. IndexesAgree' /\ CancelledIsGone' /\ Queued' = Queued
    <2>1. \A e \in timers : SeqAt(e)' = SeqAt(e) /\ heap'[e[2]].expiration = heap[e[2]].expiration
      BY ZenonT(60), <1>3, <1>11 DEF SeqAt
    <2>2. {<<e[2], SeqAt(e)'>> : e \in timers} = {<<e[2], SeqAt(e)>> : e \in timers}
      BY <2>1
    <2>3. Queued' = Queued
      BY ZenonT(60), <1>2, <2>1 DEF Queued
    <2>4. QED
      BY <1>2, <2>1, <2>2, <2>3 DEF IndexesAgree, CancelledIsGone
  <1>13. NoDanglingTimer'
    <2>1. At(batch)' = At(batch) /\ At(timers)' = At(timers) /\ Arriving' = Arriving \cup {a}
      BY ZenonT(60), <1>2, <1>6, <1>9 DEF At, Arriving
    <2>2. {x \in Addresses : heap'[x] # Free} = {x \in Addresses : heap[x] # Free} \cup {a}
      BY ZenonT(60), <1>3
    <2>3. \A x \in Adds(pending) : x[1] \in Addresses \ {a}
      BY ZenonT(60), <1>3 DEF Arriving, NoDanglingTimer
    <2>4. \A x \in Adds(pending') : heap'[x[1]].sequence = x[2]
      <3>1. \A x \in Adds(pending) : heap'[x[1]].sequence = x[2]
        BY ZenonT(60), <1>3, <2>3 DEF NoDanglingTimer
      <3> QED BY ONLY ZenonT(60), <3>1, <1>3, <1>6, <1>9
    <2>5. \A e \in batch : heap'[e[2]].expiration = e[1]
      BY ZenonT(60), <1>3, <1>11 DEF NoDanglingTimer
    <2>6. /\ (At(timers) \cup At(batch) \cup Arriving)' = {x \in Addresses : heap'[x] # Free}
          /\ (At(timers) \cap At(batch))' = {} /\ ((At(timers) \cup At(batch)) \cap Arriving)' = {}
      BY ZenonT(60), <1>3, <2>1, <2>2 DEF NoDanglingTimer
    <2>7. QED
      BY ZenonT(60), <1>2, <1>9, <2>4, <2>5, <2>6 DEF NoDanglingTimer
  <1>14. QED
    BY <1>2, <1>3, <1>10, <1>12, <1>13
(* A queued call is run: the insertion of a Timer that the call owned, or  *)
(* a cancellation.                                                         *)
LEMMA PendingKeeps ==
  ASSUME Types, QueueInv, runPending
  PROVE  Types' /\ QueueInv' /\ Queued \subseteq Queued' \cup cancelled'
  <1>1. PICK f \in Calls : f = Head(pending)
    BY Zenon, Dequeued DEF Types, runPending
  <1>2. PICK id \in Ids : id = f.id
    BY ZenonT(60) DEF Calls
  <1>3. /\ pending' \in Seq(Calls) /\ AddsOnce(pending')
        /\ f.op = "add" => id \notin Adds(pending') /\ Adds(pending) = Adds(pending') \cup {id}
        /\ f.op # "add" => Adds(pending) = Adds(pending')
    <2>1. pending \in Seq(Calls) /\ pending # <<>> /\ pending' = Tail(pending) /\ AddsOnce(pending)
      BY DEF Types, runPending, QueueInv, IndexesAreSound, NoDanglingTimer
    <2>2. /\ Tail(pending) \in Seq(Calls)
          /\ Adds(pending) = Adds(Tail(pending)) \cup (IF Head(pending).op = "add" THEN {Head(pending).id} ELSE {})
          /\ AddsOnce(Tail(pending))
          /\ Head(pending).op = "add" => Head(pending).id \notin Adds(Tail(pending))
      BY <2>1, Dequeued
    <2>3. QED
      BY ZenonT(60), <1>1, <1>2, <2>1, <2>2
  <1>4. UNCHANGED <<now, numCreated, calling, batch, resetAt, adding, ids>>
    BY DEF runPending
  <1>5. CASE f.op = "add"
    <2> DEFINE a == id[1]
    <2>1. insertTimer(a, heap[a]) /\ UNCHANGED <<heap, cancelingTimers, cancelled>>
      BY ZenonT(60), <1>1, <1>2, <1>5 DEF runPending
    <2> USE DEF QueueInv, IndexesAreSound
    <2>2. a \in Arriving /\ a \in Addresses /\ heap[a].sequence = id[2] /\ id \in Adds(pending)
      BY ZenonT(60), <1>3, <1>5 DEF Arriving, NoDanglingTimer, Ids
    <2>3. a \notin At(timers) /\ a \notin At(batch) /\ heap[a] # Free
      BY ZenonT(60), <2>2 DEF NoDanglingTimer
    <2>4. heap[a].sequence \notin cancelled
      BY Zenon, <2>2, <2>3 DEF CancelledIsNoted
    <2> HIDE DEF a, QueueInv, IndexesAreSound
    <2>5. heap' = heap /\ heap' \in [Addresses -> Timer] /\ insertTimer(a, heap'[a])
      BY ZenonT(60), <2>1 DEF Types
    <2>6. /\ timers' \in SUBSET (Nat \X Addresses) /\ activeTimers' \in SUBSET Ids
          /\ At(timers)' = At(timers) \cup {a}
          /\ IndexesAgree' /\ CancelledIsGone' /\ Queued \subseteq Queued'
      BY ZenonT(60), <2>1, <2>2, <2>3, <2>4, <2>5, InsertKeeps
    <2>7. Arriving' = Arriving \ {a}
      <3>1. \A x \in Adds(pending) : x \in Ids
        <4>1. \A i \in DOMAIN pending : pending[i] \in Calls
          BY DEF Types
        <4>2. QED
          BY <4>1 DEF Adds, Calls
      <3>2. \A x \in Adds(pending) : x[1] = a => x = id
        BY <2>2, <3>1 DEF QueueInv, IndexesAreSound, NoDanglingTimer, a, Ids
      <3>3. \A x \in Adds(pending') : x[1] # a
        BY ZenonT(60), <1>3, <1>5, <3>2
      <3>4. QED
        BY <1>3, <1>5, <2>2, <3>3 DEF Arriving, a
    <2>8. NoDanglingTimer'
      <3>1. At(batch)' = At(batch)
        BY <1>4 DEF At
      <3>2. \A x \in Adds(pending') : x \in Adds(pending)
        BY <1>3, <1>5
      <3>3. QED
        BY <1>3, <1>4, <2>2, <2>3, <2>5, <2>6, <2>7, <3>1, <3>2
        DEF QueueInv, IndexesAreSound, NoDanglingTimer
    <2>9. Types'
      BY <1>3, <1>4, <2>5, <2>6 DEF Types
    <2>10. NumbersAreUnique' /\ CancelledIsNoted'
      BY Zenon, <1>4, <2>1, <2>5 DEF QueueInv, NumbersAreUnique, CancelledIsNoted, At
    <2>11. QED
      BY <1>4, <2>1, <2>6, <2>8, <2>9, <2>10 DEF QueueInv, IndexesAreSound
  <1>6. CASE f.op = "cancel"
    <2>1. cancelInLoop(id)
      BY <1>1, <1>2, <1>6 DEF runPending
    <2>2. Adds(pending') = Adds(pending) /\ AddsOnce(pending')
      BY <1>3, <1>6
    <2>3. /\ QueueInv'
          /\ heap' \in [Addresses -> Timer]
          /\ timers' \in SUBSET (Nat \X Addresses) /\ activeTimers' \in SUBSET Ids
          /\ Queued \subseteq Queued' \cup cancelled'
      BY ZenonT(60), <1>4, <2>1, <2>2, CancelKeeps
    <2>4. QED
      BY ZenonT(60), <1>3, <1>4, <2>3 DEF Types
  <1>7. QED
    BY <1>5, <1>6 DEF Calls
(* handleRead(): the expired timers move from both indexes to the batch.   *)
LEMMA ReadKeeps ==
  ASSUME Types, QueueInv, handleRead
  PROVE  Types' /\ QueueInv'
  <1> USE DEF QueueInv, IndexesAreSound
  <1>1. batch = {} /\ At(batch) = {}
    BY ZenonT(60) DEF handleRead, At
  <1>2. /\ batch' = Expired /\ timers' = timers \ Expired
        /\ activeTimers' = activeTimers \ {<<e[2], heap[e[2]].sequence>> : e \in Expired}
        /\ calling' = TRUE /\ cancelingTimers' = {} /\ resetAt' = now
        /\ UNCHANGED <<now, heap, numCreated, pending, adding, ids, cancelled>>
    BY DEF handleRead, userVars, historyVars
  <1>3. Expired \subseteq timers
    BY ZenonT(60) DEF Expired
  <1> HIDE DEF QueueInv, IndexesAreSound
  <1>4. Types'
    BY <1>2, <1>3 DEF Types
  <1> USE DEF QueueInv, IndexesAreSound
  <1>5. \A e, d \in timers : e[2] = d[2] => e = d
    <2>1. \A e \in timers : e = <<e[1], e[2]>> /\ e[1] = heap[e[2]].expiration
      BY DEF Types, IndexesAgree
    <2>2. QED
      BY <2>1
  <1>6. /\ At(timers)' = At(timers \ Expired) /\ At(batch)' = At(Expired)
        /\ At(timers) = At(timers \ Expired) \cup At(Expired)
        /\ At(timers \ Expired) \cap At(Expired) = {}
    BY ZenonT(60), <1>2, <1>3, <1>5 DEF At
  <1>7. IndexesAgree'
    <2>1. \A e \in timers' : SeqAt(e)' = SeqAt(e) /\ heap'[e[2]].expiration = e[1]
      BY <1>2 DEF SeqAt, IndexesAgree
    <2>2. \A e \in timers, d \in Expired : <<e[2], SeqAt(e)>> = <<d[2], heap[d[2]].sequence>> => e = d
      BY <1>3, <1>5
    <2>3. \A e \in timers \ Expired : <<e[2], SeqAt(e)>> \notin {<<d[2], heap[d[2]].sequence>> : d \in Expired}
      BY <2>2
    <2>4. \A e \in Expired : <<e[2], SeqAt(e)>> = <<e[2], heap[e[2]].sequence>>
      BY DEF SeqAt
    <2>5. activeTimers = {<<e[2], SeqAt(e)>> : e \in timers}
      BY ZenonT(60) DEF IndexesAgree
    <2>6. activeTimers' = {<<e[2], SeqAt(e)>> : e \in timers \ Expired}
      BY ZenonT(60), <1>2, <1>3, <2>3, <2>4, <2>5
    <2>7. activeTimers' = {<<e[2], SeqAt(e)'>> : e \in timers'}
      BY <1>2, <2>1, <2>6
    <2>8. QED
      BY ZenonT(60), <2>1, <2>7 DEF IndexesAgree
  <1>8. NoDanglingTimer'
    <2>1. Arriving' = Arriving /\ Adds(pending)' = Adds(pending) /\ AddsOnce(pending)'
      BY ZenonT(60), <1>2 DEF Arriving, Adds, AddsOnce, NoDanglingTimer
    <2>2. \A e \in batch' : heap'[e[2]].expiration = e[1]
      BY ZenonT(60), <1>2, <1>3 DEF IndexesAgree
    <2>3. QED
      BY ZenonT(60), <1>1, <1>2, <1>6, <2>1, <2>2 DEF NoDanglingTimer
  <1>9. NumbersAreUnique' /\ CancelledIsNoted' /\ CancelledIsGone'
    <2>1. Queued' \subseteq Queued
      BY ZenonT(60), <1>2 DEF Queued, SeqAt
    <2>2. QED
      BY ZenonT(60), <1>1, <1>2, <2>1 DEF NumbersAreUnique, CancelledIsNoted, CancelledIsGone
  <1>10. QED
    BY ZenonT(60), <1>2, <1>4, <1>7, <1>8, <1>9

(* The end of handleRead(): of the batch, the repeating timers that were   *)
(* not cancelled go back under their new keys, the others are deleted.     *)
LEMMA ResetKeeps ==
  ASSUME Types, QueueInv, reset
  PROVE  Types' /\ QueueInv' /\ Queued \subseteq Queued'
  <1> DEFINE again == {a \in At(batch) : Repeats(a)}
             gone == At(batch) \ again
             back == {<<ReinsertedAt(a), a>> : a \in again}
  <1>1. /\ calling' = FALSE /\ batch' = {} /\ resetAt' = 0
        /\ heap' = [a \in Addresses |-> IF a \in again THEN Restarted(heap[a])
                                        ELSE IF a \in gone THEN Free ELSE heap[a]]
        /\ timers' = timers \cup back
        /\ activeTimers' = activeTimers \cup {<<a, heap[a].sequence>> : a \in again}
        /\ UNCHANGED <<now, numCreated, cancelingTimers, pending, adding, ids, cancelled>>
    BY Zenon DEF reset, CallingAfter, userVars, historyVars, At
  <1>2. At(batch) \subseteq Addresses /\ again \subseteq Addresses
    BY DEF Types, At
  <1>3. \A a \in again : /\ Restarted(heap[a]) \in Timer
                         /\ Restarted(heap[a]).sequence = heap[a].sequence
                         /\ Restarted(heap[a]).expiration = ReinsertedAt(a)
                         /\ ReinsertedAt(a) \in Nat
    <2> SUFFICES ASSUME NEW a \in again
                 PROVE  /\ Restarted(heap[a]) \in Timer
                        /\ Restarted(heap[a]).sequence = heap[a].sequence
                        /\ Restarted(heap[a]).expiration = ReinsertedAt(a)
                        /\ ReinsertedAt(a) \in Nat
      OBVIOUS
    <2>1. PICK x \in Timer : x = heap[a]
      BY <1>2 DEF Types
    <2>2. resetAt \in Nat /\ x.interval \in Nat
      BY <2>1 DEF Types, Timer
    <2>3. Restarted(x) \in Timer /\ Restarted(x).sequence = x.sequence /\ Restarted(x).expiration \in Nat
      BY ONLY SMTT(60), Z3T(60), <2>2, x \in Timer DEF Timer, Restarted
    <2> QED BY ZenonT(60), <2>1, <2>3 DEF ReinsertedAt
  <1>4. \A a \in At(batch) : a \notin At(timers) /\ a \notin Arriving /\ heap[a] # Free
    BY ZenonT(60) DEF QueueInv, IndexesAreSound, NoDanglingTimer
  <1>5. \A a \in again : <<a, heap[a].sequence>> \notin cancelingTimers
    BY ZenonT(60) DEF Repeats
  <1> HIDE DEF again, gone, back
  <1>6. /\ \A a \in again : heap'[a] = Restarted(heap[a])
        /\ \A a \in gone : heap'[a] = Free
        /\ \A a \in Addresses \ At(batch) : heap'[a] = heap[a]
    BY ZenonT(60), <1>1, <1>2 DEF again, gone
  <1>7. heap' \in [Addresses -> Timer]
    <2>1. Free \in Timer
      BY DEF Free, Timer
    <2>2. QED
      BY <1>1, <1>3, <2>1 DEF Types
  <1>8. At(batch) = again \cup gone /\ again \cap gone = {}
    BY ZenonT(60) DEF again, gone
  <1>9. \A a \in again : heap[a].sequence # 0 /\ heap'[a] # Free
    <2>1. \A a \in again : heap[a].sequence # 0
      BY <1>2, <1>4, <1>8 DEF QueueInv, NumbersAreUnique
    <2>2. Free.sequence = 0
      BY DEF Free
    <2>3. QED
      BY ZenonT(60), <1>3, <1>6, <2>1, <2>2
  <1>10. back \subseteq Nat \X Addresses /\ At(back) = again
    <2>1. \A a \in again : <<ReinsertedAt(a), a>> \in Nat \X Addresses /\ <<ReinsertedAt(a), a>>[2] = a
      BY ZenonT(60), <1>2, <1>3
    <2>2. QED
      BY ZenonT(60), <2>1 DEF back, At
  <1>11. Types'
    <2>1. \A a \in again : <<a, heap[a].sequence>> \in Ids
      BY ZenonT(60), <1>2 DEF Types, Timer, Ids
    <2>2. QED
      BY ZenonT(60), <1>1, <1>7, <1>10, <2>1 DEF Types
  <1>12. \A e \in timers : e[2] \in Addresses \ At(batch) /\ heap'[e[2]] = heap[e[2]]
    <2>1. \A e \in timers : e[2] \in Addresses /\ e[2] \in At(timers)
      BY ZenonT(60) DEF At, Types
    <2>2. QED
      BY ZenonT(60), <1>4, <1>6, <2>1
  <1>13. \A e \in back : /\ e[2] \in again /\ heap'[e[2]].expiration = e[1]
                         /\ heap'[e[2]].sequence = heap[e[2]].sequence
    <2> SUFFICES ASSUME NEW a \in again, NEW e, e = <<ReinsertedAt(a), a>>
                 PROVE  /\ e[2] \in again /\ heap'[e[2]].expiration = e[1]
                        /\ heap'[e[2]].sequence = heap[e[2]].sequence
      BY DEF back
    <2>1. e[1] = ReinsertedAt(a) /\ e[2] = a
      OBVIOUS
    <2>2. QED
      BY ZenonT(60), <1>3, <1>6, <2>1
  <1>14. IndexesAgree'
    <2>1. \A e \in timers' : heap'[e[2]].expiration = e[1]
      BY ZenonT(60), <1>1, <1>12, <1>13 DEF QueueInv, IndexesAreSound, IndexesAgree
    <2>2. activeTimers = {<<e[2], SeqAt(e)>> : e \in timers}
      BY DEF QueueInv, IndexesAreSound, IndexesAgree
    <2>3. \A e \in timers : <<e[2], SeqAt(e)'>> = <<e[2], SeqAt(e)>>
      BY <1>12 DEF SeqAt
    <2>4. \A e \in back : <<e[2], SeqAt(e)'>> = <<e[2], heap[e[2]].sequence>>
      BY <1>13 DEF SeqAt
    <2>5. {<<a, heap[a].sequence>> : a \in again} = {<<e[2], SeqAt(e)'>> : e \in back}
      BY ZenonT(60), <1>10, <2>4 DEF At
    <2>6. activeTimers' = {<<e[2], SeqAt(e)'>> : e \in timers'}
      BY <1>1, <2>2, <2>3, <2>5
    <2>7. QED
      BY ZenonT(60), <2>1, <2>6 DEF IndexesAgree
  <1>15. NoDanglingTimer'
    <2>1. At(timers)' = At(timers) \cup again /\ At(batch)' = {}
      BY <1>1, <1>10 DEF At
    <2>2. Arriving' = Arriving /\ Adds(pending)' = Adds(pending) /\ AddsOnce(pending)'
      BY ZenonT(60), <1>1 DEF Arriving, Adds, AddsOnce, QueueInv, IndexesAreSound, NoDanglingTimer
    <2>3. \A x \in Addresses : heap'[x] # Free <=> heap[x] # Free /\ x \notin gone
      BY ZenonT(60), <1>4, <1>6, <1>8, <1>9
    <2>4. \A id \in Adds(pending) : id[1] \in Addresses \ At(batch)
      BY ZenonT(60), <1>4 DEF Arriving, QueueInv, IndexesAreSound, NoDanglingTimer
    <2>5. \A id \in Adds(pending) : heap'[id[1]].sequence = id[2]
      BY ZenonT(60), <1>6, <2>4 DEF QueueInv, IndexesAreSound, NoDanglingTimer
    <2>6. QED
      BY ZenonT(60), <1>1, <1>4, <1>8, <2>1, <2>2, <2>3, <2>5 DEF QueueInv, IndexesAreSound, NoDanglingTimer
  <1>16. \A a \in Addresses : \/ heap'[a].sequence = heap[a].sequence /\ (heap'[a] = Free <=> heap[a] = Free)
                              \/ heap'[a] = Free /\ heap'[a].sequence = 0
    <2>1. Free.sequence = 0
      BY DEF Free
    <2>2. QED
      BY ZenonT(60), <1>3, <1>4, <1>6, <1>8, <1>9, <2>1
  <1>17. NumbersAreUnique'
    <2>1. NumbersAreUnique /\ numCreated' = numCreated /\ numCreated \in Nat
      BY <1>1 DEF QueueInv, Types
    <2>2. \A a \in Addresses : heap'[a].sequence <= numCreated /\ (heap'[a] = Free <=> heap'[a].sequence = 0)
      BY ONLY SMTT(60), Z3T(60), <1>16, <2>1 DEF NumbersAreUnique
    <2>3. \A a, b \in Addresses : heap'[a].sequence = heap'[b].sequence /\ heap'[a] # Free => a = b
      BY ONLY ZenonT(60), <1>16, <2>1, <2>2 DEF NumbersAreUnique
    <2> QED BY ONLY SMTT(60), Z3T(60), <2>1, <2>2, <2>3 DEF NumbersAreUnique
  <1>18. \A a \in Addresses : heap'[a].sequence \in cancelled => heap'[a] = Free
    <2> SUFFICES ASSUME NEW a \in Addresses, heap'[a].sequence \in cancelled, heap'[a] # Free
                 PROVE  FALSE
      OBVIOUS
    <2>1. heap[a].sequence \in cancelled /\ heap[a] # Free
      BY <1>16
    <2>2. a \in At(batch) /\ <<a, heap[a].sequence>> \in cancelingTimers
      BY <2>1 DEF QueueInv, CancelledIsNoted
    <2>3. QED
      BY <1>5, <1>6, <1>8, <2>2
  <1>19. CancelledIsNoted' /\ CancelledIsGone'
    <2>1. CancelledIsNoted'
      BY ZenonT(60), <1>1, <1>18 DEF CancelledIsNoted
    <2>2. \A e \in timers' : e[2] \in Addresses /\ e[2] \in At(timers)'
      BY <1>11 DEF At, Types
    <2>3. \A e \in timers' : heap'[e[2]] # Free
      BY ZenonT(60), <1>15, <2>2 DEF NoDanglingTimer
    <2>4. CancelledIsGone'
      BY <1>1, <1>18, <2>2, <2>3 DEF CancelledIsGone, Queued, SeqAt
    <2>5. QED
      BY ZenonT(60), <2>1, <2>4
  <1>20. Queued \subseteq Queued'
    BY ZenonT(60), <1>1, <1>12 DEF Queued, SeqAt
  <1>21. QED
    BY Zenon, <1>1, <1>11, <1>14, <1>15, <1>17, <1>19, <1>20 DEF QueueInv, IndexesAreSound
-----------------------------------------------------------------------------
(* Every step of the loop and of the other threads keeps the invariant,    *)
(* and takes a timer from the queue only by cancelling it or to run it.    *)
LEMMA StepKeeps ==
  ASSUME NaturalTimes, Types, QueueInv, [Next]_vars
  PROVE  /\ Types' /\ QueueInv'
         /\ (Queued \subseteq Queued' \cup cancelled') \/ (~calling /\ calling')
  <1> DEFINE Kept == Queued \subseteq Queued' \cup cancelled'
             Goal == Types' /\ QueueInv' /\ (Kept \/ (~calling /\ calling'))
  <1> USE DEF queueVars, batchVars, userVars, historyVars
  <1>1. ASSUME UNCHANGED <<numCreated, queueVars, calling, cancelingTimers, batch, resetAt, pending, cancelled>>,
               now' \in Nat, adding' \in [Threads -> Ids \cup {<<>>}], ids' \in SUBSET Ids
        PROVE  Goal
    <2>1. Types'
      BY ZenonT(60), <1>1 DEF Types
    <2>2. IndexesAgree' /\ NumbersAreUnique' /\ CancelledIsNoted' /\ CancelledIsGone' /\ Queued' = Queued
      BY ZenonT(60), <1>1 DEF QueueInv, IndexesAreSound, IndexesAgree, NumbersAreUnique, CancelledIsNoted,
                  CancelledIsGone, Queued, SeqAt, At
    <2>3. NoDanglingTimer'
      <3>1. Adds(pending') = Adds(pending) /\ AddsOnce(pending') /\ UNCHANGED <<timers, batch, heap, calling, activeTimers>>
        BY ZenonT(60), <1>1 DEF QueueInv, IndexesAreSound, NoDanglingTimer
      <3>2. QED
        BY ZenonT(60), <3>1 DEF QueueInv, IndexesAreSound, NoDanglingTimer, At, Arriving
    <2>4. QED
      BY <1>1, <2>1, <2>2, <2>3 DEF QueueInv, IndexesAreSound
  <1>2. CASE handleRead
    BY ZenonT(60), <1>2, ReadKeeps DEF handleRead
  <1>3. CASE runTimer
    BY <1>1, <1>3 DEF runTimer, Types
  <1>4. CASE reset
    BY <1>4, ResetKeeps
  <1>5. CASE runPending
    BY <1>5, PendingKeeps
  <1>6. ASSUME NEW a \in Addresses, NEW when \in Whens, NEW i \in Intervals,
               addTimerHere(a, when, i) \/ \E t \in Threads : addTimer(t, a, when, i)
        PROVE  Goal
    <2>1. when \in Nat /\ i \in Nat
      BY DEF Whens, NaturalTimes, Types
    <2>2. QED
      BY ZenonT(60), <1>6, <2>1, AddHereKeeps, AddKeeps
  <1>7. ASSUME NEW t \in Threads, addTimerReturns(t)
        PROVE  Goal
    <2>1. adding[t] \in Ids
      BY <1>7 DEF addTimerReturns, Types
    <2>2. adding[t][1] \in Addresses /\ adding[t][2] \in Nat /\ heap[adding[t][1]].sequence \in Nat
      BY ZenonT(60), <2>1 DEF Ids, Types, Timer
    <2>3. PICK seq \in {adding[t][2], heap[adding[t][1]].sequence} : ids' = ids \cup {<<adding[t][1], seq>>}
      BY <1>7 DEF addTimerReturns
    <2>4. <<adding[t][1], seq>> \in Ids
      BY <2>2, <2>3 DEF Ids
    <2>5. ids' \in SUBSET Ids
      BY <2>3, <2>4 DEF Types
    <2>6. adding' \in [Threads -> Ids \cup {<<>>}]
      BY <1>7 DEF addTimerReturns, Types
    <2>7. QED
      BY ZenonT(60), <1>1, <1>7, <2>5, <2>6 DEF addTimerReturns, Types
  <1>8. ASSUME NEW id \in ids, cancelHere(id)
        PROVE  Goal
    <2>1. cancelInLoop(id) /\ id \in Ids
      BY <1>8 DEF cancelHere, Types
    <2>2. UNCHANGED <<now, numCreated, calling, batch, resetAt, pending, adding, ids>>
      BY ZenonT(60), <1>8 DEF cancelHere
    <2>3. Adds(pending') = Adds(pending) /\ AddsOnce(pending')
      BY <2>2 DEF QueueInv, IndexesAreSound, NoDanglingTimer
    <2>4. /\ QueueInv' /\ Kept
          /\ heap' \in [Addresses -> Timer]
          /\ timers' \in SUBSET (Nat \X Addresses) /\ activeTimers' \in SUBSET Ids
      BY <2>1, <2>2, <2>3, CancelKeeps
    <2>5. QED
      BY <2>2, <2>4 DEF Types
  <1>9. ASSUME NEW id \in ids, cancel(id)
        PROVE  Goal
    <2>1. PICK f \in Calls : f = [op |-> "cancel", id |-> id]
      BY Zenon DEF Calls, Types
    <2>2. f.op # "add" /\ pending' = Append(pending, f)
      BY <1>9, <2>1 DEF cancel
    <2>3. pending' \in Seq(Calls) /\ Adds(pending') = Adds(pending) /\ AddsOnce(pending')
      <3>1. pending \in Seq(Calls) /\ AddsOnce(pending)
        BY DEF Types, QueueInv, IndexesAreSound, NoDanglingTimer
      <3>2. /\ Append(pending, f) \in Seq(Calls)
            /\ Adds(Append(pending, f)) = Adds(pending) \cup (IF f.op = "add" THEN {f.id} ELSE {})
            /\ AddsOnce(pending) /\ (f.op = "add" => f.id \notin Adds(pending))
                 => AddsOnce(Append(pending, f))
        BY ONLY ZenonT(60), <3>1, f \in Calls, Queued1
      <3>3. Adds(pending) \cup (IF f.op = "add" THEN {f.id} ELSE {}) = Adds(pending)
        BY ONLY SMTT(60), Z3T(60), <2>2
      <3> QED BY ONLY SMTT(60), Z3T(60), <2>2, <3>1, <3>2, <3>3
    <2>4. UNCHANGED <<now, numCreated, queueVars, batchVars, adding, ids, historyVars>>
      BY <1>9 DEF cancel
    <2>5. Types'
      BY ZenonT(60), <2>3, <2>4 DEF Types
    <2>6. IndexesAgree' /\ NumbersAreUnique' /\ CancelledIsNoted' /\ CancelledIsGone' /\ Queued' = Queued
      BY ZenonT(60), <2>4 DEF QueueInv, IndexesAreSound, IndexesAgree, NumbersAreUnique, CancelledIsNoted,
                  CancelledIsGone, Queued, SeqAt, At
    <2>7. NoDanglingTimer'
      BY Zenon, <2>3, <2>4 DEF QueueInv, IndexesAreSound, NoDanglingTimer, At, Arriving
    <2>8. QED
      BY <2>4, <2>5, <2>6, <2>7 DEF QueueInv, IndexesAreSound
  <1>10. CASE Tick
    <2>1. /\ UNCHANGED <<numCreated, queueVars, calling, cancelingTimers, batch, resetAt, pending, cancelled>>
          /\ now' = now + 1 /\ adding' = adding /\ ids' = ids
      BY <1>10 DEF Tick
    <2>2. now' \in Nat /\ adding' \in [Threads -> Ids \cup {<<>>}] /\ ids' \in SUBSET Ids
      BY <2>1 DEF Types
    <2> HIDE DEF Goal
    <2>3. Goal
      BY ONLY ZenonT(60), <1>1, <2>1, <2>2
    <2> QED BY <2>3 DEF Goal
  <1>11. CASE UNCHANGED vars
    BY <1>1, <1>11 DEF vars, Types
  <1>12. QED
    BY ZenonT(60), <1>2, <1>3, <1>4, <1>5, <1>6, <1>7, <1>8, <1>9, <1>10, <1>11 DEF Next, TimerHandler

(* The constructor leaves an empty queue.                                  *)
LEMMA Initially == Init => Types /\ QueueInv
  <1> SUFFICES ASSUME Init PROVE Types /\ QueueInv
    OBVIOUS
  <1> USE DEF Init
  <1>1. Free \in Timer /\ Free.sequence = 0
    BY DEF Free, Timer
  <1>2. Types
    BY <1>1 DEF Types
  <1>3. At(timers) = {} /\ At(batch) = {} /\ Adds(pending) = {} /\ Arriving = {} /\ AddsOnce(pending)
    BY DEF At, Adds, Arriving, AddsOnce
  <1>4. \A a \in Addresses : heap[a] = Free
    BY ZenonT(60)
  <1>5. IndexesAgree /\ NoDanglingTimer /\ CancelledIsGone
    BY <1>3, <1>4 DEF IndexesAgree, NoDanglingTimer, CancelledIsGone
  <1>6. NumbersAreUnique /\ CancelledIsNoted
    BY <1>1, <1>4 DEF NumbersAreUnique, CancelledIsNoted
  <1>7. QED
    BY <1>2, <1>5, <1>6 DEF QueueInv, IndexesAreSound

-----------------------------------------------------------------------------
(* Timer* are compared as numbers. *)
NaturalAddresses == Addresses \subseteq Nat

(* A set of natural numbers has a least one. *)
Less == {p \in Nat \X Nat : p[1] < p[2]}

LEMMA LeastNat ==
  ASSUME NEW S \in SUBSET Nat, S # {}
  PROVE  \E n \in S : \A m \in S : n <= m
  <1>1. IsWellFoundedOn(Less, Nat)
    BY NatLessThanWellFounded, Zenon DEF OpToRel, Less
  <1>2. S \subseteq Nat
    BY Zenon
  <1>3. PICK n \in S : \A m \in S : ~(<<m, n>> \in Less)
    BY <1>1, <1>2, WFMin, Zenon
  <1>4. \A m, k \in Nat : <<m, k>> \in Less <=> m < k
    BY DEF Less
  <1>5. n \in Nat /\ \A m \in S : m \in Nat /\ ~(m < n)
    BY <1>2, <1>3, <1>4, Zenon
  <1>6. \A m \in S : n <= m
    BY <1>5
  <1>7. QED
    BY <1>6, Zenon

(* timers_.begin() is an entry, and none expires before it.                *)
LEMMA FirstIsLeast ==
  ASSUME NaturalAddresses, NEW S \in SUBSET (Nat \X Addresses), S # {}
  PROVE  /\ First(S) \in S
         /\ First(S)[1] \in Nat
         /\ \A e \in S : e[1] \in Nat /\ First(S)[1] <= e[1]
  <1>1. \A e \in S : e = <<e[1], e[2]>> /\ e[1] \in Nat /\ e[2] \in Nat
    <2>1. \A e \in Nat \X Addresses : e = <<e[1], e[2]>> /\ e[1] \in Nat /\ e[2] \in Addresses
      OBVIOUS
    <2>2. QED
      BY <2>1, Zenon DEF NaturalAddresses
  <1> DEFINE T == {e[1] : e \in S}
  <1>2. T \in SUBSET Nat /\ T # {}
    BY ZenonT(60), <1>1
  <1>3. PICK t \in T : \A u \in T : t <= u
    BY <1>2, LeastNat, Zenon
  <1> DEFINE A == {e[2] : e \in {d \in S : d[1] = t}}
  <1>4. A \in SUBSET Nat /\ A # {}
    BY <1>1, Zenon
  <1>5. PICK a \in A : \A b \in A : a <= b
    BY <1>4, LeastNat, Zenon
  <1>6. PICK e \in S : e[1] = t /\ e[2] = a
    BY <1>5, Zenon
  <1>7. \A f \in S \ {e} : Before(e, f)
    <2> SUFFICES ASSUME NEW f \in S, f # e PROVE Before(e, f)
      BY Zenon
    <2>1. t <= f[1]
      BY <1>3, Zenon
    <2>2. CASE f[1] = t
      <3>1. f[2] \in A
        BY <2>2, Zenon
      <3>2. a <= f[2]
        BY <3>1, <1>5, Zenon
      <3>3. f[2] # a
        BY <1>1, <1>6, <2>2, Zenon
      <3>4. e[1] \in Nat /\ e[2] \in Nat /\ f[1] \in Nat /\ f[2] \in Nat
        BY <1>1
      <3>5. QED
        BY <1>6, <2>2, <3>2, <3>3, <3>4 DEF Before
    <2>3. CASE f[1] # t
      <3>1. e[1] \in Nat /\ f[1] \in Nat
        BY <1>1
      <3>2. QED
        BY <1>6, <2>1, <2>3, <3>1 DEF Before
    <2>4. QED
      BY <2>2, <2>3
  <1>8. First(S) \in S /\ \A f \in S \ {First(S)} : Before(First(S), f)
    BY <1>7, Zenon DEF First
  <1> HIDE DEF T, A
  <1> DEFINE m == First(S)
  <1>9. m \in S /\ m[1] \in Nat
    BY <1>1, <1>8, Zenon
  <1>10. \A f \in S : m[1] <= f[1]
    <2> HIDE DEF m
    <2> SUFFICES ASSUME NEW f \in S PROVE m[1] <= f[1]
      OBVIOUS
    <2>1. CASE f = m  BY <1>9, <2>1
    <2>2. CASE f # m
      <3>1. Before(m, f) /\ f[1] \in Nat
        BY <1>1, <1>8, <2>2, Zenon DEF m
      <3>2. QED
        BY <1>9, <3>1 DEF Before
    <2>3. QED
      BY <2>1, <2>2
  <1>11. QED
    BY <1>1, <1>9, <1>10, Zenon

Alarm == alarm \in Nat /\ AlarmInv

(* insert() and, if the new timer is the first, resetTimerfd().            *)
LEMMA InsertArms ==
  ASSUME NaturalAddresses, Types, Types', Alarm,
         NEW a \in Addresses, NEW timer, timer.expiration \in Nat,
         insertTimer(a, timer), UNCHANGED <<now, calling>>
  PROVE  Alarm'
  <1> DEFINE w == timer.expiration
  <1>1. timers' = timers \cup {<<w, a>>} /\ now \in Nat
    BY Zenon DEF insertTimer, Types
  <1>2. timers \in SUBSET (Nat \X Addresses) /\ timers' \in SUBSET (Nat \X Addresses)
    BY Zenon DEF Types
  <1>3. timers' # {} /\ <<w, a>> \in timers' /\ \A e \in timers' : e \in timers \/ e[1] = w
    <2>1. <<w, a>>[1] = w
      OBVIOUS
    <2>2. QED
      BY <1>1, <2>1, Zenon
  <1> DEFINE n == First(timers')[1]
  <1>4. /\ n \in Nat /\ n <= w
        /\ \A e \in timers : n <= e[1]
        /\ n = w \/ \E e \in timers : n = e[1]
    <2>1. /\ First(timers') \in timers' /\ n \in Nat
          /\ \A e \in timers' : e[1] \in Nat /\ n <= e[1]
      BY <1>2, <1>3, FirstIsLeast, Zenon
    <2> HIDE DEF n
    <2>2. <<w, a>>[1] = w
      OBVIOUS
    <2>3. n <= w
      BY <1>3, <2>1, <2>2, Zenon
    <2>4. n = w \/ \E e \in timers : n = e[1]
      BY <1>3, <2>1, Zenon DEF n
    <2>5. QED
      BY <1>1, <2>1, <2>3, <2>4, Zenon
  <1>5. First(timers)' = First(timers')
    BY Zenon DEF First
  <1> HIDE DEF n, w
  <1>6. CASE EarliestChanged(w)
    <2>1. alarm' = Max(w, now + 1)
      BY <1>6, Zenon DEF insertTimer, AlarmFor, w
    <2>2. n = w
      <3>1. CASE timers = {}
        BY <1>4, <3>1, Zenon
      <3>2. CASE timers # {}
        <4>1. /\ First(timers)[1] \in Nat
              /\ \A e \in timers : e[1] \in Nat /\ First(timers)[1] <= e[1]
          BY <1>2, <3>2, FirstIsLeast, Zenon
        <4>2. w < First(timers)[1]
          BY <1>6, <3>2, Zenon DEF EarliestChanged
        <4>3. w \in Nat
          BY DEF w
        <4>4. QED
          BY <1>4, <4>1, <4>2, <4>3
      <3>3. QED
        BY <3>1, <3>2
    <2>3. w \in Nat
      BY DEF w
    <2>4. alarm' \in Nat /\ alarm' # 0 /\ alarm' <= Max(n, now + 1)
      BY <1>1, <2>1, <2>2, <2>3 DEF Max
    <2>5. QED
      BY <1>5, <2>4, Zenon DEF Alarm, AlarmInv, n
  <1>7. CASE ~EarliestChanged(w)
    <2>1. alarm' = alarm /\ timers # {} /\ ~(w < First(timers)[1])
      BY <1>7, Zenon DEF insertTimer, EarliestChanged, w
    <2>2. /\ First(timers) \in timers /\ First(timers)[1] \in Nat
          /\ \A e \in timers : e[1] \in Nat /\ First(timers)[1] <= e[1]
      BY <1>2, <2>1, FirstIsLeast, Zenon
    <2>3. w \in Nat
      BY DEF w
    <2>4. n = First(timers)[1]
      BY <1>4, <2>1, <2>2, <2>3
    <2>5. QED
      BY <1>5, <2>1, <2>4, Zenon DEF Alarm, AlarmInv, n
  <1>8. QED
    BY <1>6, <1>7

(* A later time, or a later first timer, asks for no earlier alarm.        *)
LEMMA MaxGrows ==
  ASSUME NEW x \in Nat, NEW m \in Nat, NEW n \in Nat, NEW s \in Nat, NEW t \in Nat,
         m <= n, s <= t, x <= Max(m, s + 1)
  PROVE  x <= Max(n, t + 1)
  <1>1. CASE m > s + 1
    <2>1. x <= m
      BY <1>1 DEF Max
    <2>2. QED
      BY <2>1 DEF Max
  <1>2. CASE ~(m > s + 1)
    <2>1. x <= s + 1
      BY <1>2 DEF Max
    <2>2. QED
      BY <2>1 DEF Max
  <1>3. QED
    BY <1>1, <1>2

(* A timer less, or a later time, and the alarm is still early enough.     *)
LEMMA StaysArmed ==
  ASSUME NaturalAddresses, Types, Types', Alarm,
         timers' \subseteq timers, now <= now', UNCHANGED <<alarm, calling>>
  PROVE  Alarm'
  <1>1. SUFFICES ASSUME timers' # {}, ~calling \/ First(timers')[1] = 0
                 PROVE  alarm # 0 /\ alarm <= Max(First(timers')[1], now' + 1)
    <2>1. First(timers)' = First(timers')
      BY Zenon DEF First
    <2>2. QED
      BY <1>1, <2>1, Zenon DEF Alarm, AlarmInv
  <1>2. timers \in SUBSET (Nat \X Addresses) /\ timers' \in SUBSET (Nat \X Addresses) /\ timers # {}
    BY <1>1, Zenon DEF Types
  <1>3. /\ First(timers)[1] \in Nat
        /\ \A e \in timers : First(timers)[1] <= e[1]
    BY <1>2, FirstIsLeast, Zenon
  <1>4. First(timers') \in timers' /\ First(timers')[1] \in Nat
    BY <1>1, <1>2, FirstIsLeast, Zenon
  <1>5. First(timers)[1] <= First(timers')[1]
    BY <1>3, <1>4, Zenon
  <1> DEFINE m == First(timers)[1]  n == First(timers')[1]
  <1>6. AlarmInv /\ alarm \in Nat /\ now \in Nat /\ now' \in Nat /\ now <= now'
    BY Zenon DEF Alarm, Types
  <1>7. n = 0 => m = 0
    BY <1>3, <1>4, <1>5
  <1>8. alarm # 0 /\ alarm <= Max(m, now + 1)
    BY <1>1, <1>2, <1>6, <1>7, Zenon DEF AlarmInv
  <1>9. m \in Nat /\ n \in Nat /\ m <= n
    BY <1>3, <1>4, <1>5, Zenon
  <1> HIDE DEF m, n
  <1>10. alarm # 0 /\ alarm <= Max(n, now' + 1)
    BY <1>6, <1>8, <1>9, MaxGrows, Zenon
  <1>11. QED
    BY <1>10, Zenon DEF n

(* handleRead() takes what has expired, an invalid expiration included.    *)
LEMMA ReadArms ==
  ASSUME NaturalAddresses, Types, Types', Alarm, handleRead
  PROVE  Alarm'
  <1>1. alarm' = 0 /\ calling' = TRUE /\ timers' = timers \ Expired
    BY Zenon DEF handleRead
  <1>2. timers' \in SUBSET (Nat \X Addresses) /\ now \in Nat
    BY Zenon DEF Types
  <1>3. ASSUME timers' # {}, First(timers')[1] = 0
        PROVE  FALSE
    <2>1. First(timers') \in timers' /\ First(timers')[1] \in Nat
      BY <1>2, <1>3, FirstIsLeast, Zenon
    <2>2. ~(First(timers')[1] <= now)
      BY <1>1, <2>1, Zenon DEF Expired
    <2>3. QED
      BY <1>2, <1>3, <2>2
  <1>4. First(timers)' = First(timers')
    BY Zenon DEF First
  <1>5. alarm' \in Nat
    BY <1>1
  <1>6. QED
    BY <1>1, <1>3, <1>4, <1>5, Zenon DEF Alarm, AlarmInv

(* reset() arms the timerfd, unless the first expiration is invalid.  No   *)
(* timer that restart() put back has such a one.                           *)
LEMMA ResetArms ==
  ASSUME NaturalAddresses, Types, Types', Alarm, reset
  PROVE  Alarm'
  <1>1. /\ calling /\ calling' = FALSE /\ now' = now
        /\ timers' = timers \cup {<<ReinsertedAt(a), a>> : a \in {b \in At(batch) : Repeats(b)}}
        /\ alarm' = IF Rearms(timers') THEN AlarmFor(First(timers')[1]) ELSE alarm
    BY Zenon DEF reset, CallingAfter, At
  <1>2. /\ timers \in SUBSET (Nat \X Addresses) /\ timers' \in SUBSET (Nat \X Addresses)
        /\ now \in Nat /\ alarm \in Nat /\ AlarmInv
    BY Zenon DEF Types, Alarm
  <1>3. First(timers)' = First(timers')
    BY Zenon DEF First
  <1> DEFINE n == First(timers')[1]
  <1>4. CASE timers' = {}
    BY <1>1, <1>2, <1>4, Zenon DEF Alarm, AlarmInv, Rearms
  <1>5. CASE timers' # {} /\ n > 0
    <2>1. n \in Nat
      BY <1>2, <1>5, FirstIsLeast, Zenon
    <2>2. alarm' = Max(n, now + 1)
      BY <1>1, <1>5, Zenon DEF Rearms, AlarmFor
    <2> HIDE DEF n
    <2>3. alarm' \in Nat /\ alarm' # 0 /\ alarm' <= Max(n, now + 1)
      BY <1>2, <2>1, <2>2 DEF Max
    <2>4. QED
      BY <1>1, <1>3, <2>3, Zenon DEF Alarm, AlarmInv, n
  <1>6. CASE timers' # {} /\ ~(n > 0)
    <2>1. First(timers') \in timers' /\ n \in Nat
      BY <1>2, <1>6, FirstIsLeast, Zenon
    <2>2. n = 0
      BY <1>6, <2>1
    <2>3. First(timers') \in timers
      <3> SUFFICES ASSUME NEW a \in At(batch), Repeats(a), First(timers') = <<ReinsertedAt(a), a>>
                   PROVE  FALSE
        BY <1>1, <2>1, Zenon
      <3>1. ReinsertedAt(a) = 0
        BY <2>2
      <3>2. a \in Addresses
        BY DEF At, Types
      <3>3. heap[a] \in Timer /\ resetAt \in Nat
        BY <3>2, Zenon DEF Types
      <3>4. heap[a].interval \in Nat /\ heap[a].interval > 0
        BY <3>3 DEF Repeats, Timer
      <3>5. ReinsertedAt(a) = resetAt + heap[a].interval
        BY <3>3 DEF ReinsertedAt, Restarted, Timer
      <3>6. QED
        BY <3>1, <3>3, <3>4, <3>5
    <2>4. First(timers)[1] \in Nat /\ First(timers)[1] <= n
      BY <1>2, <2>3, FirstIsLeast, Zenon
    <2>5. First(timers)[1] = 0
      BY <2>2, <2>4
    <2>6. alarm # 0 /\ alarm <= Max(0, now + 1)
      BY <1>2, <2>3, <2>5, Zenon DEF AlarmInv
    <2>7. alarm' = alarm
      BY <1>1, <1>6, Zenon DEF Rearms
    <2>8. QED
      BY <1>1, <1>2, <1>3, <2>2, <2>6, <2>7, Zenon DEF Alarm, AlarmInv
  <1>7. QED
    BY <1>4, <1>5, <1>6

(* No step leaves a timer that waits without an alarm.                     *)
LEMMA StepArms ==
  ASSUME NaturalTimes, NaturalAddresses, Types, Types', QueueInv, Alarm, [Next]_vars
  PROVE  Alarm'
  <1> USE DEF queueVars, batchVars, userVars, historyVars
  <1>1. ASSUME timers' \subseteq timers, now' = now \/ now' = now + 1, UNCHANGED <<alarm, calling>>
        PROVE  Alarm'
    <2>1. now <= now'
      BY <1>1 DEF Types
    <2>2. QED
      BY <1>1, <2>1, StaysArmed, Zenon
  <1>2. CASE handleRead  BY <1>2, ReadArms, Zenon
  <1>3. CASE runTimer  BY <1>1, <1>3, Zenon DEF runTimer
  <1>4. CASE reset  BY <1>4, ResetArms, Zenon
  <1>5. CASE runPending
    <2>1. UNCHANGED <<now, calling>>
      BY <1>5, Zenon DEF runPending
    <2>2. Head(pending) \in Calls
      BY <1>5, Dequeued, Zenon DEF runPending, Types
    <2> DEFINE id == Head(pending).id
    <2>3. id \in Ids /\ id[1] \in Addresses
      BY <2>2 DEF Calls, Ids
    <2>4. CASE insertTimer(id[1], heap[id[1]])
      <3>1. heap[id[1]].expiration \in Nat
        BY <2>3 DEF Types, Timer
      <3>2. QED
        BY ZenonT(60), <2>1, <2>3, <2>4, <3>1, InsertArms
    <2>5. CASE cancelInLoop(id) /\ UNCHANGED alarm
      BY <1>1, <2>1, <2>5, Zenon DEF cancelInLoop
    <2>6. QED
      BY <1>5, <2>4, <2>5, Zenon DEF runPending
  <1>6. ASSUME NEW a \in Addresses, NEW when \in Whens, NEW i \in Intervals, addTimerHere(a, when, i)
        PROVE  Alarm'
    <2>1. insertTimer(a, heap'[a]) /\ UNCHANGED <<now, calling>>
      BY <1>6, Zenon DEF addTimerHere
    <2>2. heap'[a].expiration \in Nat
      BY DEF Types, Timer
    <2>3. QED
      BY <2>1, <2>2, InsertArms, Zenon
  <1>7. ASSUME NEW t \in Threads, NEW a \in Addresses, NEW when \in Whens, NEW i \in Intervals,
               addTimer(t, a, when, i)
        PROVE  Alarm'
    BY <1>1, <1>7, Zenon DEF addTimer
  <1>8. ASSUME NEW t \in Threads, addTimerReturns(t)
        PROVE  Alarm'
    BY <1>1, <1>8, Zenon DEF addTimerReturns
  <1>9. ASSUME NEW id \in ids, cancelHere(id)
        PROVE  Alarm'
    BY <1>1, <1>9, Zenon DEF cancelHere, cancelInLoop
  <1>10. ASSUME NEW id \in ids, cancel(id)
         PROVE  Alarm'
    BY <1>1, <1>10, Zenon DEF cancel
  <1>11. CASE Tick  BY <1>1, <1>11, Zenon DEF Tick
  <1>12. CASE UNCHANGED vars  BY <1>1, <1>12, Zenon DEF vars
  <1>13. QED
    BY <1>2, <1>3, <1>4, <1>5, <1>6, <1>7, <1>8, <1>9, <1>10, <1>11, <1>12, ZenonT(60) DEF Next, TimerHandler

(* For any number of threads and timers, however their adds, cancels and   *)
(* expirations interleave and memory is reused: timers_ and activeTimers_  *)
(* agree, every pointer the queue follows is to a living Timer that it     *)
(* deletes once, no timer that was cancelled is put back, and while timers *)
(* wait the timerfd is armed for the first of them (TimerQueue.cc:254).    *)
THEOREM QueueIsSound == NaturalTimes /\ NaturalAddresses => (Spec => []TimersAreSound)
  <1> SUFFICES ASSUME NaturalTimes, NaturalAddresses PROVE Spec => []TimersAreSound
    OBVIOUS
  <1>1. Types /\ QueueInv /\ Alarm /\ [Next]_vars => (Types /\ QueueInv /\ Alarm)'
    BY StepKeeps, StepArms
  <1>2. Init => Alarm
    BY DEF Init, Alarm, AlarmInv
  <1>3. QueueInv /\ Alarm => TimersAreSound
    BY Zenon DEF QueueInv, TimersAreSound, Alarm, AlarmInv, AlarmSet
  <1>4. QED
    BY <1>1, <1>2, <1>3, Initially, PTL DEF Spec

(* A timer leaves the queue in no step but its own cancellation and the    *)
(* start of a batch: a cancel whose TimerId is stale never hits the timer  *)
(* that now lives at the address.                                          *)
THEOREM CancelIsExact == NaturalTimes => (Spec => OnlyNamedTimerCancelled)
  <1> SUFFICES ASSUME NaturalTimes PROVE Spec => OnlyNamedTimerCancelled
    OBVIOUS
  <1>1. Types /\ QueueInv /\ [Next]_vars => (Types /\ QueueInv)'
    BY StepKeeps
  <1>2. Types /\ QueueInv /\ [Next]_vars =>
          [\A s \in Queued : (s \notin Queued' /\ s \notin cancelled') => (~calling /\ calling')]_vars
    BY StepKeeps
  <1>3. QED
    BY <1>1, <1>2, Initially, PTL DEF Spec, OnlyNamedTimerCancelled
=============================================================================
