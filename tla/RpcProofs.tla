--------------------------- MODULE RpcProofs ---------------------------
(***************************************************************************)
(* Proofs about the RPC channel of a client and the two balancers between  *)
(* it and the servers: every call gets the answer to its own request.      *)
(***************************************************************************)
EXTENDS RpcBalancer, TLAPS

(* The provers of each step that names none, in this order. *)
USE SMTT(60), Z3T(60), ZenonT(60)

(***************************************************************************)
(* The elements of a queue.                                                *)
(***************************************************************************)
\* push_back() adds one element.
LEMMA RangeAppend ==
  ASSUME NEW T, NEW q \in Seq(T), NEW m \in T
  PROVE  Range(Append(q, m)) = Range(q) \cup {m}
<1>1. /\ Append(q, m) \in Seq(T) /\ Len(Append(q, m)) = Len(q) + 1 /\ Len(q) \in Nat
      /\ \A i \in 1 .. Len(q) : Append(q, m)[i] = q[i]
      /\ Append(q, m)[Len(q) + 1] = m /\ DOMAIN q = 1 .. Len(q)
      /\ DOMAIN Append(q, m) = 1 .. Len(q) + 1
  OBVIOUS
<1>2. \A x \in Range(Append(q, m)) : x \in Range(q) \cup {m}
  <2>. SUFFICES ASSUME NEW i \in 1 .. Len(q) + 1 PROVE Append(q, m)[i] \in Range(q) \cup {m}
    BY <1>1 DEF Range
  <2>1. CASE i = Len(q) + 1
    BY <2>1, <1>1
  <2>2. CASE i # Len(q) + 1
    <3>1. i \in 1 .. Len(q)
      BY <2>2, <1>1
    <3>. QED
      BY <3>1, <1>1 DEF Range
  <2>. QED
    BY <2>1, <2>2
<1>3. \A x \in Range(q) \cup {m} : x \in Range(Append(q, m))
  <2>1. Len(q) + 1 \in DOMAIN Append(q, m) /\ \A i \in 1 .. Len(q) : i \in DOMAIN Append(q, m)
    BY <1>1
  <2>. QED
    BY <2>1, <1>1 DEF Range
<1>. QED
  BY <1>2, <1>3

\* A message that is taken off the front was in the queue, and so were the others.
LEMMA RangeTail ==
  ASSUME NEW T, NEW q \in Seq(T), q # <<>>
  PROVE  /\ Head(q) \in Range(q) /\ Head(q) \in T
         /\ Tail(q) \in Seq(T) /\ Range(Tail(q)) \subseteq Range(q)
<1>1. /\ Len(q) \in Nat /\ Len(q) # 0 /\ DOMAIN q = 1 .. Len(q) /\ \A i \in 1 .. Len(q) : q[i] \in T
  OBVIOUS
<1>2. Head(q) = q[1] /\ 1 \in DOMAIN q
  BY <1>1
<1>3. /\ Tail(q) \in Seq(T) /\ Len(Tail(q)) = Len(q) - 1
      /\ \A i \in 1 .. Len(Tail(q)) : Tail(q)[i] = q[i + 1]
  OBVIOUS
<1>4. DOMAIN Tail(q) = 1 .. Len(Tail(q))
  BY <1>3
<1>5. \A i \in DOMAIN Tail(q) : Tail(q)[i] \in Range(q)
  <2>. SUFFICES ASSUME NEW i \in 1 .. Len(Tail(q)) PROVE Tail(q)[i] \in Range(q)
    BY <1>4
  <2>1. i + 1 \in DOMAIN q
    BY <1>1, <1>3
  <2>. QED
    BY <2>1, <1>3 DEF Range
<1>. QED
  BY <1>1, <1>2, <1>3, <1>5 DEF Range

\* A queue that is lost holds nothing.
LEMMA RangeEmpty == Range(<<>>) = {}
BY DEF Range

-----------------------------------------------------------------------------
(***************************************************************************)
(* The RPC channel and the balancers.  The invariant says of every message *)
(* whose it is: a request or a response on a caller's connection is of the *)
(* call that its id names there; one on a backend's connection, or in a    *)
(* server's hands, is of the call that the entry with its id goes back to, *)
(* if that entry is still there.                                           *)
(***************************************************************************)
Payload == Calls \cup {Answer(k) : k \in Calls}
Results == Payload \cup {0}
Msg == [id : Nat, data : Payload, sum : Nat]
CallStates == {"idle", "registered", "sent", "done", "deleted"}
Waiting == {"registered", "sent"}

CallTypes ==
  /\ id \in [Channels -> Nat]
  /\ outstandings \in [Channels -> SUBSET [id : Nat, call : Calls]]
  /\ call \in [Calls -> [st : CallStates, id : Nat, result : Results]]

WireTypes ==
  /\ request \in [Channels -> Seq(Msg)] /\ response \in [Channels -> Seq(Msg)]
  /\ arriving \in [Servers -> Seq(Msg)] /\ leaving \in [Servers -> Seq(Msg)]
  /\ pending \in [Servers -> SUBSET [id : Nat, data : Payload]]

SessionTypes ==
  /\ nextId \in [Servers -> Nat]
  /\ forwarded \in [Servers -> SUBSET [id : Nat, origId : Nat, client : Channels]]
  /\ current \in Nat \ {0}

\* Call k was made on channel c under id i.
IsOf(k, c, i) == k \in Calls /\ call[k].st # "idle" /\ ChannelOf[k] = c /\ call[k].id = i

IdsApart ==
  /\ \A k \in Calls : call[k].st # "idle" => call[k].id <= id[ChannelOf[k]]
  /\ \A k, l \in Calls :
       /\ call[k].st # "idle" /\ call[l].st # "idle"
       /\ ChannelOf[k] = ChannelOf[l] /\ call[k].id = call[l].id
       => k = l

OutstandingInv ==
  /\ \A c \in Channels : \A o \in outstandings[c] :
       IsOf(o.call, c, o.id) /\ call[o.call].st \in Waiting
  /\ \A k \in Calls : call[k].st \in Waiting =>
       [id |-> call[k].id, call |-> k] \in outstandings[ChannelOf[k]]

CallInv == CallTypes /\ IdsApart /\ OutstandingInv /\ CallGetsOwnAnswer

Asks(m, c) == IsOf(m.data, c, m.id) /\ m.sum = m.id
AnswersTo(m, c) == m.sum = m.id /\ \E k \in Calls : m.data = Answer(k) /\ IsOf(k, c, m.id)

ClientInv ==
  \A c \in Channels : /\ \A m \in Range(request[c]) : Asks(m, c)
                      /\ \A m \in Range(response[c]) : AnswersTo(m, c)

\* What goes to or comes from server s under id i is call k's.
Travels(k, i, s) ==
  k \in Calls /\ i <= nextId[s] /\ \A r \in forwarded[s] : r.id = i => IsOf(k, r.client, r.origId)

ServerInv ==
  \A s \in Servers :
    /\ \A r \in forwarded[s] : r.id <= nextId[s]
    /\ \A m \in Range(arriving[s]) : m.sum = m.id /\ Travels(m.data, m.id, s)
    /\ \A p \in pending[s] : p.data \notin Faulty /\ Travels(p.data, p.id, s)
    /\ \A m \in Range(leaving[s]) :
         m.sum = m.id /\ \E k \in Calls : m.data = Answer(k) /\ Travels(k, m.id, s)

RpcInv == CallInv /\ WireTypes /\ SessionTypes /\ ClientInv /\ ServerInv

\* What a request or an answer carries.
LEMMA PayloadFacts ==
  /\ \A k \in Calls : k \in Payload /\ Answer(k) \in Payload
  /\ 0 \in Results /\ Payload \subseteq Results
BY Zenon DEF Payload, Results

\* The first state of the channels and of the balancer.
LEMMA RpcInitially == BalancerInit => RpcInv
<1>. SUFFICES ASSUME BalancerInit PROVE RpcInv
  OBVIOUS
<1>. USE DEF BalancerInit, ChannelInit
<1>1. CallInv
  BY RpcAssumption, PayloadFacts DEF CallInv, CallTypes, CallStates, IdsApart, OutstandingInv, Waiting, CallGetsOwnAnswer
<1>2. WireTypes /\ SessionTypes
  BY DEF WireTypes, SessionTypes
<1>3. ClientInv /\ ServerInv
  BY RangeEmpty DEF ClientInv, ServerInv
<1>. QED
  BY <1>1, <1>2, <1>3 DEF RpcInv

\* The invariant implies what is to be shown.
LEMMA RpcInvSuffices == RpcInv => CallsAnsweredOnce
<1>. SUFFICES ASSUME RpcInv PROVE CallsAnsweredOnce
  OBVIOUS
<1>1. CallGetsOwnAnswer
  BY DEF RpcInv, CallInv
<1>2. CompletedOnce
  BY Zenon DEF RpcInv, CallInv, OutstandingInv, Waiting, CompletedOnce
<1>3. NoneIsCorrupt
  BY DEF RpcInv, ClientInv, ServerInv, Asks, AnswersTo, NoneIsCorrupt, SumsAreRight
<1>. QED
  BY <1>1, <1>2, <1>3 DEF CallsAnsweredOnce

\* A call that was made keeps its id whatever becomes of it.
CallsKept == \A k \in Calls : call[k].st # "idle" => call'[k].st # "idle" /\ call'[k].id = call[k].id

\* A step that only loses messages of the callers' connections keeps what is known of them.
LEMMA ClientKept ==
  ASSUME CallsKept, ClientInv,
         \A c \in Channels : /\ Range(request'[c]) \subseteq Range(request[c])
                             /\ Range(response'[c]) \subseteq Range(response[c])
  PROVE  ClientInv'
<1>. SUFFICES ASSUME NEW c \in Channels
              PROVE  /\ \A m \in Range(request'[c]) : Asks(m, c)'
                     /\ \A m \in Range(response'[c]) : AnswersTo(m, c)'
  BY DEF ClientInv
<1>1. \A l, d, w : IsOf(l, d, w) => IsOf(l, d, w)'
  BY DEF CallsKept, IsOf
<1>2. \A m : Asks(m, c) => Asks(m, c)'
  BY <1>1 DEF Asks
<1>3. \A m : AnswersTo(m, c) => AnswersTo(m, c)'
  BY <1>1 DEF AnswersTo
<1>. QED
  BY <1>2, <1>3 DEF ClientInv

\* The same for the backends' connections and for what the servers have in hand.
LEMMA ServerKept ==
  ASSUME CallsKept, ServerInv, nextId' = nextId, forwarded' = forwarded,
         \A s \in Servers : /\ Range(arriving'[s]) \subseteq Range(arriving[s])
                            /\ Range(leaving'[s]) \subseteq Range(leaving[s])
                            /\ pending'[s] \subseteq pending[s]
  PROVE  ServerInv'
<1>1. \A l, d, w : IsOf(l, d, w) => IsOf(l, d, w)'
  BY DEF CallsKept, IsOf
<1>2. \A k, w, s : Travels(k, w, s) => Travels(k, w, s)'
  BY <1>1 DEF Travels
<1>. SUFFICES ASSUME NEW s \in Servers
              PROVE  /\ \A r \in forwarded[s] : r.id <= nextId[s]
                     /\ \A m \in Range(arriving'[s]) : m.sum = m.id /\ Travels(m.data, m.id, s)'
                     /\ \A p \in pending'[s] : p.data \notin Faulty /\ Travels(p.data, p.id, s)'
                     /\ \A m \in Range(leaving'[s]) :
                          m.sum = m.id /\ \E k \in Calls : m.data = Answer(k) /\ Travels(k, m.id, s)'
  BY DEF ServerInv
<1>3. \A r \in forwarded[s] : r.id <= nextId[s]
  BY DEF ServerInv
<1>4. \A m \in Range(arriving'[s]) : m.sum = m.id /\ Travels(m.data, m.id, s)'
  BY <1>2 DEF ServerInv
<1>5. \A p \in pending'[s] : p.data \notin Faulty /\ Travels(p.data, p.id, s)'
  BY <1>2 DEF ServerInv
<1>6. \A m \in Range(leaving'[s]) :
        m.sum = m.id /\ \E k \in Calls : m.data = Answer(k) /\ Travels(k, m.id, s)'
  BY <1>2 DEF ServerInv
<1>. QED
  BY <1>3, <1>4, <1>5, <1>6

\* A new call takes an id that no call of its channel has.
LEMMA CallMethodStep ==
  ASSUME RpcInv, NEW k \in Calls, CallMethod(k)
  PROVE  CallInv' /\ CallsKept
<1>. DEFINE c == ChannelOf[k]
<1>. USE DEF RpcInv, CallInv
<1>. ChannelOf \in [Calls -> Channels]
  BY RpcAssumption
<1>0. c \in Channels
  OBVIOUS
<1>1. /\ call[k].st = "idle" /\ id' = [id EXCEPT ![c] = @ + 1]
      /\ outstandings' = [outstandings EXCEPT ![c] = @ \cup {[id |-> id[c] + 1, call |-> k]}]
      /\ call' = [call EXCEPT ![k] = [st |-> "registered", id |-> id[c] + 1, result |-> 0]]
  BY DEF CallMethod
<1>2. CallTypes'
  BY <1>0, <1>1, PayloadFacts DEF CallTypes, CallStates
<1>3. CallsKept
  BY <1>1 DEF CallTypes, CallsKept
<1>4. IdsApart'
  <2>1. \A l \in Calls : l # k => call'[l] = call[l]
    BY <1>1 DEF CallTypes
  <2>2. call'[k] = [st |-> "registered", id |-> id[c] + 1, result |-> 0]
    BY <1>1 DEF CallTypes
  <2>3. id[c] \in Nat /\ id'[c] = id[c] + 1 /\ \A d \in Channels : d # c => id'[d] = id[d]
    BY <1>0, <1>1 DEF CallTypes
  <2>4. \A l \in Calls : call[l].id \in Nat /\ ChannelOf[l] \in Channels
    BY DEF CallTypes
  <2>5. \A l \in Calls : l # k /\ call[l].st # "idle" /\ ChannelOf[l] = c => call[l].id # id[c] + 1
    BY <2>3, <2>4 DEF IdsApart
  <2>6. ASSUME NEW l \in Calls, call'[l].st # "idle" PROVE call'[l].id <= id'[ChannelOf[l]]
    <3>1. CASE l = k
      BY <3>1, <2>2, <2>3
    <3>2. CASE l # k
      <4>1. call'[l] = call[l] /\ call[l].id <= id[ChannelOf[l]]
        BY <3>2, <2>1, <2>6 DEF IdsApart
      <4>. QED
        BY <4>1, <2>3, <2>4 DEF CallTypes
    <3>. QED
      BY <3>1, <3>2
  <2>7. ASSUME NEW l \in Calls, NEW h \in Calls, call'[l].st # "idle", call'[h].st # "idle",
               ChannelOf[l] = ChannelOf[h], call'[l].id = call'[h].id
        PROVE  l = h
    <3>1. CASE l # k /\ h # k
      BY <3>1, <2>1, <2>7 DEF IdsApart
    <3>2. CASE l = k \/ h = k
      BY <3>2, <2>1, <2>2, <2>5, <2>7
    <3>. QED
      BY <3>1, <3>2
  <2>. QED
    BY <2>6, <2>7 DEF IdsApart
<1>5. OutstandingInv'
  <2>. DEFINE new == [id |-> id[c] + 1, call |-> k]
  <2>1. outstandings'[c] = outstandings[c] \cup {new} /\ \A d \in Channels : d # c => outstandings'[d] = outstandings[d]
    BY <1>0, <1>1 DEF CallTypes
  <2>2. call'[k].st = "registered" /\ call'[k].id = id[c] + 1 /\ \A l \in Calls : l # k => call'[l] = call[l]
    BY <1>1 DEF CallTypes
  <2>3. ASSUME NEW d \in Channels, NEW o \in outstandings'[d]
        PROVE  IsOf(o.call, d, o.id)' /\ call'[o.call].st \in Waiting
    <3>1. CASE o \in outstandings[d]
      <4>1. o.call \in Calls /\ IsOf(o.call, d, o.id) /\ call[o.call].st \in Waiting
        BY <3>1 DEF OutstandingInv, IsOf
      <4>2. o.call # k
        BY <4>1, <1>1 DEF Waiting
      <4>. QED
        BY <4>1, <4>2, <2>2 DEF IsOf
    <3>2. CASE o \notin outstandings[d]
      <4>1. o = new /\ d = c
        BY <3>2, <2>1
      <4>2. o.call = k /\ o.id = id[c] + 1
        BY <4>1
      <4>. QED
        BY <4>1, <4>2, <2>2 DEF IsOf, Waiting
    <3>. QED
      BY <3>1, <3>2
  <2>4. ASSUME NEW l \in Calls, call'[l].st \in Waiting
        PROVE  [id |-> call'[l].id, call |-> l] \in outstandings'[ChannelOf[l]]
    <3>1. CASE l = k
      BY <3>1, <2>1, <2>2
    <3>2. CASE l # k
      <4>1. [id |-> call[l].id, call |-> l] \in outstandings[ChannelOf[l]] /\ call'[l] = call[l]
        BY <3>2, <2>2, <2>4 DEF OutstandingInv
      <4>2. ChannelOf[l] \in Channels
        OBVIOUS
      <4>. QED
        BY <4>1, <4>2, <2>1
    <3>. QED
      BY <3>1, <3>2
  <2>. HIDE DEF new
  <2>. QED
    BY <2>3, <2>4 DEF OutstandingInv
<1>6. CallGetsOwnAnswer'
  <2>1. call'[k].st = "registered" /\ \A l \in Calls : l # k => call'[l] = call[l]
    BY <1>1 DEF CallTypes
  <2>. QED
    BY <2>1 DEF CallGetsOwnAnswer
<1>. QED
  BY <1>2, <1>3, <1>4, <1>5, <1>6

\* The request is sent under the id that its entry has.
LEMMA SendRequestStep ==
  ASSUME RpcInv, NEW k \in Calls, SendRequest(k)
  PROVE  CallInv' /\ CallsKept /\ ClientInv' /\ request' \in [Channels -> Seq(Msg)]
<1>. DEFINE c == ChannelOf[k]
<1>. PICK m : m = Message(call[k].id, k)
  OBVIOUS
<1>. USE DEF RpcInv, CallInv
<1>. ChannelOf \in [Calls -> Channels]
  BY RpcAssumption
<1>0. c \in Channels
  OBVIOUS
<1>1. /\ call[k].st = "registered"
      /\ request' = [request EXCEPT ![c] = Append(@, m)]
      /\ call' = [call EXCEPT ![k].st = "sent"]
      /\ id' = id /\ outstandings' = outstandings /\ response' = response
  BY DEF SendRequest
<1>2. /\ call'[k].st = "sent" /\ call'[k].id = call[k].id
      /\ \A l \in Calls : l # k => call'[l] = call[l]
  BY <1>1 DEF CallTypes
<1>3. CallTypes'
  BY Zenon, <1>1 DEF CallTypes, CallStates
<1>4. CallsKept
  BY <1>2, <1>1 DEF CallsKept
<1>5. IdsApart'
  <2>1. \A l \in Calls : call'[l].id = call[l].id /\ (call'[l].st # "idle" => call[l].st # "idle")
    BY <1>1, <1>2
  <2>. QED
    BY <2>1, <1>1 DEF IdsApart
<1>6. OutstandingInv'
  <2>1. \A l \in Calls : call'[l].id = call[l].id /\ (call'[l].st \in Waiting <=> call[l].st \in Waiting)
    BY <1>1, <1>2 DEF Waiting
  <2>. QED
    BY <2>1, <1>1, <1>4 DEF OutstandingInv, IsOf, CallsKept
<1>7. CallGetsOwnAnswer'
  BY <1>2 DEF CallGetsOwnAnswer
<1>8. m \in Msg /\ m.id = call[k].id /\ m.data = k /\ m.sum = m.id
  BY PayloadFacts DEF Message, Msg, CallTypes
<1>9. request' \in [Channels -> Seq(Msg)]
  BY <1>0, <1>1, <1>8 DEF WireTypes
<1>10. ClientInv'
  <2>1. \A l, d, w : IsOf(l, d, w) => IsOf(l, d, w)'
    BY <1>4 DEF CallsKept, IsOf
  <2>2. /\ \A x, d : Asks(x, d) => Asks(x, d)'
        /\ \A x, d : AnswersTo(x, d) => AnswersTo(x, d)'
    BY <2>1 DEF Asks, AnswersTo
  <2>3. Asks(m, c)'
    BY <1>2, <1>8 DEF Asks, IsOf
  <2>4. Range(request'[c]) = Range(request[c]) \cup {m} /\ \A d \in Channels : d # c => request'[d] = request[d]
    BY <1>0, <1>1, <1>8, RangeAppend DEF WireTypes
  <2>5. ASSUME NEW d \in Channels, NEW x \in Range(request'[d]) PROVE Asks(x, d)'
    <3>1. CASE d = c /\ x = m
      BY <3>1, <2>3
    <3>2. CASE x \in Range(request[d])
      BY <3>2, <2>2 DEF ClientInv
    <3>. QED
      BY <3>1, <3>2, <2>4
  <2>. QED
    BY <2>2, <2>5, <1>1 DEF ClientInv
<1>. QED
  BY <1>3, <1>4, <1>5, <1>6, <1>7, <1>9, <1>10

\* A response names the call that it is the answer to, or one that has ended.
LEMMA onResponseStep ==
  ASSUME RpcInv, NEW c \in Channels, onResponse(c)
  PROVE  /\ CallInv' /\ CallsKept
         /\ response' \in [Channels -> Seq(Msg)]
         /\ \A d \in Channels : Range(response'[d]) \subseteq Range(response[d])
<1>. DEFINE m == Head(response[c])
            found == Matching(c, m.id)
<1>. USE DEF RpcInv, CallInv
<1>. ChannelOf \in [Calls -> Channels]
  BY RpcAssumption
<1>1. /\ response[c] # <<>> /\ response' = [response EXCEPT ![c] = Tail(@)]
      /\ outstandings' = [outstandings EXCEPT ![c] = Erase(c, found)]
      /\ call' = [k \in Calls |->
           IF \E o \in found : o.call = k
             THEN [call[k] EXCEPT !.st = "done", !.result = m.data] ELSE call[k]]
      /\ id' = id
  BY Zenon DEF onResponse
<1>2. /\ m \in Range(response[c]) /\ m \in Msg
      /\ Tail(response[c]) \in Seq(Msg) /\ Range(Tail(response[c])) \subseteq Range(response[c])
  BY Zenon, <1>1, RangeTail DEF WireTypes
<1>3. PICK k \in Calls : m.data = Answer(k) /\ IsOf(k, c, m.id)
  BY <1>2 DEF ClientInv, AnswersTo
<1>4. found = {o \in outstandings[c] : o.id = m.id} /\ Erase(c, found) = outstandings[c] \ found
  BY DEF Matching, Erase
<1>. HIDE DEF m, found
<1>5. \A o \in found : o \in outstandings[c] /\ o.id = m.id /\ o.call = k
  <2>. SUFFICES ASSUME NEW o \in found PROVE o \in outstandings[c] /\ o.id = m.id /\ o.call = k
    OBVIOUS
  <2>1. o \in outstandings[c] /\ o.id = m.id
    BY <1>4
  <2>2. IsOf(o.call, c, o.id)
    BY <2>1 DEF OutstandingInv
  <2>. QED
    BY Zenon, <2>1, <2>2, <1>3 DEF IsOf, IdsApart
<1>6. call[k].st \in Waiting <=> found # {}
  <2>1. ASSUME call[k].st \in Waiting PROVE found # {}
    <3>1. [id |-> call[k].id, call |-> k] \in outstandings[c]
      BY Zenon, <2>1, <1>3 DEF OutstandingInv, IsOf
    <3>2. [id |-> call[k].id, call |-> k] \in found
      BY <3>1, <1>3, <1>4 DEF IsOf
    <3>. QED
      BY <3>2
  <2>2. ASSUME found # {} PROVE call[k].st \in Waiting
    BY <2>2, <1>5 DEF OutstandingInv
  <2>. QED
    BY <2>1, <2>2
<1>7. /\ \A l \in Calls : l # k => call'[l] = call[l]
      /\ call'[k] = IF found # {} THEN [call[k] EXCEPT !.st = "done", !.result = m.data] ELSE call[k]
  <2>1. \A l \in Calls : (\E o \in found : o.call = l) <=> (l = k /\ found # {})
    BY <1>5
  <2>. QED
    BY Zenon, <2>1, <1>1
<1>8. call[k] \in [st : CallStates, id : Nat, result : Results] /\ m.data \in Payload
  BY <1>2 DEF CallTypes, Msg
<1>9. /\ call'[k].id = call[k].id /\ call'[k] \in [st : CallStates, id : Nat, result : Results]
      /\ found # {} => call'[k].st = "done" /\ call'[k].result = m.data
      /\ found = {} => call'[k] = call[k]
  BY Zenon, <1>7, <1>8, PayloadFacts DEF CallStates
<1>10. outstandings'[c] = outstandings[c] \ found /\ \A d \in Channels : d # c => outstandings'[d] = outstandings[d]
  BY Zenon, <1>1, <1>4 DEF CallTypes
<1>11. CallTypes'
  <2>1. call' \in [Calls -> [st : CallStates, id : Nat, result : Results]]
    <3>1. \A l \in Calls : call'[l] \in [st : CallStates, id : Nat, result : Results]
      BY Zenon, <1>7, <1>9 DEF CallTypes
    <3>. QED
      BY Zenon, <3>1, <1>1
  <2>2. outstandings' \in [Channels -> SUBSET [id : Nat, call : Calls]]
    BY Zenon, <1>1, <1>4 DEF CallTypes
  <2>. QED
    BY Zenon, <2>1, <2>2, <1>1 DEF CallTypes
<1>12. CallsKept
  <2>1. call[k].st # "idle"
    BY <1>3 DEF IsOf
  <2>. QED
    BY Zenon, <2>1, <1>7, <1>9 DEF CallsKept
<1>13. IdsApart'
  <2>1. call[k].st # "idle"
    BY <1>3 DEF IsOf
  <2>2. \A l \in Calls : call'[l].id = call[l].id /\ (call'[l].st # "idle" => call[l].st # "idle")
    BY Zenon, <1>7, <1>9, <2>1
  <2>3. id' = id
    BY Zenon, <1>1
  <2>. QED
    BY <2>2, <2>3 DEF IdsApart
<1>14. OutstandingInv'
  <2>1. ASSUME NEW d \in Channels, NEW o \in outstandings'[d]
        PROVE  IsOf(o.call, d, o.id)' /\ call'[o.call].st \in Waiting
    <3>1. o \in outstandings[d] /\ IsOf(o.call, d, o.id) /\ call[o.call].st \in Waiting
      BY <1>10 DEF OutstandingInv
    <3>2. o.call # k \/ found = {}
      <4>. SUFFICES ASSUME o.call = k, found # {} PROVE FALSE
        OBVIOUS
      <4>1. d = c /\ o.id = m.id
        BY <3>1, <1>3 DEF IsOf
      <4>. QED
        BY <4>1, <3>1, <1>4, <1>10
    <3>. QED
      BY <3>1, <3>2, <1>7, <1>9 DEF IsOf
  <2>2. ASSUME NEW l \in Calls, call'[l].st \in Waiting
        PROVE  [id |-> call'[l].id, call |-> l] \in outstandings'[ChannelOf[l]]
    <3>1. call'[l] = call[l] /\ (l = k => found = {})
      BY Zenon, <2>2, <1>7, <1>9 DEF Waiting
    <3>2. [id |-> call[l].id, call |-> l] \in outstandings[ChannelOf[l]] /\ ChannelOf[l] \in Channels
      BY <2>2, <3>1 DEF OutstandingInv
    <3>3. [id |-> call[l].id, call |-> l] \notin found
      BY <3>1, <1>5
    <3>. QED
      BY <3>1, <3>2, <3>3, <1>10
  <2>. QED
    BY <2>1, <2>2 DEF OutstandingInv
<1>15. CallGetsOwnAnswer'
  BY Zenon, <1>3, <1>7, <1>9 DEF CallGetsOwnAnswer
<1>16. /\ response' \in [Channels -> Seq(Msg)]
       /\ \A d \in Channels : Range(response'[d]) \subseteq Range(response[d])
  BY Zenon, <1>1, <1>2 DEF WireTypes
<1>. QED
  BY <1>11, <1>12, <1>13, <1>14, <1>15, <1>16

\* The closures that a channel deletes with itself are those that wait.
LEMMA destroyStep ==
  ASSUME RpcInv, NEW c \in Channels, destroy(c)
  PROVE  /\ CallInv' /\ CallsKept
         /\ request' \in [Channels -> Seq(Msg)] /\ response' \in [Channels -> Seq(Msg)]
         /\ \A d \in Channels : /\ Range(request'[d]) \subseteq Range(request[d])
                                /\ Range(response'[d]) \subseteq Range(response[d])
<1>. USE DEF RpcInv, CallInv
<1>. ChannelOf \in [Calls -> Channels]
  BY RpcAssumption
<1>1. /\ call' = [k \in Calls |-> IF \E o \in outstandings[c] : o.call = k
                                    THEN [call[k] EXCEPT !.st = "deleted"] ELSE call[k]]
      /\ outstandings' = [outstandings EXCEPT ![c] = {}]
      /\ response' = [response EXCEPT ![c] = <<>>] /\ request' = [request EXCEPT ![c] = <<>>]
      /\ id' = id
  BY DEF destroy
<1>2. \A k \in Calls : (\E o \in outstandings[c] : o.call = k) <=> (ChannelOf[k] = c /\ call[k].st \in Waiting)
  <2>1. \A o \in outstandings[c] : ChannelOf[o.call] = c /\ call[o.call].st \in Waiting
    BY DEF OutstandingInv, IsOf
  <2>2. ASSUME NEW k \in Calls, ChannelOf[k] = c, call[k].st \in Waiting
        PROVE  \E o \in outstandings[c] : o.call = k
    <3>1. [id |-> call[k].id, call |-> k] \in outstandings[c]
      BY <2>2 DEF OutstandingInv
    <3>. QED
      BY <3>1
  <2>. QED
    BY <2>1, <2>2
<1>3. \A k \in Calls : IF ChannelOf[k] = c /\ call[k].st \in Waiting
                         THEN call'[k] = [call[k] EXCEPT !.st = "deleted"] ELSE call'[k] = call[k]
  BY <1>1, <1>2
<1>4. \A k \in Calls : call[k] \in [st : CallStates, id : Nat, result : Results]
  BY DEF CallTypes
<1>5. \A k \in Calls : /\ call'[k] \in [st : CallStates, id : Nat, result : Results]
                       /\ call'[k].id = call[k].id
                       /\ call'[k].st = IF ChannelOf[k] = c /\ call[k].st \in Waiting THEN "deleted" ELSE call[k].st
                       /\ call'[k].result = call[k].result
  BY Zenon, <1>3, <1>4 DEF CallStates
<1>6. CallTypes'
  <2>1. call' \in [Calls -> [st : CallStates, id : Nat, result : Results]]
    BY <1>1, <1>5
  <2>. QED
    BY <2>1, <1>1 DEF CallTypes
<1>7. CallsKept
  BY <1>5 DEF CallsKept
<1>8. IdsApart'
  <2>1. \A k \in Calls : call'[k].id = call[k].id /\ (call'[k].st # "idle" => call[k].st # "idle")
    BY <1>5 DEF Waiting
  <2>2. id' = id
    BY <1>1
  <2>. QED
    BY <2>1, <2>2 DEF IdsApart
<1>9. OutstandingInv'
  <2>1. outstandings'[c] = {} /\ \A d \in Channels : d # c => outstandings'[d] = outstandings[d]
    BY ZenonT(60), <1>1 DEF CallTypes
  <2>2. ASSUME NEW d \in Channels, NEW o \in outstandings'[d]
        PROVE  IsOf(o.call, d, o.id)' /\ call'[o.call].st \in Waiting
    <3>1. d # c /\ IsOf(o.call, d, o.id) /\ call[o.call].st \in Waiting
      BY <2>1 DEF OutstandingInv
    <3>. QED
      BY <3>1, <1>5 DEF IsOf
  <2>3. ASSUME NEW k \in Calls, call'[k].st \in Waiting
        PROVE  [id |-> call'[k].id, call |-> k] \in outstandings'[ChannelOf[k]]
    <3>1. ChannelOf[k] # c /\ call[k].st \in Waiting
      BY <2>3, <1>5 DEF Waiting
    <3>2. [id |-> call[k].id, call |-> k] \in outstandings[ChannelOf[k]] /\ ChannelOf[k] \in Channels
      BY <3>1 DEF OutstandingInv
    <3>. QED
      BY Zenon, <3>1, <3>2, <2>1, <1>5
  <2>. QED
    BY <2>2, <2>3 DEF OutstandingInv
<1>10. CallGetsOwnAnswer'
  BY <1>5 DEF CallGetsOwnAnswer
<1>11. /\ request' \in [Channels -> Seq(Msg)] /\ response' \in [Channels -> Seq(Msg)]
       /\ \A d \in Channels : /\ Range(request'[d]) \subseteq Range(request[d])
                              /\ Range(response'[d]) \subseteq Range(response[d])
  <2>1. <<>> \in Seq(Msg)
    OBVIOUS
  <2>. QED
    BY <2>1, <1>1, RangeEmpty DEF WireTypes
<1>. QED
  BY <1>6, <1>7, <1>8, <1>9, <1>10, <1>11

\* A server answers under the id of the request, at once or when its closure runs.
LEMMA RpcServerStep ==
  ASSUME RpcInv, NEW s \in Servers, onRequest(s) \/ doneCallback(s), UNCHANGED <<nextId, forwarded>>
  PROVE  ServerInv' /\ WireTypes'
<1>. USE DEF RpcInv
<1>. ChannelOf \in [Calls -> Channels]
  BY RpcAssumption
<1>0. /\ call' = call /\ request' = request /\ response' = response
      /\ nextId' = nextId /\ forwarded' = forwarded
  BY DEF onRequest, doneCallback
<1>1. \A k, w, z : Travels(k, w, z) <=> Travels(k, w, z)'
  BY <1>0 DEF Travels, IsOf
<1>2. CASE onRequest(s)
  <2>. DEFINE m == Head(arriving[s])
  <2>1. /\ arriving[s] # <<>> /\ arriving' = [arriving EXCEPT ![s] = Tail(@)]
        /\ \/ /\ m.data \in Faulty /\ pending' = pending
              /\ leaving' = [leaving EXCEPT ![s] = Append(@, Message(m.id, Error(m.data)))]
           \/ /\ m.data \notin Faulty /\ leaving' = leaving
              /\ pending' = [pending EXCEPT ![s] = @ \cup {[id |-> m.id, data |-> m.data]}]
    BY ZenonT(60), <1>2 DEF onRequest
  <2>2. /\ m \in Range(arriving[s]) /\ m \in Msg
        /\ Tail(arriving[s]) \in Seq(Msg) /\ Range(Tail(arriving[s])) \subseteq Range(arriving[s])
    BY ZenonT(60), <2>1, RangeTail DEF WireTypes
  <2>3. Travels(m.data, m.id, s) /\ m.data \in Calls /\ m.id \in Nat /\ m.data \in Payload
    BY ZenonT(60), <2>2 DEF ServerInv, Travels, Msg
  <2>. HIDE DEF m
  <2>4. /\ arriving' \in [Servers -> Seq(Msg)]
        /\ \A z \in Servers : Range(arriving'[z]) \subseteq Range(arriving[z])
    BY <2>1, <2>2 DEF WireTypes
  <2>5. CASE m.data \in Faulty
    <3>. DEFINE a == Message(m.id, Error(m.data))
    <3>1. a \in Msg /\ a.id = m.id /\ a.sum = a.id /\ a.data = Answer(m.data)
      <4>1. Error(m.data) = Answer(m.data) /\ Answer(m.data) \in Payload
        BY Zenon, <2>3, <2>5, PayloadFacts DEF Answer
      <4>. QED
        BY <4>1, <2>3 DEF Message, Msg
    <3>2. pending' = pending /\ leaving' = [leaving EXCEPT ![s] = Append(@, a)]
      BY ZenonT(60), <2>1, <2>5
    <3>. HIDE DEF a
    <3>3. leaving' \in [Servers -> Seq(Msg)]
      BY <3>1, <3>2 DEF WireTypes
    <3>4. Range(leaving'[s]) = Range(leaving[s]) \cup {a} /\ \A z \in Servers : z # s => leaving'[z] = leaving[z]
      BY <3>1, <3>2, RangeAppend DEF WireTypes
    <3>5. ASSUME NEW z \in Servers, NEW x \in Range(leaving'[z])
          PROVE  x.sum = x.id /\ \E k \in Calls : x.data = Answer(k) /\ Travels(k, x.id, z)
      <4>1. CASE z = s /\ x = a
        BY ZenonT(60), <4>1, <3>1, <2>3
      <4>2. CASE x \in Range(leaving[z])
        BY <4>2 DEF ServerInv
      <4>. QED
        BY <4>1, <4>2, <3>4
    <3>6. WireTypes'
      BY <3>2, <3>3, <2>4, <1>0 DEF WireTypes
    <3>. QED
      BY Zenon, <3>2, <3>5, <3>6, <2>4, <1>0, <1>1 DEF ServerInv
  <2>6. CASE m.data \notin Faulty
    <3>. DEFINE p == [id |-> m.id, data |-> m.data]
    <3>1. leaving' = leaving /\ pending' = [pending EXCEPT ![s] = @ \cup {p}]
      BY ZenonT(60), <2>1, <2>6
    <3>2. p \in [id : Nat, data : Payload] /\ p.id = m.id /\ p.data = m.data
      BY <2>3
    <3>. HIDE DEF p
    <3>3. WireTypes'
      BY Zenon, <3>1, <3>2, <2>4, <1>0 DEF WireTypes
    <3>4. \A z \in Servers : \A q \in pending'[z] : q \in pending[z] \/ (z = s /\ q = p)
      BY ZenonT(60), <3>1 DEF WireTypes
    <3>5. \A z \in Servers : \A q \in pending'[z] : q.data \notin Faulty /\ Travels(q.data, q.id, z)
      BY ZenonT(60), <3>2, <3>4, <2>3, <2>6 DEF ServerInv
    <3>. QED
      BY Zenon, <3>1, <3>3, <3>5, <2>4, <1>0, <1>1 DEF ServerInv
  <2>. QED
    BY <2>5, <2>6
<1>3. CASE doneCallback(s)
  <2>1. PICK p \in pending[s] :
          /\ pending' = [pending EXCEPT ![s] = @ \ {p}]
          /\ leaving' = [leaving EXCEPT ![s] = Append(@, Message(p.id, p.data))] \/ leaving' = leaving
          /\ arriving' = arriving
    BY ZenonT(60), <1>3 DEF doneCallback
  <2>2. pending' \in [Servers -> SUBSET [id : Nat, data : Payload]] /\ \A z \in Servers : pending'[z] \subseteq pending[z]
    BY <2>1 DEF WireTypes
  <2>3. CASE leaving' = leaving
    <3>1. WireTypes'
      BY ZenonT(60), <2>1, <2>2, <2>3, <1>0 DEF WireTypes
    <3>. QED
      BY ZenonT(60), <2>1, <2>2, <2>3, <3>1, <1>0, <1>1 DEF ServerInv
  <2>4. CASE leaving' = [leaving EXCEPT ![s] = Append(@, Message(p.id, p.data))]
    <3>. DEFINE a == Message(p.id, p.data)
    <3>2. Travels(p.data, p.id, s) /\ p.data \in Calls /\ p.id \in Nat /\ p.data \in Payload /\ p.data \notin Faulty
      <4>1. Travels(p.data, p.id, s) /\ p.data \notin Faulty
        BY ZenonT(60) DEF ServerInv
      <4>2. p \in [id : Nat, data : Payload]
        BY ZenonT(60) DEF WireTypes
      <4>3. p.id \in Nat /\ p.data \in Payload
        BY ONLY SMTT(60), Z3T(60), <4>2
      <4>. QED
        BY ZenonT(60), <4>1, <4>3 DEF Travels
    <3>3. a \in Msg /\ a.id = p.id /\ a.sum = a.id /\ a.data = Answer(p.data)
      BY <3>2 DEF Message, Msg, Answer
    <3>4. leaving' = [leaving EXCEPT ![s] = Append(@, a)]
      BY <2>4
    <3>. HIDE DEF a
    <3>5. leaving' \in [Servers -> Seq(Msg)]
      BY <3>3, <3>4 DEF WireTypes
    <3>6. Range(leaving'[s]) = Range(leaving[s]) \cup {a} /\ \A z \in Servers : z # s => leaving'[z] = leaving[z]
      BY <3>3, <3>4, RangeAppend DEF WireTypes
    <3>7. ASSUME NEW z \in Servers, NEW x \in Range(leaving'[z])
          PROVE  x.sum = x.id /\ \E k \in Calls : x.data = Answer(k) /\ Travels(k, x.id, z)
      <4>1. CASE z = s /\ x = a
        BY ZenonT(60), <4>1, <3>2, <3>3
      <4>2. CASE x \in Range(leaving[z])
        BY ZenonT(60), <4>2 DEF ServerInv
      <4>. QED
        BY <4>1, <4>2, <3>6
    <3>8. WireTypes'
      BY <2>1, <2>2, <3>5, <1>0 DEF WireTypes
    <3>. QED
      BY ZenonT(60), <2>1, <2>2, <3>7, <3>8, <1>0, <1>1 DEF ServerInv
  <2>. QED
    BY <2>1, <2>3, <2>4
<1>. QED
  BY <1>2, <1>3

\* The ring of backends: wherever it starts, it comes to a backend.
LEMMA NthIsServer ==
  ASSUME SessionTypes, NEW i \in 0 .. Cardinality(Servers) - 1
  PROVE  Nth(i) \in Servers /\ (Nth(i) % Cardinality(Servers)) + 1 \in Nat \ {0}
<1>. DEFINE n == Cardinality(Servers)
<1>1. n \in Nat /\ Servers = 1 .. n /\ n # 0
  BY RpcAssumption
<1>2. current - 1 + i \in Nat
  BY <1>1 DEF SessionTypes
<1>. HIDE DEF n
<1>3. \A a \in Nat : a % n \in 0 .. n - 1
  BY <1>1
<1>4. Nth(i) = ((current - 1 + i) % n) + 1
  BY DEF Nth, n
<1>5. Nth(i) \in 1 .. n
  <2>1. PICK b \in 0 .. n - 1 : b = (current - 1 + i) % n
    BY <1>2, <1>3
  <2>. QED
    BY <2>1, <1>1, <1>4
<1>6. (Nth(i) % n) + 1 \in Nat \ {0}
  <2>1. Nth(i) \in Nat
    BY <1>1, <1>5
  <2>2. PICK b \in 0 .. n - 1 : b = Nth(i) % n
    BY <2>1, <1>3
  <2>. QED
    BY <2>2, <1>1
<1>. QED
  BY <1>1, <1>5, <1>6 DEF n

\* Both balancers put a message on the wire under the new id, its data as it was.
LEMMA RenamedMessage ==
  ASSUME NEW m \in Msg, NEW n \in Nat
  PROVE  /\ Renamed(m, n) \in Msg /\ Renamed(m, n).id = n
         /\ Renamed(m, n).data = m.data /\ Renamed(m, n).sum = n
BY Zenon DEF Renamed, updateId, Encode, Message, Msg

\* A request that is forwarded goes under an id that nothing under way to or from its
\* backend has, not even what an earlier connection to it has left in outstandings_.
LEMMA DispatchStep ==
  ASSUME RpcInv, NEW c \in Channels, Dispatch(c)
  PROVE  RpcInv'
<1>. DEFINE m == Head(request[c])
<1>. USE DEF RpcInv
<1>. ChannelOf \in [Calls -> Channels]
  BY RpcAssumption
<1>1. /\ request[c] # <<>> /\ request' = [request EXCEPT ![c] = Tail(@)]
      /\ id' = id /\ outstandings' = outstandings /\ call' = call
      /\ response' = response /\ pending' = pending /\ leaving' = leaving
  BY DEF Dispatch
<1>2. /\ m \in Range(request[c]) /\ m \in Msg
      /\ Tail(request[c]) \in Seq(Msg) /\ Range(Tail(request[c])) \subseteq Range(request[c])
  BY <1>1, RangeTail DEF WireTypes
<1>3. IsOf(m.data, c, m.id) /\ m.data \in Calls /\ m.id \in Nat
  BY ZenonT(60), <1>2 DEF ClientInv, Asks, IsOf, Msg
<1>4. CallInv' /\ CallsKept
  BY ZenonT(60), <1>1 DEF CallInv, CallTypes, IdsApart, OutstandingInv, IsOf, CallGetsOwnAnswer, CallsKept
<1>5. /\ request' \in [Channels -> Seq(Msg)]
      /\ \A d \in Channels : Range(request'[d]) \subseteq Range(request[d])
  BY <1>1, <1>2 DEF WireTypes
<1>6. ClientInv'
  BY <1>1, <1>4, <1>5, ClientKept
<1>7. CASE UNCHANGED <<arriving, nextId, forwarded, current>>
  <2>1. WireTypes' /\ SessionTypes'
    BY ZenonT(60), <1>1, <1>5, <1>7 DEF WireTypes, SessionTypes
  <2>2. ServerInv'
    BY <1>1, <1>4, <1>7, ServerKept
  <2>. QED
    BY <1>4, <1>6, <2>1, <2>2
<1>8. ASSUME NEW i \in Tried,
             current' = (Nth(i) % Cardinality(Servers)) + 1, send(Nth(i), m, c)
      PROVE  RpcInv'
  <2>. PICK s : s = Nth(i)
    OBVIOUS
  <2>1. s \in Servers /\ current' \in Nat \ {0}
    BY <1>8, NthIsServer DEF Tried
  <2>2. PICK n : n = nextId[s] + 1
    OBVIOUS
  <2>3. PICK r : r = [id |-> n, origId |-> m.id, client |-> c]
    BY Zenon
  <2>4. PICK x : x = Renamed(m, n)
    BY ZenonT(60)
  <2>5. /\ nextId' = [nextId EXCEPT ![s] = n]
        /\ forwarded' = [forwarded EXCEPT ![s] = @ \cup {r}]
        /\ arriving' = [arriving EXCEPT ![s] = Append(@, x)]
    BY <1>8, <2>2, <2>3, <2>4 DEF send
  <2>6. n \in Nat /\ nextId[s] \in Nat /\ n > nextId[s]
    BY <2>1, <2>2 DEF SessionTypes
  <2>7. /\ r \in [id : Nat, origId : Nat, client : Channels]
        /\ r.id = n /\ r.origId = m.id /\ r.client = c
    BY ZenonT(60), <2>3, <2>6, <1>3
  <2>8. x \in Msg /\ x.id = n /\ x.data = m.data /\ x.sum = x.id
    <3>1. x \in Msg /\ x.id = n /\ x.data = m.data /\ x.sum = n
      BY ONLY ZenonT(60), <2>4, <2>6, <1>2, RenamedMessage
    <3>. QED
      BY ONLY Zenon, <3>1
  <2>. HIDE DEF m
  <2>9. /\ arriving' \in [Servers -> Seq(Msg)]
        /\ Range(arriving'[s]) = Range(arriving[s]) \cup {x}
        /\ \A z \in Servers : z # s => arriving'[z] = arriving[z]
    BY <2>1, <2>5, <2>8, RangeAppend DEF WireTypes
  <2>10. WireTypes' /\ SessionTypes'
    BY ZenonT(60), <2>1, <2>5, <2>6, <2>7, <2>9, <1>1, <1>5 DEF WireTypes, SessionTypes
  <2>11. /\ nextId'[s] = n /\ forwarded'[s] = forwarded[s] \cup {r}
         /\ \A z \in Servers : z # s => nextId'[z] = nextId[z] /\ forwarded'[z] = forwarded[z]
    BY <2>1, <2>5 DEF SessionTypes
  <2>12. \A k, d, w : IsOf(k, d, w)' <=> IsOf(k, d, w)
    BY <1>1 DEF IsOf
  <2>13. ASSUME NEW z \in Servers, NEW k, NEW j \in Nat, Travels(k, j, z)
         PROVE  Travels(k, j, z)'
    <3>1. CASE z # s
      <4>1. nextId'[z] = nextId[z] /\ forwarded'[z] = forwarded[z]
        BY Zenon, <3>1, <2>11
      <4>2. k \in Calls /\ j <= nextId[z] /\ \A q \in forwarded[z] : q.id = j => IsOf(k, q.client, q.origId)
        BY Zenon, <2>13 DEF Travels
      <4>3. \A q \in forwarded[z] : q.id = j => IsOf(k, q.client, q.origId)'
        BY Zenon, <4>2, <2>12
      <4>. QED
        BY ONLY Zenon, <4>1, <4>2, <4>3 DEF Travels
    <3>2. CASE z = s
      <4>1. k \in Calls /\ j <= nextId[s]
        BY ZenonT(60), <3>2, <2>13 DEF Travels
      <4>2. j <= n /\ j # n
        BY <4>1, <2>6
      <4>3. \A q \in forwarded'[s] : q.id = j => IsOf(k, q.client, q.origId)
        BY ZenonT(60), <4>2, <3>2, <2>7, <2>11, <2>13 DEF Travels
      <4>. QED
        BY ZenonT(60), <4>1, <4>2, <4>3, <3>2, <2>11, <2>12 DEF Travels
    <3>. QED
      BY <3>1, <3>2
  <2>14. Travels(x.data, x.id, s)'
    <3>1. \A q \in forwarded[s] : q.id # n
      <4>1. \A q \in forwarded[s] : q.id <= nextId[s]
        BY ZenonT(60), <2>1 DEF ServerInv
      <4>2. \A q \in forwarded[s] : q.id \in Nat
        <5>1. forwarded[s] \subseteq [id : Nat, origId : Nat, client : Channels]
          BY ZenonT(60), <2>1 DEF SessionTypes
        <5>. QED
          BY ONLY SMTT(60), Z3T(60), <5>1
      <4>. QED
        BY ONLY SMTT(60), Z3T(60), <4>1, <4>2, <2>6
    <3>2. \A q \in forwarded'[s] : q.id = n => IsOf(m.data, q.client, q.origId)
      BY <3>1, <2>7, <2>11, <1>3
    <3>3. n <= nextId'[s]
      BY <2>6, <2>11
    <3>. QED
      BY ZenonT(60), <3>2, <3>3, <2>8, <2>11, <2>12, <1>3 DEF Travels
  <2>15. ServerInv'
    <3>. SUFFICES ASSUME NEW z \in Servers
                  PROVE  /\ \A q \in forwarded'[z] : q.id <= nextId'[z]
                         /\ \A y \in Range(arriving'[z]) : y.sum = y.id /\ Travels(y.data, y.id, z)'
                         /\ \A p \in pending[z] : p.data \notin Faulty /\ Travels(p.data, p.id, z)'
                         /\ \A y \in Range(leaving[z]) :
                              y.sum = y.id /\ \E k \in Calls : y.data = Answer(k) /\ Travels(k, y.id, z)'
      BY ZenonT(60), <1>1 DEF ServerInv
    <3>1. \A q \in forwarded'[z] : q.id <= nextId'[z]
      <4>1. CASE z # s
        <5>1. \A q \in forwarded[z] : q.id <= nextId[z]
          BY ZenonT(60) DEF ServerInv
        <5>2. forwarded'[z] = forwarded[z] /\ nextId'[z] = nextId[z]
          BY <4>1, <2>11
        <5>. QED
          BY ZenonT(60), <5>1, <5>2
      <4>2. CASE z = s
        <5>1. \A q \in forwarded[s] : q.id \in Nat /\ q.id <= nextId[s]
          <6>1. \A q \in forwarded[s] : q.id <= nextId[s]
            BY ZenonT(60), <2>1 DEF ServerInv
          <6>2. forwarded[s] \subseteq [id : Nat, origId : Nat, client : Channels]
            BY ZenonT(60), <2>1 DEF SessionTypes
          <6>3. \A q \in forwarded[s] : q.id \in Nat
            BY ONLY SMTT(60), Z3T(60), <6>2
          <6>. QED
            BY ONLY Zenon, <6>1, <6>3
        <5>. QED
          BY <4>2, <5>1, <2>6, <2>7, <2>11
      <4>. QED
        BY <4>1, <4>2
    <3>2. ASSUME NEW y \in Range(arriving'[z]) PROVE y.sum = y.id /\ Travels(y.data, y.id, z)'
      <4>1. CASE z = s /\ y = x
        BY <4>1, <2>8, <2>14
      <4>2. CASE y \in Range(arriving[z])
        <5>1. y \in Msg
          BY <4>2 DEF WireTypes, Range
        <5>2. y.id \in Nat /\ y.sum = y.id /\ Travels(y.data, y.id, z)
          BY ZenonT(60), <5>1, <4>2 DEF Msg, ServerInv
        <5>. QED
          BY ZenonT(60), <5>2, <2>13
      <4>. QED
        BY Zenon, <4>1, <4>2, <2>9
    <3>3. ASSUME NEW p \in pending[z] PROVE p.data \notin Faulty /\ Travels(p.data, p.id, z)'
      <4>1. p.id \in Nat /\ p.data \notin Faulty /\ Travels(p.data, p.id, z)
        <5>1. p.data \notin Faulty /\ Travels(p.data, p.id, z)
          BY ZenonT(60) DEF ServerInv
        <5>2. p \in [id : Nat, data : Payload]
          BY ZenonT(60) DEF WireTypes
        <5>3. p.id \in Nat
          BY ONLY SMTT(60), Z3T(60), <5>2
        <5>. QED
          BY ONLY Zenon, <5>1, <5>3
      <4>. QED
        BY ZenonT(60), <4>1, <2>13
    <3>4. ASSUME NEW y \in Range(leaving[z])
          PROVE  y.sum = y.id /\ \E k \in Calls : y.data = Answer(k) /\ Travels(k, y.id, z)'
      <4>1. y \in Msg
        BY DEF WireTypes, Range
      <4>2. y.id \in Nat /\ y.sum = y.id
        BY ZenonT(60), <4>1 DEF Msg, ServerInv
      <4>3. PICK k \in Calls : y.data = Answer(k) /\ Travels(k, y.id, z)
        BY DEF ServerInv
      <4>. QED
        BY <4>2, <4>3, <2>13
    <3>. QED
      BY ZenonT(60), <3>1, <3>2, <3>3, <3>4
  <2>. QED
    BY <1>4, <1>6, <2>10, <2>15
<1>. QED
  BY <1>7, <1>8 DEF Dispatch

\* A response goes back to the caller that the entry with its id names, under the caller's
\* own id, and the entry goes.
LEMMA SendBackStep ==
  ASSUME RpcInv, NEW s \in Servers, SendBack(s)
  PROVE  RpcInv'
<1>. DEFINE m == Head(leaving[s])
            found == {r \in forwarded[s] : r.id = m.id}
            back(c) == Renamed(m, (CHOOSE r \in found : r.client = c).origId)
<1>. USE DEF RpcInv
<1>. ChannelOf \in [Calls -> Channels]
  BY ZenonT(60), RpcAssumption
<1>1. /\ leaving[s] # <<>> /\ leaving' = [leaving EXCEPT ![s] = Tail(@)]
      /\ forwarded' = [forwarded EXCEPT ![s] = @ \ found]
      /\ response' = [c \in Channels |->
           IF c \notin gone /\ \E r \in found : r.client = c
             THEN Append(response[c], back(c)) ELSE response[c]]
      /\ id' = id /\ outstandings' = outstandings /\ call' = call /\ request' = request
      /\ arriving' = arriving /\ pending' = pending /\ nextId' = nextId /\ current' = current
  BY ZenonT(60) DEF SendBack
<1>2. /\ m \in Range(leaving[s]) /\ m \in Msg
      /\ Tail(leaving[s]) \in Seq(Msg) /\ Range(Tail(leaving[s])) \subseteq Range(leaving[s])
  BY ZenonT(60), <1>1, RangeTail DEF WireTypes
<1>3. PICK k \in Calls : m.data = Answer(k) /\ Travels(k, m.id, s)
  BY ZenonT(60), <1>2 DEF ServerInv
<1>4. CallInv' /\ CallsKept
  BY ZenonT(60), <1>1 DEF CallInv, CallTypes, IdsApart, OutstandingInv, IsOf, CallGetsOwnAnswer, CallsKept
<1>5. \A l, d, w : IsOf(l, d, w)' <=> IsOf(l, d, w)
  BY ZenonT(60), <1>1 DEF IsOf
<1>6. ASSUME NEW c \in Channels, \E r \in found : r.client = c
      PROVE  back(c) \in Msg /\ AnswersTo(back(c), c)
  <2>1. PICK r : r \in found /\ r.client = c /\ r = CHOOSE q \in found : q.client = c
    BY <1>6
  <2>2. r \in forwarded[s] /\ r.id = m.id /\ r.origId \in Nat
    BY <2>1 DEF SessionTypes
  <2>3. IsOf(k, c, r.origId)
    BY ZenonT(60), <2>1, <2>2, <1>3 DEF Travels
  <2>4. back(c) = Renamed(m, r.origId)
    BY <2>1
  <2>. HIDE DEF back, m, found
  <2>5. PICK x : x = Renamed(m, r.origId)
    OBVIOUS
  <2>6. x \in Msg /\ x.id = r.origId /\ x.data = m.data /\ x.sum = x.id
    BY ZenonT(60), <2>2, <2>5, <1>2, RenamedMessage
  <2>7. AnswersTo(x, c)
    BY <2>3, <2>6, <1>3 DEF AnswersTo
  <2>. QED
    BY ZenonT(60), <2>4, <2>5, <2>6, <2>7
<1>. HIDE DEF back
<1>7. ASSUME NEW c \in Channels
      PROVE  /\ response'[c] \in Seq(Msg)
             /\ \A x \in Range(response'[c]) : AnswersTo(x, c)
  <2>1. CASE c \notin gone /\ \E r \in found : r.client = c
    <3>1. response'[c] = Append(response[c], back(c)) /\ back(c) \in Msg /\ AnswersTo(back(c), c)
      BY ZenonT(60), <2>1, <1>1, <1>6
    <3>2. response'[c] \in Seq(Msg) /\ Range(response'[c]) = Range(response[c]) \cup {back(c)}
      BY <3>1, RangeAppend DEF WireTypes
    <3>. QED
      BY <3>1, <3>2 DEF ClientInv
  <2>2. CASE ~(c \notin gone /\ \E r \in found : r.client = c)
    <3>1. response'[c] = response[c]
      BY ZenonT(60), <2>2, <1>1
    <3>. QED
      BY <3>1 DEF ClientInv, WireTypes
  <2>. QED
    BY <2>1, <2>2
<1>8. response' \in [Channels -> Seq(Msg)]
  BY ZenonT(60), <1>1, <1>7
<1>9. /\ leaving' \in [Servers -> Seq(Msg)]
      /\ \A z \in Servers : Range(leaving'[z]) \subseteq Range(leaving[z])
  BY ZenonT(60), <1>1, <1>2 DEF WireTypes
<1>10. WireTypes' /\ SessionTypes'
  BY ZenonT(60), <1>1, <1>8, <1>9 DEF WireTypes, SessionTypes
<1>11. ClientInv'
  <2>1. \A x, c : /\ Asks(x, c)' <=> Asks(x, c)
                  /\ AnswersTo(x, c)' <=> AnswersTo(x, c)
    BY Zenon, <1>5 DEF Asks, AnswersTo
  <2>2. request' = request
    BY Zenon, <1>1
  <2>3. \A c \in Channels : \A x \in Range(request[c]) : Asks(x, c)
    BY Zenon DEF ClientInv
  <2>4. \A c \in Channels : \A x \in Range(response'[c]) : AnswersTo(x, c)
    BY Zenon, <1>7
  <2>. QED
    BY ONLY Zenon, <2>1, <2>2, <2>3, <2>4 DEF ClientInv
<1>12. ServerInv'
  <2>1. \A z \in Servers : forwarded'[z] \subseteq forwarded[z]
    BY ZenonT(60), <1>1 DEF SessionTypes
  <2>2. \A l, w : \A z \in Servers : Travels(l, w, z) => Travels(l, w, z)'
    BY ZenonT(60), <2>1, <1>1, <1>5 DEF Travels
  <2>3. ASSUME NEW z \in Servers
        PROVE  /\ \A r \in forwarded'[z] : r.id <= nextId'[z]
               /\ \A x \in Range(arriving'[z]) : x.sum = x.id /\ Travels(x.data, x.id, z)'
               /\ \A p \in pending'[z] : p.data \notin Faulty /\ Travels(p.data, p.id, z)'
               /\ \A x \in Range(leaving'[z]) :
                    x.sum = x.id /\ \E l \in Calls : x.data = Answer(l) /\ Travels(l, x.id, z)'
    <3>1. \A r \in forwarded'[z] : r.id <= nextId'[z]
      BY ZenonT(60), <2>1, <1>1 DEF ServerInv
    <3>2. \A x \in Range(arriving'[z]) : x.sum = x.id /\ Travels(x.data, x.id, z)'
      BY ZenonT(60), <2>2, <1>1 DEF ServerInv
    <3>3. \A p \in pending'[z] : p.data \notin Faulty /\ Travels(p.data, p.id, z)'
      BY ZenonT(60), <2>2, <1>1 DEF ServerInv
    <3>4. \A x \in Range(leaving'[z]) :
            x.sum = x.id /\ \E l \in Calls : x.data = Answer(l) /\ Travels(l, x.id, z)'
      BY ZenonT(60), <2>2, <1>9 DEF ServerInv
    <3>. QED
      BY ZenonT(60), <3>1, <3>2, <3>3, <3>4
  <2>. QED
    BY Zenon, <2>3 DEF ServerInv
<1>. QED
  BY <1>4, <1>10, <1>11, <1>12

\* What a broken connection loses was somebody's; the entries and the ids stay.
LEMMA BackendStep ==
  ASSUME RpcInv, NEW s \in Servers, backendDisconnected(s) \/ backendConnected(s) \/ lateDoneCrashes(s)
  PROVE  RpcInv'
<1>. USE DEF RpcInv
<1>. ChannelOf \in [Calls -> Channels]
  BY RpcAssumption
<1>1. /\ id' = id /\ outstandings' = outstandings /\ call' = call /\ request' = request
      /\ response' = response /\ forwarded' = forwarded /\ current' = current
  BY ZenonT(60) DEF backendDisconnected, backendConnected, lateDoneCrashes, channelVars
<1>2. nextId' = nextId
  BY ZenonT(60) DEF backendDisconnected, backendConnected, lateDoneCrashes, NextIdAfter, SessionTypes
<1>3. CallInv' /\ CallsKept
  BY ZenonT(60), <1>1 DEF CallInv, CallTypes, IdsApart, OutstandingInv, IsOf, CallGetsOwnAnswer, CallsKept
<1>4. ClientInv'
  BY <1>1, <1>3, ClientKept
<1>5. /\ arriving' \in [Servers -> Seq(Msg)] /\ leaving' \in [Servers -> Seq(Msg)]
      /\ pending' \in [Servers -> SUBSET [id : Nat, data : Payload]]
      /\ \A z \in Servers : /\ Range(arriving'[z]) \subseteq Range(arriving[z])
                            /\ Range(leaving'[z]) \subseteq Range(leaving[z])
                            /\ pending'[z] \subseteq pending[z]
  <2>1. CASE backendDisconnected(s)
    <3>1. <<>> \in Seq(Msg)
      OBVIOUS
    <3>. QED
      BY <2>1, <3>1, RangeEmpty DEF backendDisconnected, WireTypes
  <2>3. CASE lateDoneCrashes(s)
    <3>1. <<>> \in Seq(Msg)
      OBVIOUS
    <3>. QED
      BY <2>3, <3>1, RangeEmpty DEF lateDoneCrashes, WireTypes
  <2>2. CASE backendConnected(s)
    BY ZenonT(60), <2>2 DEF backendConnected, channelVars, WireTypes
  <2>. QED
    BY Zenon, <2>1, <2>2, <2>3
<1>6. ServerInv'
  BY ZenonT(60), <1>1, <1>2, <1>3, <1>5, ServerKept
<1>7. WireTypes' /\ SessionTypes'
  BY <1>1, <1>2, <1>5 DEF WireTypes, SessionTypes
<1>. QED
  BY <1>3, <1>4, <1>6, <1>7

\* Every step of the channels, the servers and the balancer keeps the invariant.
LEMMA RpcStep == RpcInv /\ [BalancerNext]_balancerVars => RpcInv'
<1>. SUFFICES ASSUME RpcInv, [BalancerNext]_balancerVars PROVE RpcInv'
  OBVIOUS
<1>. DEFINE sessions == <<balancer, conn, nextId, forwarded, current, drops>>
<1>1. ASSUME NEW k \in Calls, CallMethod(k), UNCHANGED sessions PROVE RpcInv'
  <2>1. CallInv' /\ CallsKept
    BY ZenonT(60), <1>1, CallMethodStep
  <2>2. UNCHANGED <<request, response, arriving, pending, leaving>>
    BY <1>1 DEF CallMethod
  <2>3. ClientInv'
    BY ZenonT(60), <2>1, <2>2, ClientKept DEF RpcInv
  <2>4. ServerInv'
    BY <1>1, <2>1, <2>2, ServerKept DEF RpcInv
  <2>. QED
    BY <1>1, <2>1, <2>2, <2>3, <2>4 DEF RpcInv, WireTypes, SessionTypes
<1>2. ASSUME NEW k \in Calls, SendRequest(k), UNCHANGED sessions PROVE RpcInv'
  <2>1. CallInv' /\ CallsKept /\ ClientInv' /\ request' \in [Channels -> Seq(Msg)]
    BY <1>2, SendRequestStep
  <2>2. UNCHANGED <<response, arriving, pending, leaving>>
    BY ZenonT(60), <1>2 DEF SendRequest
  <2>3. ServerInv'
    BY ZenonT(60), <1>2, <2>1, <2>2, ServerKept DEF RpcInv
  <2>. QED
    BY <1>2, <2>1, <2>2, <2>3 DEF RpcInv, WireTypes, SessionTypes
<1>3. ASSUME NEW c \in Channels, onResponse(c), UNCHANGED sessions PROVE RpcInv'
  <2>1. /\ CallInv' /\ CallsKept /\ response' \in [Channels -> Seq(Msg)]
        /\ \A d \in Channels : Range(response'[d]) \subseteq Range(response[d])
    BY Zenon, <1>3, onResponseStep
  <2>2. UNCHANGED <<request, arriving, pending, leaving>>
    BY Zenon, <1>3 DEF onResponse
  <2>3. ClientInv'
    BY ZenonT(60), <2>1, <2>2, ClientKept DEF RpcInv
  <2>4. ServerInv'
    BY ZenonT(60), <1>3, <2>1, <2>2, ServerKept DEF RpcInv
  <2>. QED
    BY <1>3, <2>1, <2>2, <2>3, <2>4 DEF RpcInv, WireTypes, SessionTypes
<1>4. ASSUME NEW c \in Channels, destroy(c), UNCHANGED sessions PROVE RpcInv'
  <2>1. /\ CallInv' /\ CallsKept
        /\ request' \in [Channels -> Seq(Msg)] /\ response' \in [Channels -> Seq(Msg)]
        /\ \A d \in Channels : /\ Range(request'[d]) \subseteq Range(request[d])
                               /\ Range(response'[d]) \subseteq Range(response[d])
    BY Zenon, <1>4, destroyStep
  <2>2. UNCHANGED <<arriving, pending, leaving>>
    BY <1>4 DEF destroy
  <2>3. ClientInv'
    BY ZenonT(60), <2>1, <2>2, ClientKept DEF RpcInv
  <2>4. ServerInv'
    BY Zenon, <1>4, <2>1, <2>2, ServerKept DEF RpcInv
  <2>. QED
    BY ZenonT(60), <1>4, <2>1, <2>2, <2>3, <2>4 DEF RpcInv, WireTypes, SessionTypes
<1>5. ASSUME NEW s \in Servers, onRequest(s) \/ doneCallback(s), UNCHANGED sessions PROVE RpcInv'
  <2>1. ServerInv' /\ WireTypes'
    BY <1>5, RpcServerStep
  <2>2. UNCHANGED <<id, outstandings, call, request, response>>
    BY ZenonT(60), <1>5 DEF onRequest, doneCallback
  <2>3. CallInv' /\ CallsKept
    BY ZenonT(60), <2>2 DEF RpcInv, CallInv, CallTypes, IdsApart, OutstandingInv, IsOf, CallGetsOwnAnswer, CallsKept
  <2>4. ClientInv'
    BY <2>2, <2>3, ClientKept DEF RpcInv
  <2>. QED
    BY <1>5, <2>1, <2>3, <2>4 DEF RpcInv, SessionTypes
<1>6. CASE UNCHANGED balancerVars
  <2>1. /\ UNCHANGED <<id, outstandings, gone, call, request, response, arriving, pending, stale, leaving>>
        /\ UNCHANGED sessions
    BY ZenonT(60), <1>6 DEF balancerVars, channelVars
  <2>2. CallInv' /\ CallsKept
    BY ZenonT(60), <2>1 DEF RpcInv, CallInv, CallTypes, IdsApart, OutstandingInv, IsOf, CallGetsOwnAnswer, CallsKept
  <2>3. ClientInv'
    BY ZenonT(60), <2>1, <2>2, ClientKept DEF RpcInv
  <2>4. ServerInv'
    BY ZenonT(60), <2>1, <2>2, ServerKept DEF RpcInv
  <2>. QED
    BY <2>1, <2>2, <2>3, <2>4 DEF RpcInv, WireTypes, SessionTypes
<1>7. CASE BalancerNext
  <2>1. CASE ChannelNext /\ UNCHANGED sessions
    BY <2>1, <1>1, <1>2, <1>3, <1>4, <1>5 DEF ChannelNext
  <2>2. CASE \E c \in Channels : parsed_onRpcMessage(c) \/ raw_onRawMessage(c)
    BY <2>2, DispatchStep DEF parsed_onRpcMessage, raw_onRawMessage
  <2>3. CASE \E s \in Servers : parsed_session_onRpcMessage(s) \/ raw_session_onRawMessage(s)
    BY <2>3, SendBackStep DEF parsed_session_onRpcMessage, raw_session_onRawMessage
  <2>4. CASE \E s \in Servers : backendDisconnected(s) \/ backendConnected(s) \/ lateDoneCrashes(s)
    BY <2>4, BackendStep
  <2>. QED
    BY ZenonT(60), <1>7, <2>1, <2>2, <2>3, <2>4 DEF BalancerNext
<1>. QED
  BY <1>6, <1>7

\* For any callers, calls, channels and backends, of either balancer: a call that is
\* completed is completed by the response to its own request, its closure runs or is deleted
\* at most once, and no message is corrupt, whatever connections to backends break and are made
\* again (RpcChannel.cc:96, balancer_raw.cc:102, balancer_raw.cc:168).
THEOREM CallsGetOwnAnswers == BalancerSpec => []CallsAnsweredOnce
<1>1. BalancerSpec => []RpcInv
  BY RpcInitially, RpcStep, PTL DEF BalancerSpec
<1>. QED
  BY <1>1, RpcInvSuffices, PTL
=============================================================================
