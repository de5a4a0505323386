--------------------------- MODULE PollersProofs ---------------------------
(***************************************************************************)
(* Theorems about the two pollers and the walk over the active channels,   *)
(* for any channels, any readiness of their descriptors, and any number of *)
(* connections and functors.                                               *)
(***************************************************************************)
EXTENDS MCPollersTimers, SequenceTheorems, TLAPS

(* The prover of each step that names none. *)
USE ZenonT(60)

-----------------------------------------------------------------------------
(* Channel.                                                                *)

(* What a call may make of events_ is again an interest, and no interest   *)
(* is mistaken for a descriptor that is not watched.                       *)
LEMMA InterestsAreClosed ==
  /\ \A ev \in Poll!Interests : Poll!UpdatesOf(ev) \subseteq Poll!Interests
  /\ {} \in Poll!Interests
  <1> USE DEF Poll!Interests, Poll!kReadEvent, Poll!kWriteEvent
  <1>1. ASSUME NEW ev \in Poll!Interests, NEW u \in Poll!UpdatesOf(ev)
        PROVE  u \in Poll!Interests
    <2>1. ev = {} \/ ev = {"in", "pri"} \/ ev = {"out"} \/ ev = {"in", "pri", "out"}
      BY SMT
    <2>2. u = ev \cup {"in", "pri"} \/ u = ev \ {"in", "pri"} \/ u = ev \cup {"out"}
          \/ u = ev \ {"out"} \/ u = {}
      BY SMT, <1>1 DEF Poll!UpdatesOf, Poll!enableReading, Poll!disableReading,
                       Poll!enableWriting, Poll!disableWriting, Poll!disableAll
    <2>3. u = {} \/ u = {"in", "pri"} \/ u = {"out"} \/ u = {"in", "pri", "out"}
      BY SMT, <2>1, <2>2
    <2>4. {"in", "pri", "out"} \in Poll!Interests
      BY SMT
    <2>5. QED
      BY SMT, <2>3, <2>4
  <1>2. QED
    BY <1>1

-----------------------------------------------------------------------------
(* The poll one.                                                           *)

Entries == [fd : Int, events : Poll!Interests]

(* The inductive invariant: the entry index_ points at is the one          *)
(* updateChannel() wrote last, and the array holds nothing else.           *)
Entry(c) == IF c \in bare THEN Poll!NewEntry(c, {}) ELSE Poll!UpdatedEntry(c, events[c])
Home(c) ==
  /\ index[c] + 1 \in DOMAIN pollfds
  /\ pollfds[index[c] + 1] = Entry(c)
PollInv ==
  /\ events \in [Channels -> Poll!Interests]
  /\ index \in [Channels -> Int] /\ \A c \in Channels : index[c] >= -1
  /\ pollfds \in Seq(Entries)
  /\ channels \subseteq Channels
  /\ bare \subseteq channels /\ \A c \in bare : events[c] = {}
  /\ added \in [Channels -> BOOLEAN] /\ \A c \in Channels : added[c] <=> c \in channels
  /\ \A c \in channels : Home(c)
  /\ \A i \in DOMAIN pollfds : \E c \in channels : index[c] = i - 1

(* The descriptor of an entry tells whose it is, hidden or not. *)
LEMMA EntryOf ==
  ASSUME NEW c \in Channels, events[c] \in Poll!Interests, c \in bare => events[c] = {}
  PROVE  /\ Entry(c) \in Entries /\ Entry(c).events = events[c]
         /\ Entry(c).fd = IF events[c] = {} /\ c \notin bare THEN -c - 1 ELSE c
  <1>1. CASE c \in bare
    BY SMTT(60), <1>1, Descriptors DEF Entry, Poll!NewEntry, Entries
  <1>2. CASE c \notin bare
    BY SMTT(60), <1>2, Descriptors DEF Entry, Poll!UpdatedEntry, Poll!Complement, Entries
  <1>3. QED
    BY <1>1, <1>2

LEMMA OneEntryEach ==
  ASSUME PollInv, NEW c \in channels, NEW d \in channels, index[c] = index[d]
  PROVE  c = d
  <1>1. c \in Channels /\ d \in Channels /\ events[c] \in Poll!Interests
        /\ events[d] \in Poll!Interests
    BY DEF PollInv
  <1>2. Entry(c) = Entry(d)
    BY DEF PollInv, Home
  <1>3. Entry(c).fd \in {c, -c - 1} /\ Entry(d).fd \in {d, -d - 1}
    BY <1>1, EntryOf DEF PollInv
  <1>4. QED
    BY SMTT(60), <1>1, <1>2, <1>3, Descriptors

(* An array without its last entry, which took the place of another. *)
LEMMA Shortened ==
  ASSUME NEW S, NEW s \in Seq(S), NEW p \in 1..Len(s),
         NEW t, t = SubSeq([s EXCEPT ![p] = s[Len(s)]], 1, Len(s) - 1)
  PROVE  /\ t \in Seq(S) /\ Len(t) = Len(s) - 1
         /\ \A i \in 1..Len(s) - 1 : t[i] = IF i = p THEN s[Len(s)] ELSE s[i]
  <1> DEFINE e == [s EXCEPT ![p] = s[Len(s)]]
  <1>1. Len(s) \in Nat /\ Len(s) \in 1..Len(s) /\ s[Len(s)] \in S
    BY SMT, ElementOfSeq
  <1>2. e \in Seq(S) /\ Len(e) = Len(s)
        /\ \A i \in 1..Len(s) : e[i] = IF i = p THEN s[Len(s)] ELSE s[i]
    BY SMTT(60), <1>1, ExceptSeq
  <1> HIDE DEF e
  <1>3. \A i \in 1..Len(s) - 1 : e[i] \in S /\ i \in 1..Len(s)
    BY SMTT(60), <1>1, <1>2, ElementOfSeq
  <1>4. /\ SubSeq(e, 1, Len(s) - 1) \in Seq(S)
        /\ Len(SubSeq(e, 1, Len(s) - 1)) = Len(s) - 1
        /\ \A i \in 1..Len(s) - 1 : SubSeq(e, 1, Len(s) - 1)[i] = e[i]
    BY SMTT(60), <1>1, <1>2, <1>3
  <1>5. t = SubSeq(e, 1, Len(s) - 1)
    BY DEF e
  <1>6. QED
    BY <1>2, <1>3, <1>4, <1>5

(* Which channel an entry is found to belong to. *)
LEMMA OwnerOf ==
  ASSUME PollInv, NEW i \in DOMAIN pollfds
  PROVE  \E c \in channels :
           /\ index[c] = i - 1 /\ pollfds[i] = Entry(c)
           /\ (IF pollfds[i].fd < 0 THEN Poll!Complement(pollfds[i].fd) ELSE pollfds[i].fd) = c
  <1>1. PICK c \in channels : index[c] = i - 1
    BY DEF PollInv
  <1>2. i \in Int /\ index[c] + 1 = i
    BY SMT, <1>1 DEF PollInv
  <1>3. pollfds[i] = Entry(c)
    BY <1>2 DEF PollInv, Home
  <1>4. c \in Channels /\ Entry(c).fd \in {c, -c - 1}
    BY EntryOf DEF PollInv
  <1>5. (IF pollfds[i].fd < 0 THEN Poll!Complement(pollfds[i].fd) ELSE pollfds[i].fd) = c
    BY SMTT(60), <1>3, <1>4, Descriptors DEF Poll!Complement
  <1>6. QED
    BY <1>1, <1>3, <1>5

LEMMA PollUpdates ==
  ASSUME PollInv, NEW c \in Channels, Poll!updateChannel(c)
  PROVE  PollInv'
  <1>1. PICK ev \in Poll!UpdatesOf(events[c]) :
          /\ Poll!MayUpdate(c)
          /\ events' = [events EXCEPT ![c] = ev]
          /\ added' = [added EXCEPT ![c] = TRUE]
          /\ IF index[c] < 0
             THEN /\ pollfds' = Append(pollfds, Poll!NewEntry(c, ev))
                  /\ index' = [index EXCEPT ![c] = Len(pollfds)]
                  /\ channels' = channels \cup {c}
                  /\ bare' = IF ev = {} THEN bare \cup {c} ELSE bare
             ELSE /\ pollfds' = [pollfds EXCEPT ![index[c] + 1] = Poll!UpdatedEntry(c, ev)]
                  /\ bare' = bare \ {c}
                  /\ UNCHANGED <<index, channels>>
    BY DEF Poll!updateChannel
  <1>2. ev \in Poll!Interests /\ events[c] \in Poll!Interests
    BY <1>1, InterestsAreClosed DEF PollInv
  <1>3. events' \in [Channels -> Poll!Interests] /\ events'[c] = ev
        /\ \A d \in Channels : d # c => events'[d] = events[d]
    BY <1>1, <1>2 DEF PollInv
  <1>4. index[c] \in Int /\ Len(pollfds) \in Nat /\ DOMAIN pollfds = 1..Len(pollfds)
    BY SMT DEF PollInv
  <1>5. c \in channels <=> index[c] >= 0
    <2>1. c \in channels => index[c] >= 0
      BY SMT, <1>4 DEF PollInv, Home
    <2>2. QED
      BY SMTT(60), <1>1, <1>4, <2>1 DEF Poll!MayUpdate
  <1>6. CASE index[c] < 0
    <2>1. /\ pollfds' = Append(pollfds, Poll!NewEntry(c, ev))
          /\ index' = [index EXCEPT ![c] = Len(pollfds)]
          /\ channels' = channels \cup {c}
          /\ bare' = IF ev = {} THEN bare \cup {c} ELSE bare
      BY <1>1, <1>6
    <2>2. c \notin channels /\ c \notin bare
      BY SMTT(60), <1>1, <1>4, <1>5, <1>6 DEF Poll!MayUpdate, PollInv
    <2>b. /\ bare' \subseteq channels' /\ \A d \in bare' : events'[d] = {}
          /\ \A d \in channels : d \in bare' <=> d \in bare
      BY <1>3, <2>1, <2>2 DEF PollInv
    <2>3. /\ Poll!NewEntry(c, ev) = Entry(c)' /\ Poll!NewEntry(c, ev) \in Entries
          /\ \A d \in channels : Entry(d)' = Entry(d)
      <3>1. Poll!NewEntry(c, ev) = Entry(c)'
        BY <1>3, <2>1, <2>2 DEF Entry, Poll!NewEntry, Poll!UpdatedEntry
      <3>2. Poll!NewEntry(c, ev) \in Entries
        BY SMTT(60), <1>2, Descriptors DEF Poll!NewEntry, Entries
      <3>3. \A d \in channels : Entry(d)' = Entry(d)
        BY <1>3, <2>2, <2>b DEF Entry, PollInv
      <3>4. QED
        BY <3>1, <3>2, <3>3
    <2>4. /\ pollfds' \in Seq(Entries) /\ Len(pollfds') = Len(pollfds) + 1
          /\ DOMAIN pollfds' = 1..Len(pollfds) + 1
          /\ \A i \in 1..Len(pollfds) : pollfds'[i] = pollfds[i]
          /\ pollfds'[Len(pollfds) + 1] = Poll!NewEntry(c, ev)
      BY SMTT(60), <2>1, <2>3 DEF PollInv
    <2>5. index' \in [Channels -> Int] /\ \A d \in Channels : index'[d] >= -1
      BY SMTT(60), <1>4, <2>1 DEF PollInv
    <2>6. index'[c] = Len(pollfds) /\ \A d \in Channels : d # c => index'[d] = index[d]
      BY SMTT(60), <1>4, <2>1 DEF PollInv
    <2>7. ASSUME NEW d \in channels'
          PROVE  Home(d)'
      <3>1. CASE d = c
        <4>1. index'[c] + 1 \in DOMAIN pollfds' /\ index'[c] + 1 = Len(pollfds) + 1
          BY SMTT(60), <1>4, <2>4, <2>6
        <4>2. QED
          BY <2>3, <2>4, <3>1, <4>1 DEF Home
      <3>2. CASE d # c
        <4>1. d \in channels /\ d \in Channels
          BY <2>1, <2>7, <3>2 DEF PollInv
        <4>2. index[d] + 1 \in 1..Len(pollfds)
              /\ pollfds[index[d] + 1] = Entry(d)
          BY <1>4, <4>1 DEF PollInv, Home
        <4>3. index[d] + 1 \in DOMAIN pollfds'
          BY SMTT(60), <1>4, <2>4, <4>2
        <4>4. QED
          BY <2>3, <2>4, <2>6, <3>2, <4>1, <4>2, <4>3 DEF Home
      <3>3. QED
        BY <3>1, <3>2
    <2>8. ASSUME NEW i \in DOMAIN pollfds'
          PROVE  \E d \in channels' : index'[d] = i - 1
      <3>1. CASE i \in DOMAIN pollfds
        <4>1. PICK d \in channels : index[d] = i - 1
          BY <3>1 DEF PollInv
        <4>2. QED
          BY <2>1, <2>2, <2>6, <4>1 DEF PollInv
      <3>2. CASE i \notin DOMAIN pollfds
        <4>1. i - 1 = Len(pollfds)
          BY SMTT(60), <1>4, <2>4, <2>8, <3>2
        <4>2. QED
          BY <2>1, <2>6, <4>1
      <3>3. QED
        BY <3>1, <3>2
    <2>9. /\ channels' \subseteq Channels /\ added' \in [Channels -> BOOLEAN]
          /\ \A d \in Channels : added'[d] <=> d \in channels'
      BY <1>1, <2>1 DEF PollInv
    <2>10. QED
      BY <1>3, <2>b, <2>4, <2>5, <2>7, <2>8, <2>9 DEF PollInv
  <1>7. CASE index[c] >= 0
    <2>1. /\ pollfds' = [pollfds EXCEPT ![index[c] + 1] = Poll!UpdatedEntry(c, ev)]
          /\ index' = index /\ channels' = channels /\ bare' = bare \ {c}
      BY SMTT(60), <1>1, <1>4, <1>7
    <2>2. c \in channels /\ index[c] + 1 \in 1..Len(pollfds)
      BY <1>4, <1>5, <1>7 DEF PollInv, Home
    <2>e. /\ Poll!UpdatedEntry(c, ev) = Entry(c)' /\ Poll!UpdatedEntry(c, ev) \in Entries
          /\ \A d \in channels : d # c => Entry(d)' = Entry(d)
          /\ bare' \subseteq channels' /\ \A d \in bare' : events'[d] = {}
      <3>1. Poll!UpdatedEntry(c, ev) = Entry(c)'
        BY <1>3, <2>1 DEF Entry, Poll!UpdatedEntry
      <3>2. Poll!UpdatedEntry(c, ev) \in Entries
        BY SMTT(60), <1>2, Descriptors DEF Poll!UpdatedEntry, Poll!Complement, Entries
      <3>3. \A d \in channels : d # c => Entry(d)' = Entry(d)
        BY <1>3, <2>1 DEF Entry, PollInv
      <3>4. bare' \subseteq channels' /\ \A d \in bare' : events'[d] = {}
        BY <1>3, <2>1 DEF PollInv
      <3>5. QED
        BY <3>1, <3>2, <3>3, <3>4
    <2>3. /\ pollfds' \in Seq(Entries) /\ DOMAIN pollfds' = DOMAIN pollfds
          /\ \A i \in DOMAIN pollfds :
               pollfds'[i] = IF i = index[c] + 1 THEN Poll!UpdatedEntry(c, ev) ELSE pollfds[i]
      BY SMTT(60), <1>4, <2>1, <2>2, <2>e, ExceptSeq DEF PollInv
    <2>4. ASSUME NEW d \in channels
          PROVE  Home(d)'
      <3>1. CASE d = c
        BY <1>4, <2>1, <2>2, <2>3, <2>e, <3>1 DEF Home
      <3>2. CASE d # c
        <4>1. index[d] # index[c] /\ d \in Channels
          BY <2>2, <3>2, OneEntryEach DEF PollInv
        <4>2. index[d] \in Int /\ index[d] + 1 # index[c] + 1
          BY SMTT(60), <1>4, <4>1 DEF PollInv
        <4>3. index[d] + 1 \in DOMAIN pollfds
              /\ pollfds[index[d] + 1] = Entry(d)
          BY DEF PollInv, Home
        <4>4. QED
          BY <2>1, <2>3, <2>e, <3>2, <4>1, <4>2, <4>3 DEF Home
      <3>3. QED
        BY <3>1, <3>2
    <2>5. /\ added' \in [Channels -> BOOLEAN]
          /\ \A d \in Channels : added'[d] <=> d \in channels'
      BY <1>1, <2>1, <2>2 DEF PollInv
    <2>6. QED
      BY <1>3, <2>1, <2>3, <2>4, <2>5, <2>e DEF PollInv
  <1>8. QED
    BY SMTT(60), <1>4, <1>6, <1>7

(* The last entry fills the gap, and its channel learns of it. *)
LEMMA PollRemoves ==
  ASSUME PollInv, NEW c \in Channels, Poll!removeChannel(c)
  PROVE  PollInv'
  <1> DEFINE last == Len(pollfds)
             p == index[c] + 1
  <1>1. /\ c \in channels /\ events' = events /\ bare' = bare \ {c}
        /\ added' = [added EXCEPT ![c] = FALSE] /\ channels' = channels \ {c}
        /\ pollfds' = SubSeq([pollfds EXCEPT ![p] = pollfds[last]], 1, last - 1)
        /\ index' = IF index[c] = last - 1 THEN index
                    ELSE [d \in Channels |-> IF d = Poll!ChannelAtEnd THEN index[c] ELSE index[d]]
    BY DEF Poll!removeChannel, Poll!MayRemove
  <1>2. last \in Nat /\ DOMAIN pollfds = 1..last /\ p \in 1..last /\ last \in 1..last
        /\ index[c] \in Int
    <2>1. last \in Nat /\ DOMAIN pollfds = 1..last /\ index[c] \in Int
      BY SMT DEF PollInv
    <2>2. p \in 1..last
      BY <1>1, <2>1 DEF PollInv, Home
    <2>3. QED
      BY SMTT(60), <2>1, <2>2
  <1>3. /\ pollfds' \in Seq(Entries) /\ Len(pollfds') = last - 1
        /\ \A i \in 1..last - 1 : pollfds'[i] = IF i = p THEN pollfds[last] ELSE pollfds[i]
    BY SMTT(60), <1>1, <1>2, Shortened DEF PollInv
  <1>4. PICK e \in channels : index[e] = last - 1 /\ Poll!ChannelAtEnd = e
    <2>1. last \in DOMAIN pollfds
      BY <1>2
    <2>2. Poll!ChannelAtEnd = IF pollfds[last].fd < 0 THEN Poll!Complement(pollfds[last].fd)
                              ELSE pollfds[last].fd
      BY DEF Poll!ChannelAtEnd
    <2> HIDE DEF last
    <2>3. QED
      BY <2>1, <2>2, OwnerOf
  <1>5. DOMAIN pollfds' = 1..last - 1
    BY SMTT(60), <1>2, <1>3
  <1>6. c = e <=> index[c] = last - 1
    BY <1>1, <1>4, OneEntryEach
  <1> HIDE DEF last, p
  <1>7. /\ index' \in [Channels -> Int] /\ \A d \in Channels : index'[d] >= -1
        /\ \A d \in Channels : index'[d] = IF d = e /\ c # e THEN index[c] ELSE index[d]
    <2>1. CASE c = e
      BY <1>1, <1>6, <2>1 DEF PollInv
    <2>2. CASE c # e
      <3>1. index' = [d \in Channels |-> IF d = e THEN index[c] ELSE index[d]]
        BY <1>1, <1>4, <1>6, <2>2
      <3>2. QED
        BY SMTT(60), <1>2, <2>2, <3>1 DEF PollInv
    <2>3. QED
      BY <2>1, <2>2
  <1>8. ASSUME NEW d \in channels'
        PROVE  Home(d)'
    <2>1. d \in channels /\ d \in Channels /\ d # c
      BY <1>1, <1>8 DEF PollInv
    <2>2. index[d] \in Int /\ index[d] + 1 \in 1..last /\ index[d] # index[c]
          /\ pollfds[index[d] + 1] = Entry(d) /\ Entry(d)' = Entry(d)
      <3>1. Entry(d)' = Entry(d)
        BY <1>1, <2>1 DEF Entry
      <3>2. QED
        BY <1>1, <1>2, <2>1, <3>1, OneEntryEach DEF PollInv, Home
    <2>3. CASE d = e
      <3>1. index'[d] + 1 = p /\ index[d] + 1 = last /\ p \in 1..last - 1
        BY SMTT(60), <1>2, <1>4, <1>7, <2>1, <2>2, <2>3 DEF p
      <3>2. QED
        BY <1>1, <1>3, <1>5, <2>2, <3>1 DEF Home
    <2>4. CASE d # e
      <3>1. index[d] # last - 1
        BY <1>4, <2>1, <2>4, OneEntryEach
      <3>2. index'[d] = index[d] /\ index[d] + 1 \in 1..last - 1 /\ index[d] + 1 # p
        BY SMTT(60), <1>2, <1>7, <2>1, <2>2, <2>4, <3>1 DEF p
      <3>3. QED
        BY <1>1, <1>3, <1>5, <2>2, <3>2 DEF Home
    <2>5. QED
      BY <2>3, <2>4
  <1>9. ASSUME NEW i \in DOMAIN pollfds'
        PROVE  \E d \in channels' : index'[d] = i - 1
    <2>1. i \in 1..last - 1 /\ i \in DOMAIN pollfds /\ i # last
      BY SMTT(60), <1>2, <1>5, <1>9
    <2>2. PICK d \in channels : index[d] = i - 1
      BY <2>1 DEF PollInv
    <2>3. d \in Channels /\ d # e
      BY SMTT(60), <1>2, <1>4, <2>1, <2>2 DEF PollInv
    <2>4. CASE d # c
      BY <1>1, <1>7, <2>2, <2>3, <2>4
    <2>5. CASE d = c
      BY <1>1, <1>4, <1>7, <2>2, <2>3, <2>5 DEF PollInv
    <2>6. QED
      BY <2>4, <2>5
  <1>10. /\ channels' \subseteq Channels /\ added' \in [Channels -> BOOLEAN]
         /\ \A d \in Channels : added'[d] <=> d \in channels'
    BY <1>1 DEF PollInv
  <1>11. bare' \subseteq channels' /\ \A d \in bare' : events'[d] = {}
    BY <1>1 DEF PollInv
  <1>12. QED
    BY <1>1, <1>3, <1>7, <1>8, <1>9, <1>10, <1>11 DEF PollInv

(* Every operation of the poll poller, and the kernel's, keeps the         *)
(* invariant.                                                              *)
LEMMA PollStep ==
  ASSUME PollInv, [Poll!Next]_(Poll!vars)
  PROVE  PollInv'
  <1>1. ASSUME NEW c \in Channels, Poll!newChannel(c)
        PROVE  PollInv'
    <2>1. c \notin channels /\ index' = [index EXCEPT ![c] = -1]
          /\ UNCHANGED <<events, added, channels, pollfds, bare>>
      BY <1>1 DEF Poll!newChannel
    <2>2. /\ index' \in [Channels -> Int] /\ \A d \in Channels : index'[d] >= -1
          /\ \A d \in channels : index'[d] = index[d]
      BY SMT, <2>1 DEF PollInv
    <2>3. QED
      BY <2>1, <2>2 DEF PollInv, Home, Entry
  <1>2. CASE Poll!poll \/ (\E c \in Channels : Poll!kernelChanges(c)) \/ UNCHANGED Poll!vars
    <2>1. UNCHANGED <<events, index, added, channels, pollfds, bare>>
      BY <1>2 DEF Poll!poll, Poll!kernelChanges, Poll!vars
    <2>2. QED
      BY <2>1 DEF PollInv, Home, Entry
  <1>3. QED
    BY <1>1, <1>2, PollUpdates, PollRemoves DEF Poll!Next

(* What TLC checks of the poll poller follows. *)
LEMMA PollMirrors == PollInv => Poll!TypeOK /\ Poll!IndexesPointHome
  <1> SUFFICES ASSUME PollInv PROVE Poll!TypeOK /\ Poll!IndexesPointHome
    OBVIOUS
  <1>1. Len(pollfds) \in Nat /\ DOMAIN pollfds = 1..Len(pollfds)
    BY SMTT(60) DEF PollInv
  <1>2. ASSUME NEW c \in channels
        PROVE  /\ c \in Channels /\ events[c] \in Poll!Interests /\ index[c] \in Int
               /\ index[c] + 1 \in DOMAIN pollfds /\ index[c] >= 0 /\ index[c] < Len(pollfds)
               /\ pollfds[index[c] + 1] = Entry(c)
               /\ pollfds[index[c] + 1].fd = IF events[c] = {} /\ c \notin bare THEN Poll!Complement(c) ELSE c
               /\ pollfds[index[c] + 1].events = events[c]
    <2>1. c \in Channels /\ events[c] \in Poll!Interests /\ index[c] \in Int
          /\ index[c] + 1 \in DOMAIN pollfds
          /\ pollfds[index[c] + 1] = Entry(c)
      BY DEF PollInv, Home
    <2>2. index[c] >= 0 /\ index[c] < Len(pollfds)
      BY SMTT(60), <1>1, <2>1
    <2>3. /\ Entry(c).events = events[c]
          /\ Entry(c).fd = IF events[c] = {} /\ c \notin bare THEN -c - 1 ELSE c
      BY <2>1, EntryOf DEF PollInv
    <2>4. QED
      BY <2>1, <2>2, <2>3 DEF Poll!Complement
  <1>3. Poll!TypeOK
    <2>1. ASSUME NEW i \in DOMAIN pollfds
          PROVE  pollfds[i] \in [fd : Channels \cup {-c - 1 : c \in Channels}, events : Poll!Interests]
      <3>1. PICK c \in channels : pollfds[i] = Entry(c)
        BY OwnerOf
      <3>2. c \in Channels /\ events[c] \in Poll!Interests
        BY <1>2
      <3>3. /\ Entry(c) \in Entries /\ Entry(c).events = events[c]
            /\ Entry(c).fd \in Channels \cup {-d - 1 : d \in Channels}
        <4>1. c \in bare => events[c] = {}
          BY DEF PollInv
        <4>2. /\ Entry(c) \in Entries /\ Entry(c).events = events[c]
              /\ Entry(c).fd = IF events[c] = {} /\ c \notin bare THEN -c - 1 ELSE c
          BY <3>2, <4>1, EntryOf
        <4>3. QED
          BY <3>2, <4>2
      <3>4. QED
        BY SMTT(60), <3>1, <3>2, <3>3 DEF Entries
    <2>2. QED
      BY <2>1 DEF PollInv, Poll!TypeOK
  <1>4. ASSUME NEW c \in Channels
        PROVE  /\ added[c] <=> c \in channels
               /\ Poll!MayUpdate(c) => Poll!UpdateAsserts(c)
               /\ Poll!MayRemove(c) => (Poll!RemoveAsserts(c) <=> c \notin bare)
    <2>1. added[c] <=> c \in channels
      BY DEF PollInv
    <2>2. Poll!MayUpdate(c) => Poll!UpdateAsserts(c)
      <3>1. c \in channels => ~(index[c] < 0)
        BY SMT, <1>2
      <3>2. QED
        BY <1>2, <3>1 DEF Poll!UpdateAsserts, Poll!MayUpdate
    <2>3. ASSUME Poll!MayRemove(c)
          PROVE  Poll!RemoveAsserts(c) <=> c \notin bare
      <3>1. c \in channels /\ events[c] = {} /\ 0 <= index[c] /\ index[c] < Len(pollfds)
        <4>1. c \in channels /\ events[c] = {}
          BY <2>3 DEF Poll!MayRemove
        <4>2. QED
          BY SMTT(60), <1>2, <4>1
      <3>2. pollfds[index[c] + 1] = Entry(c)
        BY <1>2, <3>1
      <3>3. CASE c \in bare
        <4>1. Entry(c).fd = c /\ Poll!Complement(c) # c
          <5>1. Entry(c).fd = c
            BY <3>3, <1>2, <3>1, <3>2
          <5>2. QED
            BY SMTT(60), <5>1, Descriptors DEF Poll!Complement
        <4>2. [fd |-> Poll!Complement(c), events |-> {}].fd # Entry(c).fd
          BY <4>1
        <4>3. QED
          BY <3>2, <3>3, <4>2 DEF Poll!RemoveAsserts
      <3>4. CASE c \notin bare
        BY <3>1, <3>2, <3>4 DEF Poll!RemoveAsserts, Entry, Poll!UpdatedEntry
      <3>5. QED
        BY <3>3, <3>4
    <2>4. QED
      BY <2>1, <2>2, <2>3
  <1>5. Len(pollfds) = 0 => channels = {}
    BY SMTT(60), <1>1, <1>2
  <1>6. \A i \in DOMAIN pollfds : \E c \in channels : index[c] = i - 1
    BY DEF PollInv
  <1>7. QED
    BY <1>2, <1>3, <1>4, <1>5, <1>6 DEF Poll!IndexesPointHome

(* A new poller has an empty array. *)
LEMMA PollInitially == Poll!Init => PollInv
  <1> SUFFICES ASSUME Poll!Init PROVE PollInv
    OBVIOUS
  <1>1. <<>> \in Seq(Entries) /\ DOMAIN <<>> = {}
    BY SMT
  <1>2. index \in [Channels -> Int] /\ \A c \in Channels : index[c] >= -1
    BY SMT DEF Poll!Init
  <1>3. QED
    BY <1>1, <1>2, InterestsAreClosed DEF Poll!Init, Poll!Nothing, PollInv

(* Channel.tla comes with each of the three modules. *)
LEMMA SameChannel ==
  /\ \A ev : Poll!UpdatesOf(ev) = Abstract!UpdatesOf(ev) /\ EPoll!UpdatesOf(ev) = Abstract!UpdatesOf(ev)
  /\ \A r, ev : /\ Poll!Reported(r, ev) = Abstract!Reported(r, ev)
                /\ EPoll!Reported(r, ev) = Abstract!Reported(r, ev)
  /\ EPoll!Interests = Poll!Interests
  BY DEF Poll!Interests, EPoll!Interests, Poll!Reported, EPoll!Reported, Abstract!Reported,
         Poll!UpdatesOf, Poll!enableReading, Poll!disableReading, Poll!enableWriting,
         Poll!disableWriting, Poll!disableAll, Poll!kReadEvent, Poll!kWriteEvent,
         EPoll!UpdatesOf, EPoll!enableReading, EPoll!disableReading, EPoll!enableWriting,
         EPoll!disableWriting, EPoll!disableAll, EPoll!kReadEvent, EPoll!kWriteEvent,
         Abstract!UpdatesOf, Abstract!enableReading, Abstract!disableReading,
         Abstract!enableWriting, Abstract!disableWriting, Abstract!disableAll,
         Abstract!kReadEvent, Abstract!kWriteEvent

(* poll() reports to a channel what its one entry says, and to no other.   *)
LEMMA PollReports ==
  ASSUME PollInv, Poll!poll
  PROVE  Abstract!poll
  <1> DEFINE revents(i) == Poll!Reported(ready[pollfds[i].fd], pollfds[i].events)
             shown == {i \in DOMAIN pollfds : pollfds[i].fd >= 0}
             of(c) == {j \in shown : Poll!ChannelOf(j) = c}
  <1>1. /\ active' = [c \in Channels |-> UNION {revents(i) : i \in of(c)}]
        /\ UNCHANGED <<events, channels, ready>>
    BY DEF Poll!poll
  <1>2. ASSUME NEW c \in Channels, NEW i \in of(c)
        PROVE  /\ c \in channels /\ i = index[c] + 1
               /\ revents(i) = Poll!Reported(ready[c], events[c])
    <2>1. i \in DOMAIN pollfds /\ pollfds[i].fd = c /\ pollfds[i].fd >= 0
      BY DEF Poll!ChannelOf
    <2>2. PICK d \in channels :
            /\ index[d] = i - 1 /\ pollfds[i] = Entry(d)
            /\ (IF pollfds[i].fd < 0 THEN Poll!Complement(pollfds[i].fd) ELSE pollfds[i].fd) = d
      BY <2>1, OwnerOf
    <2>3. d = c /\ i = index[c] + 1
      <3>1. ~(pollfds[i].fd < 0)
        BY SMTT(60), <2>1, Descriptors
      <3>2. d = c
        BY <2>1, <2>2, <3>1
      <3>3. i \in Int
        BY SMTT(60), <2>1 DEF PollInv
      <3>4. QED
        BY SMTT(60), <2>2, <3>2, <3>3
    <2>4. d \in Channels /\ events[d] \in Poll!Interests
      BY DEF PollInv
    <2>5. pollfds[i].events = events[c]
      <3>1. d \in bare => events[d] = {}
        BY DEF PollInv
      <3>2. QED
        BY <2>2, <2>3, <2>4, <3>1, EntryOf
    <2>6. QED
      BY <2>1, <2>3, <2>5
  <1> HIDE DEF revents, of, shown
  <1>3. ASSUME NEW c \in Channels, active'[c] # {}
        PROVE  c \in channels /\ active'[c] = Abstract!Reported(ready[c], events[c])
    <2>1. active'[c] = UNION {revents(i) : i \in of(c)}
      BY <1>1
    <2>2. PICK i \in of(c) : TRUE
      BY <1>3, <2>1
    <2>3. {revents(j) : j \in of(c)} = {Poll!Reported(ready[c], events[c])}
      BY <1>2, <2>2
    <2>4. active'[c] = Poll!Reported(ready[c], events[c])
      BY <2>1, <2>3
    <2>5. QED
      BY <1>2, <2>2, <2>4, SameChannel
  <1>4. QED
    BY <1>1, <1>3 DEF Abstract!poll

(* Every step of the poll poller is a step of the abstract one. *)
LEMMA PollIsPoller ==
  ASSUME PollInv, [Poll!Next]_(Poll!vars)
  PROVE  [Abstract!Next]_(Abstract!vars)
  <1> USE DEF Poll!Nothing, Abstract!Nothing
  <1>1. ASSUME NEW c \in Channels, Poll!updateChannel(c)
        PROVE  Abstract!updateChannel(c)
    <2>1. PICK ev \in Poll!UpdatesOf(events[c]) :
            /\ Poll!MayUpdate(c)
            /\ events' = [events EXCEPT ![c] = ev]
            /\ IF index[c] < 0 THEN channels' = channels \cup {c} ELSE channels' = channels
            /\ active' = Poll!Nothing /\ ready' = ready
      BY <1>1 DEF Poll!updateChannel
    <2>2. channels' = channels \cup {c}
      <3>1. CASE index[c] < 0
        BY <2>1, <3>1
      <3>2. CASE ~(index[c] < 0)
        BY <2>1, <3>2 DEF Poll!MayUpdate
      <3>3. QED
        BY <3>1, <3>2
    <2>3. QED
      BY <2>1, <2>2, SameChannel DEF Abstract!updateChannel
  <1>2. ASSUME NEW c \in Channels, Poll!removeChannel(c)
        PROVE  Abstract!removeChannel(c)
    BY <1>2 DEF Poll!removeChannel, Poll!MayRemove, Abstract!removeChannel
  <1>3. ASSUME NEW c \in Channels, Poll!kernelChanges(c)
        PROVE  Abstract!kernelChanges(c)
    BY <1>3 DEF Poll!kernelChanges, Abstract!kernelChanges
  <1>4. ASSUME NEW c \in Channels, Poll!newChannel(c)
        PROVE  Abstract!poll
    BY <1>4 DEF Poll!newChannel, Abstract!poll
  <1>5. CASE UNCHANGED Poll!vars
    BY <1>5 DEF Poll!vars, Abstract!vars
  <1>6. QED
    BY <1>1, <1>2, <1>3, <1>4, <1>5, PollReports DEF Poll!Next, Abstract!Next

-----------------------------------------------------------------------------
(* The epoll one.                                                          *)

(* The inductive invariant is what TLC checks. *)
EPollInv == EPoll!TypeOK /\ EPoll!IndexMirrorsKernel

(* No interest is mistaken for a descriptor that is not watched. *)
LEMMA Watchable ==
  /\ \A ev \in EPoll!Interests : EPoll!UpdatesOf(ev) \subseteq EPoll!Interests
  /\ {} \in EPoll!Interests
  /\ EPoll!NotWatched \notin EPoll!Interests
  <1>1. EPoll!NotWatched \notin EPoll!Interests
    BY DEF EPoll!NotWatched, EPoll!Interests, EPoll!kReadEvent, EPoll!kWriteEvent
  <1>2. QED
    BY <1>1, InterestsAreClosed, SameChannel

(* One call of epoll_ctl() with the operation index_ stands for succeeds,  *)
(* and has its effect on that descriptor alone.                            *)
LEMMA CtlSucceeds ==
  ASSUME EPollInv, NEW c \in Channels, NEW op, NEW ev \in EPoll!Interests,
         (op = "ADD") <=> (index[c] # "kAdded"), EPoll!epoll_ctl(op, c, ev)
  PROVE  /\ ~ctlFailed'
         /\ epoll' = [epoll EXCEPT ![c] = IF op = "DEL" THEN EPoll!NotWatched ELSE ev]
  BY DEF EPollInv, EPoll!IndexMirrorsKernel, EPoll!epoll_ctl

(* Every operation of the poller, and the kernel's, keeps the invariant.   *)
LEMMA EPollStep ==
  ASSUME EPollInv, [EPoll!Next]_(EPoll!vars)
  PROVE  EPollInv'
  <1>1. ASSUME NEW c \in Channels, EPoll!updateChannel(c)
        PROVE  EPollInv'
    <2>1. PICK ev \in EPoll!UpdatesOf(events[c]) :
            /\ events' = [events EXCEPT ![c] = ev]
            /\ channels' = channels \cup {c} /\ added' = [added EXCEPT ![c] = TRUE]
            /\ EPoll!epoll_ctl(EPoll!CtlOp(c, ev), c, ev)
            /\ index' = [index EXCEPT ![c] = EPoll!IndexAfter(EPoll!CtlOp(c, ev))]
      BY <1>1 DEF EPoll!updateChannel
    <2>2. ev \in EPoll!Interests /\ EPoll!NotWatched # ev
      BY <2>1, Watchable DEF EPollInv, EPoll!TypeOK
    <2> DEFINE op == EPoll!CtlOp(c, ev)
    <2>3. /\ (op = "ADD") <=> (index[c] # "kAdded")
          /\ op \in {"ADD", "DEL", "MOD"}
          /\ op = "DEL" => ev = {}
          /\ op = "MOD" => ev # {}
      BY DEF EPoll!CtlOp, EPollInv, EPoll!TypeOK
    <2>4. ~ctlFailed' /\ epoll' = [epoll EXCEPT ![c] = IF op = "DEL" THEN EPoll!NotWatched ELSE ev]
      BY <2>1, <2>2, <2>3, CtlSucceeds
    <2>5. index' = [index EXCEPT ![c] = IF op = "DEL" THEN "kDeleted" ELSE "kAdded"]
      BY <2>1 DEF EPoll!IndexAfter
    <2> HIDE DEF op
    <2>6. EPoll!TypeOK'
      BY <2>1, <2>2, <2>4, <2>5 DEF EPollInv, EPoll!TypeOK
    <2>7. EPoll!IndexMirrorsKernel'
      BY <2>1, <2>2, <2>3, <2>4, <2>5 DEF EPollInv, EPoll!TypeOK, EPoll!IndexMirrorsKernel
    <2>8. QED
      BY <2>6, <2>7 DEF EPollInv
  <1>2. ASSUME NEW c \in Channels, EPoll!removeChannel(c)
        PROVE  EPollInv'
    <2>1. /\ c \in channels /\ events[c] = {} /\ UNCHANGED events
          /\ channels' = channels \ {c} /\ added' = [added EXCEPT ![c] = FALSE]
          /\ index' = [index EXCEPT ![c] = "kNew"]
      BY <1>2 DEF EPoll!removeChannel, EPoll!AddedAfterRemove
    <2>2. ~ctlFailed' /\ epoll' = [epoll EXCEPT ![c] = EPoll!NotWatched]
      <3>1. CASE EPoll!Unwatches(c)
        <4>1. EPoll!epoll_ctl("DEL", c, {}) /\ index[c] = "kAdded"
          BY <1>2, <3>1 DEF EPoll!removeChannel, EPoll!Unwatches
        <4>2. QED
          BY <4>1, CtlSucceeds, Watchable
      <3>2. CASE ~EPoll!Unwatches(c)
        BY <1>2, <3>2 DEF EPoll!removeChannel, EPoll!Unwatches, EPollInv, EPoll!TypeOK, EPoll!IndexMirrorsKernel
      <3>3. QED
        BY <3>1, <3>2
    <2>3. EPoll!TypeOK'
      BY <2>1, <2>2 DEF EPollInv, EPoll!TypeOK
    <2>4. EPoll!IndexMirrorsKernel'
      BY <2>1, <2>2 DEF EPollInv, EPoll!TypeOK, EPoll!IndexMirrorsKernel
    <2>5. QED
      BY <2>3, <2>4 DEF EPollInv
  <1>3. CASE EPoll!poll \/ (\E c \in Channels : EPoll!kernelChanges(c)) \/ UNCHANGED EPoll!vars
    <2>1. UNCHANGED <<events, index, added, channels, epoll, ctlFailed>>
      BY <1>3 DEF EPoll!poll, EPoll!kernelChanges, EPoll!vars
    <2>2. QED
      BY <2>1 DEF EPollInv, EPoll!TypeOK, EPoll!IndexMirrorsKernel
  <1>4. QED
    BY <1>1, <1>2, <1>3 DEF EPoll!Next

(* Every step of the epoll poller is a step of the abstract poller.        *)
LEMMA EPollIsPoller ==
  ASSUME EPollInv, [EPoll!Next]_(EPoll!vars)
  PROVE  [Abstract!Next]_(Abstract!vars)
  <1> USE DEF EPoll!Nothing, Abstract!Nothing
  <1>1. ASSUME NEW c \in Channels, EPoll!updateChannel(c)
        PROVE  Abstract!updateChannel(c)
    BY <1>1, SameChannel DEF EPoll!updateChannel, Abstract!updateChannel
  <1>2. ASSUME NEW c \in Channels, EPoll!removeChannel(c)
        PROVE  Abstract!removeChannel(c)
    BY <1>2 DEF EPoll!removeChannel, Abstract!removeChannel
  <1>3. ASSUME NEW c \in Channels, EPoll!kernelChanges(c)
        PROVE  Abstract!kernelChanges(c)
    BY <1>3 DEF EPoll!kernelChanges, Abstract!kernelChanges
  <1>4. CASE EPoll!poll
    <2>1. PICK got \in SUBSET {c \in Channels : epoll[c] # EPoll!NotWatched} :
            active' = [c \in Channels |-> IF c \in got THEN EPoll!ReventsOf(c) ELSE {}]
      BY <1>4 DEF EPoll!poll
    <2>2. ASSUME NEW c \in Channels, active'[c] # {}
          PROVE  c \in channels /\ active'[c] = Abstract!Reported(ready[c], events[c])
      <3>1. c \in got /\ active'[c] = EPoll!Reported(ready[c], epoll[c])
        BY <2>1, <2>2 DEF EPoll!ReventsOf
      <3>2. c \in channels /\ epoll[c] = events[c]
        BY <3>1 DEF EPollInv, EPoll!TypeOK, EPoll!IndexMirrorsKernel
      <3>3. QED
        BY <3>1, <3>2, SameChannel
    <2>3. QED
      BY <1>4, <2>2 DEF EPoll!poll, Abstract!Next, Abstract!poll
  <1>5. CASE UNCHANGED EPoll!vars
    BY <1>5 DEF EPoll!vars, Abstract!vars
  <1>6. QED
    BY <1>1, <1>2, <1>3, <1>4, <1>5 DEF EPoll!Next, Abstract!Next

(* A new poller has no channels, and the kernel's list is empty.           *)
LEMMA EPollInitially == EPoll!Init => EPollInv
  BY Watchable DEF EPoll!Init, EPoll!Nothing, EPollInv, EPoll!TypeOK, EPoll!IndexMirrorsKernel

-----------------------------------------------------------------------------
(* The walk over the active channels.                                      *)

(* What a queue binds and destroys after one more functor was pushed.      *)
LEMMA FunctorPushed ==
  ASSUME NEW q \in Seq(Walk!Functors), NEW f \in Walk!Functors
  PROVE  /\ Append(q, f) \in Seq(Walk!Functors)
         /\ Walk!BoundBy(Append(q, f)) = Walk!BoundBy(q) \cup {f.conn}
         /\ Walk!Destroying(Append(q, f)) =
              Walk!Destroying(q) \cup (IF f.run = "connectDestroyed" THEN {f.conn} ELSE {})
         /\ Walk!DestroysOnce(q) /\ (f.run = "connectDestroyed" => f.conn \notin Walk!Destroying(q))
              => Walk!DestroysOnce(Append(q, f))
  <1> DEFINE r == Append(q, f)
  <1>1. r \in Seq(Walk!Functors) /\ Len(r) = Len(q) + 1 /\ Len(q) \in Nat
    BY SMT
  <1>2. DOMAIN q = 1..Len(q) /\ DOMAIN r = 1..(Len(q) + 1)
    BY SMT, <1>1
  <1>3. (\A i \in DOMAIN q : r[i] = q[i]) /\ r[Len(q) + 1] = f
    BY SMT, <1>2
  <1>4. DOMAIN r = DOMAIN q \cup {Len(q) + 1} /\ Len(q) + 1 \notin DOMAIN q
    BY SMT, <1>1, <1>2
  <1> HIDE DEF r
  <1>5. Walk!BoundBy(r) = Walk!BoundBy(q) \cup {f.conn}
    BY <1>3, <1>4 DEF Walk!BoundBy
  <1>6. Walk!Destroying(r) = Walk!Destroying(q) \cup (IF f.run = "connectDestroyed" THEN {f.conn} ELSE {})
    BY <1>3, <1>4 DEF Walk!Destroying
  <1>7. ASSUME Walk!DestroysOnce(q), f.run = "connectDestroyed" => f.conn \notin Walk!Destroying(q)
        PROVE  Walk!DestroysOnce(r)
    BY <1>3, <1>4, <1>7 DEF Walk!DestroysOnce, Walk!Destroying
  <1>8. QED
    BY <1>1, <1>5, <1>6, <1>7 DEF r

(* What a queue binds and destroys, and what is left once its first        *)
(* functor was taken.                                                      *)
LEMMA FunctorTaken ==
  ASSUME NEW q \in Seq(Walk!Functors), q # <<>>
  PROVE  /\ Head(q) \in Walk!Functors /\ Tail(q) \in Seq(Walk!Functors)
         /\ Walk!BoundBy(q) = Walk!BoundBy(Tail(q)) \cup {Head(q).conn}
         /\ Walk!Destroying(q) = Walk!Destroying(Tail(q)) \cup
              (IF Head(q).run = "connectDestroyed" THEN {Head(q).conn} ELSE {})
         /\ Walk!DestroysOnce(q) =>
              /\ Walk!DestroysOnce(Tail(q))
              /\ Head(q).run = "connectDestroyed" => Head(q).conn \notin Walk!Destroying(Tail(q))
  <1> DEFINE t == Tail(q)
  <1>1. Len(q) \in Nat /\ Len(q) > 0 /\ Len(t) = Len(q) - 1 /\ t \in Seq(Walk!Functors)
    BY SMT
  <1>2. Head(q) = q[1] /\ Head(q) \in Walk!Functors
    BY SMT
  <1>3. DOMAIN q = 1..Len(q) /\ DOMAIN t = 1..(Len(q) - 1)
    BY SMT, <1>1
  <1>4. \A i \in DOMAIN t : t[i] = q[i + 1] /\ i + 1 \in DOMAIN q /\ i + 1 # 1
    BY SMT, <1>1, <1>3
  <1>5. \A i \in DOMAIN q : i = 1 \/ (i - 1 \in DOMAIN t /\ t[i - 1] = q[i])
    BY SMT, <1>1, <1>3
  <1>6. 1 \in DOMAIN q /\ \A i, j \in DOMAIN t : i + 1 = j + 1 => i = j
    BY SMT, <1>1, <1>3
  <1> HIDE DEF t
  <1>7. Walk!BoundBy(q) = Walk!BoundBy(t) \cup {q[1].conn}
    BY SMTT(60), <1>4, <1>5, <1>6 DEF Walk!BoundBy
  <1>8. Walk!Destroying(q) = Walk!Destroying(t) \cup (IF q[1].run = "connectDestroyed" THEN {q[1].conn} ELSE {})
    BY SMTT(60), <1>4, <1>5, <1>6 DEF Walk!Destroying
  <1>9. ASSUME Walk!DestroysOnce(q)
        PROVE  Walk!DestroysOnce(t) /\ (q[1].run = "connectDestroyed" => q[1].conn \notin Walk!Destroying(t))
    BY SMTT(60), <1>4, <1>6, <1>9 DEF Walk!DestroysOnce, Walk!Destroying
  <1>10. QED
    BY <1>1, <1>2, <1>7, <1>8, <1>9 DEF t

(* A queue keeps alive what it destroys; an empty one neither binds nor    *)
(* destroys.                                                               *)
LEMMA DestroyingIsBound == \A q : Walk!Destroying(q) \subseteq Walk!BoundBy(q)
  BY DEF Walk!Destroying, Walk!BoundBy

LEMMA EmptyQueue == Walk!Destroying(<<>>) = {} /\ Walk!BoundBy(<<>>) = {} /\ Walk!DestroysOnce(<<>>)
  BY SMT DEF Walk!Destroying, Walk!BoundBy, Walk!DestroysOnce

(* handleClose() of an open connection that is in the map keeps the        *)
(* invariant's facts: the connection leaves the map and the channels that  *)
(* watch, and one connectDestroyed() is queued for it.                     *)
LEMMA CloseKeeps ==
  ASSUME Walk!WalkInv, NEW c \in Conns, Walk!IsOpen(c), Walk!handleClose(c), UNCHANGED registered
  PROVE  /\ state' \in [Conns -> {"kConnected", "kDisconnecting", "kDisconnected"}]
         /\ ~failed'
         /\ connections' = {d \in Conns : Walk!IsOpen(d)'} /\ watched' = connections'
         /\ connections' = connections \ {c} /\ c \in connections
         /\ functors' \in Seq(Walk!Functors)
         /\ Walk!Destroying(functors') = Walk!Destroying(functors) \cup {c}
         /\ Walk!DestroysOnce(functors')
  <1> DEFINE f == [run |-> "connectDestroyed", conn |-> c]
  <1>1. f \in Walk!Functors /\ f.run = "connectDestroyed" /\ f.conn = c
    BY DEF Walk!Functors
  <1>2. functors' = Append(functors, f) /\ functors \in Seq(Walk!Functors)
    BY SMT DEF Walk!handleClose, Walk!Removal, Walk!WalkInv, Walk!TypeOK
  <1>3. c \in connections /\ c \notin Walk!Destroying(functors)
    BY DEF Walk!WalkInv
  <1> HIDE DEF f
  <1>4. /\ functors' \in Seq(Walk!Functors)
        /\ Walk!Destroying(functors') = Walk!Destroying(functors) \cup {c}
        /\ Walk!DestroysOnce(functors')
    BY <1>1, <1>2, <1>3, FunctorPushed DEF Walk!WalkInv
  <1>5. state' = [state EXCEPT ![c] = "kDisconnected"]
    BY DEF Walk!handleClose
  <1>6. state' \in [Conns -> {"kConnected", "kDisconnecting", "kDisconnected"}]
    BY <1>5 DEF Walk!WalkInv, Walk!TypeOK
  <1>7. \A d \in Conns : Walk!IsOpen(d)' <=> Walk!IsOpen(d) /\ d # c
    BY <1>5 DEF Walk!WalkInv, Walk!TypeOK, Walk!IsOpen
  <1>8. ~failed'
    BY <1>3 DEF Walk!handleClose, Walk!WalkInv
  <1>9. QED
    BY <1>3, <1>4, <1>6, <1>7, <1>8 DEF Walk!handleClose, Walk!WalkInv

(* Every step of the loop and of its handlers keeps the invariant.         *)
LEMMA WalkStep ==
  ASSUME Walk!WalkInv, [Walk!Next]_(Walk!vars)
  PROVE  Walk!WalkInv'
  <1> USE DEF Walk!queues, Walk!walk
  <1>1. CASE Walk!poll
    BY <1>1 DEF Walk!poll, Walk!WalkInv, Walk!TypeOK, Walk!IsOpen
  <1>2. CASE Walk!handlerReturns
    BY <1>2 DEF Walk!handlerReturns, Walk!WalkInv, Walk!TypeOK, Walk!IsOpen
  <1>3. CASE Walk!doPendingFunctors
    <2>1. running = <<>> /\ Walk!Destroying(running) = {} /\ Walk!Destroying(functors') = {} /\ running' = functors
      BY <1>3, EmptyQueue DEF Walk!doPendingFunctors, Walk!WalkInv
    <2>2. Walk!DestroysOnce(functors') /\ functors' \in Seq(Walk!Functors)
      BY SMTT(60), <1>3, EmptyQueue DEF Walk!doPendingFunctors
    <2>3. QED
      BY <1>3, <2>1, <2>2 DEF Walk!doPendingFunctors, Walk!WalkInv, Walk!TypeOK, Walk!IsOpen
  <1>4. CASE Walk!runFunctor
    <2> DEFINE c == Head(running).conn
    <2>1. running \in Seq(Walk!Functors) /\ running # <<>>
      BY <1>4 DEF Walk!runFunctor, Walk!WalkInv, Walk!TypeOK
    <2>2. c \in Conns
      BY <2>1, FunctorTaken DEF Walk!Functors
    <2>3. /\ running' \in Seq(Walk!Functors)
          /\ Walk!DestroysOnce(running')
          /\ Head(running).run = "connectDestroyed" =>
               c \notin Walk!Destroying(running') /\ Walk!Destroying(running) = Walk!Destroying(running') \cup {c}
          /\ Head(running).run # "connectDestroyed" => Walk!Destroying(running) = Walk!Destroying(running')
      <3>1. running' = Tail(running) /\ Walk!DestroysOnce(running)
        BY <1>4 DEF Walk!runFunctor, Walk!WalkInv
      <3>2. /\ Tail(running) \in Seq(Walk!Functors) /\ Walk!DestroysOnce(Tail(running))
            /\ Head(running).run = "connectDestroyed" => c \notin Walk!Destroying(Tail(running))
            /\ Walk!Destroying(running) = Walk!Destroying(Tail(running)) \cup
                 (IF Head(running).run = "connectDestroyed" THEN {c} ELSE {})
        BY <2>1, <3>1, FunctorTaken
      <3>3. QED
        BY <3>1, <3>2
    <2>4. phase = "functors" /\ phase' = phase /\ UNCHANGED <<held, Walk!walk>>
      BY <1>4 DEF Walk!runFunctor
    <2>5. unhandled = {} /\ current = {}
      BY <2>4 DEF Walk!WalkInv
    <2> HIDE DEF c
    <2>6. CASE Head(running).run = "forceCloseInLoop" /\ Walk!StillOpen(c) /\ Walk!handleClose(c) /\ UNCHANGED registered
      <3>1. Walk!IsOpen(c)
        BY <2>6 DEF Walk!StillOpen
      <3>2. QED
        BY <2>2, <2>3, <2>4, <2>5, <2>6, <3>1, CloseKeeps DEF Walk!WalkInv, Walk!TypeOK
    <2>7. CASE /\ Head(running).run = "forceCloseInLoop"
               /\ UNCHANGED <<state, watched, connections, functors, failed, registered>>
      BY <2>3, <2>4, <2>5, <2>7 DEF Walk!WalkInv, Walk!TypeOK, Walk!IsOpen
    <2>8. CASE Head(running).run = "connectDestroyed" /\ Walk!connectDestroyed(c)
      <3>1. c \in registered /\ c \notin connections /\ c \notin Walk!Destroying(functors)
        BY <2>3, <2>8 DEF Walk!WalkInv
      <3>2. state[c] = "kDisconnected" /\ c \notin watched
        BY <2>2, <3>1 DEF Walk!WalkInv, Walk!TypeOK, Walk!IsOpen
      <3>3. UNCHANGED <<state, watched, connections, functors>> /\ registered' = registered \ {c}
        BY <2>8, <3>2 DEF Walk!connectDestroyed
      <3>4. ~failed'
        BY <2>4, <2>8, <3>1, <3>2 DEF Walk!connectDestroyed, Walk!RemoveAsserts, Walk!WalkInv
      <3>5. QED
        BY <2>3, <2>4, <2>5, <2>8, <3>1, <3>3, <3>4 DEF Walk!WalkInv, Walk!TypeOK, Walk!IsOpen
    <2>9. QED
      BY <1>4, <2>6, <2>7, <2>8 DEF Walk!runFunctor, Walk!forceCloseInLoop, c
  <1>5. CASE Walk!donePendingFunctors
    BY <1>5 DEF Walk!donePendingFunctors, Walk!WalkInv, Walk!TypeOK, Walk!IsOpen
  <1>6. ASSUME NEW c \in Conns, Walk!handleEvent(c)
        PROVE  Walk!WalkInv'
    <2>1. c \in connections
      BY <1>6 DEF Walk!handleEvent, Walk!WalkInv
    <2>2. ~failed'
      BY <1>6, <2>1 DEF Walk!handleEvent, Walk!WalkInv, Walk!Alive
    <2>3. QED
      BY <1>6, <2>1, <2>2 DEF Walk!handleEvent, Walk!WalkInv, Walk!TypeOK, Walk!IsOpen
  <1>7. ASSUME NEW c \in Conns, Walk!handlerCloses(c)
        PROVE  Walk!WalkInv'
    <2>1. c \in connections /\ Walk!IsOpen(c) /\ c \notin unhandled'
      BY <1>7 DEF Walk!handlerCloses, Walk!WalkInv
    <2>2. QED
      BY <1>7, <2>1, CloseKeeps DEF Walk!handlerCloses, Walk!WalkInv, Walk!TypeOK
  <1>8. ASSUME NEW c \in Conns, Walk!forceClose(c)
        PROVE  Walk!WalkInv'
    <2> DEFINE f == [run |-> "forceCloseInLoop", conn |-> c]
    <2>1. f \in Walk!Functors /\ f.run # "connectDestroyed"
      BY DEF Walk!Functors
    <2>2. /\ functors \in Seq(Walk!Functors) /\ functors' = Append(functors, f)
          /\ state' = [state EXCEPT ![c] = "kDisconnecting"] /\ Walk!IsOpen(c)
          /\ UNCHANGED <<watched, connections, failed, registered, held, Walk!walk, running, phase>>
      BY <1>8 DEF Walk!forceClose, Walk!QueuesClose, Walk!WalkInv, Walk!TypeOK
    <2> HIDE DEF f
    <2>3. /\ functors' \in Seq(Walk!Functors) /\ Walk!DestroysOnce(functors')
          /\ Walk!Destroying(functors') = Walk!Destroying(functors)
      <3>1. Walk!DestroysOnce(functors)
        BY DEF Walk!WalkInv
      <3>2. /\ Append(functors, f) \in Seq(Walk!Functors)
            /\ Walk!Destroying(Append(functors, f)) =
                 Walk!Destroying(functors) \cup (IF f.run = "connectDestroyed" THEN {f.conn} ELSE {})
            /\ Walk!DestroysOnce(functors) /\ (f.run = "connectDestroyed" => f.conn \notin Walk!Destroying(functors))
                 => Walk!DestroysOnce(Append(functors, f))
        BY ONLY SMTT(60), <2>1, <2>2, FunctorPushed
      <3>3. Walk!Destroying(functors) \cup (IF f.run = "connectDestroyed" THEN {f.conn} ELSE {}) = Walk!Destroying(functors)
        BY ONLY <2>1
      <3> QED BY ONLY SMTT(60), <2>1, <2>2, <3>1, <3>2, <3>3
    <2>4. state' \in [Conns -> {"kConnected", "kDisconnecting", "kDisconnected"}]
      BY <2>2 DEF Walk!WalkInv, Walk!TypeOK
    <2>5. \A d \in Conns : Walk!IsOpen(d)' <=> Walk!IsOpen(d)
      BY <2>2 DEF Walk!WalkInv, Walk!TypeOK, Walk!IsOpen
    <2>6. QED
      BY <2>2, <2>3, <2>4, <2>5 DEF Walk!WalkInv, Walk!TypeOK
  <1>9. ASSUME NEW c \in Conns, Walk!keepPointer(c)
        PROVE  Walk!WalkInv'
    BY <1>9 DEF Walk!keepPointer, Walk!WalkInv, Walk!TypeOK, Walk!IsOpen
  <1>10. CASE UNCHANGED Walk!vars
    BY <1>10 DEF Walk!vars, Walk!WalkInv, Walk!TypeOK, Walk!IsOpen
  <1>11. QED
    BY <1>1, <1>2, <1>3, <1>4, <1>5, <1>6, <1>7, <1>8, <1>9, <1>10 DEF Walk!Next

LEMMA WalkInitially == Walk!Init => Walk!WalkInv
  BY SMT, EmptyQueue DEF Walk!Init, Walk!WalkInv, Walk!TypeOK, Walk!IsOpen, Walk!Functors

LEMMA WalkedAlive == Walk!WalkInv => Walk!ActiveChannelsAreAlive
  BY DestroyingIsBound DEF Walk!WalkInv, Walk!ActiveChannelsAreAlive, Walk!Alive

-----------------------------------------------------------------------------
(* The three in one state space.                                           *)

Inv ==
  /\ which = "poll" => PollInv
  /\ which = "epoll" => EPollInv
  /\ which = "walk" => Walk!WalkInv

(* A step is one of the part the behaviour is about, and leaves the others *)
(* alone.                                                                  *)
LEMMA Steps ==
  ASSUME [MCNext]_mcvars
  PROVE  /\ which' = which
         /\ which = "poll" => [Poll!Next]_(Poll!vars)
         /\ which = "epoll" => [EPoll!Next]_(EPoll!vars)
         /\ which = "walk" => [Walk!Next]_(Walk!vars)
         /\ which \notin {"poll", "epoll"} => UNCHANGED Abstract!vars
  <1> USE DEF mcvars, epollVars, walkVars, Abstract!vars
  <1>1. CASE which = "poll" /\ Poll!Next /\ UNCHANGED which
    BY <1>1
  <1>2. CASE which = "epoll" /\ EPoll!Next /\ UNCHANGED which
    BY <1>2
  <1>3. CASE which = "timers" /\ UNCHANGED <<which, epollVars>>
    BY <1>3
  <1>4. CASE which = "walk" /\ Walk!Next /\ UNCHANGED <<which, epollVars>>
    BY <1>4
  <1>5. CASE UNCHANGED mcvars
    BY <1>5 DEF Poll!vars, EPoll!vars, Walk!vars, Walk!walk, Walk!queues
  <1>6. QED
    BY <1>1, <1>2, <1>3, <1>4, <1>5 DEF MCNext

LEMMA InvInitially == MCInit => Inv /\ Abstract!Init
  <1> SUFFICES ASSUME MCInit PROVE Inv /\ Abstract!Init
    OBVIOUS
  <1>1. CASE which = "poll"
    <2>1. Poll!Init
      BY <1>1 DEF MCInit
    <2>2. QED
      BY <1>1, <2>1, PollInitially DEF Inv, Poll!Init, Poll!Nothing, Abstract!Init, Abstract!Nothing
  <1>2. CASE which # "poll"
    <2>1. EPoll!Init /\ Walk!Init
      BY <1>2 DEF MCInit
    <2>2. QED
      BY <1>2, <2>1, EPollInitially, WalkInitially
         DEF Inv, EPoll!Init, EPoll!Nothing, Abstract!Init, Abstract!Nothing
  <1>3. QED
    BY <1>1, <1>2

LEMMA InvStep == Inv /\ [MCNext]_mcvars => Inv'
  BY Steps, PollStep, EPollStep, WalkStep DEF Inv

LEMMA AbstractStep == Inv /\ [MCNext]_mcvars => [Abstract!Next]_(Abstract!vars)
  BY Steps, PollIsPoller, EPollIsPoller DEF Inv

LEMMA Always == MCSpec => []Inv
  BY InvInitially, InvStep, PTL DEF MCSpec

(* For any set of channels, in any order of updates, removals and polls:   *)
(* with poll(2), each index_ points at the channel's own entry of          *)
(* pollfds_, whatever removal moved it there, and no assertion of          *)
(* updateChannel() or removeChannel() fails; with epoll(4), index_ says    *)
(* whether the kernel watches the channel, and for what, so that no        *)
(* epoll_ctl() of update() fails.                                          *)
THEOREM IndexesAreRight == MCSpec => []IndexesMirror
  <1>1. Inv => IndexesMirror
    BY PollMirrors DEF Inv, IndexesMirror, EPollInv
  <1>2. QED
    BY <1>1, Always, PTL

(* For any set of channels both pollers implement Poller: an event reaches *)
(* the channel of its own descriptor, and only a registered one that asked *)
(* for it.                                                                 *)
THEOREM PollersArePollers == MCSpec => ImplementsPoller
  BY InvInitially, Always, AbstractStep, PTL DEF MCSpec, ImplementsPoller, Abstract!Spec

(* For any number of connections on a loop, and any queue of functors: no  *)
(* handler of EventLoop::loop() runs on a destroyed connection, no         *)
(* assertion on the way of a close fails, and what nobody keeps is off the *)
(* poller.                                                                 *)
THEOREM WalkIsSafe == MCSpec => []ActiveChannelsAreAlive
  <1>1. Inv => ActiveChannelsAreAlive
    BY WalkedAlive DEF Inv, ActiveChannelsAreAlive
  <1>2. QED
    BY <1>1, Always, PTL
=============================================================================
