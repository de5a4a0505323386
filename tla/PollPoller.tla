----------------------------- MODULE PollPoller -----------------------------
(***************************************************************************)
(* muduo::net::PollPoller (muduo/net/poller/PollPoller.cc): the channels   *)
(* of a loop in an array of pollfd.  A channel keeps its position in the   *)
(* array in index_; a channel without interest stays in the array with its *)
(* descriptor complemented; removal moves the last entry into the gap.     *)
(*                                                                         *)
(* A channel is identified with its descriptor; a removed channel may be   *)
(* followed by a new Channel object for the same descriptor.               *)
(***************************************************************************)
EXTENDS Integers, Channel

CONSTANTS Channels,        \* descriptors: a set of natural numbers
          Readiness        \* what the kernel may hold for a descriptor

VARIABLES events,      \* events_ of each Channel
          index,       \* index_ of each Channel
          added,       \* addedToLoop_ of each Channel
          channels,    \* keys of channels_
          pollfds,     \* pollfds_
          bare,        \* channels whose one update so far asked for nothing
          ready,       \* what the kernel has for each descriptor
          active       \* after a poll(): revents_ of the channels it reported

vars == <<events, index, added, channels, pollfds, bare, ready, active>>

Nothing == [c \in Channels |-> {}]

Init ==
  /\ events = Nothing
  /\ index = [c \in Channels |-> -1]
  /\ added = [c \in Channels |-> FALSE]
  /\ channels = {}
  /\ pollfds = <<>>
  /\ bare = {}
  /\ ready = Nothing
  /\ active = Nothing

Complement_Negated(fd) == -fd
Complement(fd) == -fd - 1

-----------------------------------------------------------------------------
(* The entry updateChannel() pushes for a new channel, whatever its        *)
(* events, and the one it writes for an existing channel: there a channel  *)
(* without events is hidden from poll(2).                                  *)
NewEntry(c, ev) == [fd |-> c, events |-> ev]
UpdatedEntry(c, ev) == [fd |-> IF ev = {} THEN Complement(c) ELSE c, events |-> ev]

(* The assertions of updateChannel() and removeChannel().                  *)
UpdateAsserts(c) ==
  IF index[c] < 0 THEN c \notin channels
  ELSE /\ c \in channels
       /\ index[c] < Len(pollfds)
       /\ pollfds[index[c] + 1].fd \in {c, Complement(c)}

RemoveAsserts(c) ==
  /\ c \in channels
  /\ 0 <= index[c] /\ index[c] < Len(pollfds)
  /\ pollfds[index[c] + 1] = [fd |-> Complement(c), events |-> {}]

(* Callers update a channel that is registered or new.  The first update   *)
(* is an enable but for the ~Acceptor() of a server that never listened.   *)
MayUpdate(c) == c \in channels \/ index[c] < 0

updateChannel(c) ==
  \E ev \in UpdatesOf(events[c]) :
    /\ MayUpdate(c)
    /\ events' = [events EXCEPT ![c] = ev]
    /\ added' = [added EXCEPT ![c] = TRUE]
    /\ IF index[c] < 0
       THEN /\ pollfds' = Append(pollfds, NewEntry(c, ev))
            /\ index' = [index EXCEPT ![c] = Len(pollfds)]
            /\ channels' = channels \cup {c}
            /\ bare' = IF ev = {} THEN bare \cup {c} ELSE bare
       ELSE /\ pollfds' = [pollfds EXCEPT ![index[c] + 1] = UpdatedEntry(c, ev)]
            /\ bare' = bare \ {c}
            /\ UNCHANGED <<index, channels>>
    /\ active' = Nothing
    /\ UNCHANGED ready

(* Channel::remove() is called on a registered channel without events. *)
MayRemove(c) == c \in channels /\ events[c] = {}

(* The channel whose entry is last, decoded if it is hidden. *)
ChannelAtEnd_Raw == pollfds[Len(pollfds)].fd
ChannelAtEnd == LET fd == pollfds[Len(pollfds)].fd
                IN  IF fd < 0 THEN Complement(fd) ELSE fd

removeChannel(c) ==
  LET last == Len(pollfds)
  IN  /\ MayRemove(c)
      /\ added' = [added EXCEPT ![c] = FALSE]
      /\ channels' = channels \ {c}
      /\ pollfds' = SubSeq([pollfds EXCEPT ![index[c] + 1] = pollfds[last]],
                           1, last - 1)
      /\ index' = IF index[c] = last - 1 THEN index
                  ELSE [d \in Channels |-> IF d = ChannelAtEnd THEN index[c]
                                           ELSE index[d]]
      /\ bare' = bare \ {c}
      /\ active' = Nothing
      /\ UNCHANGED <<events, ready>>

(* The removed Channel is destroyed and another is made for the descriptor. *)
newChannel(c) ==
  /\ c \notin channels
  /\ index[c] >= 0
  /\ index' = [index EXCEPT ![c] = -1]
  /\ active' = Nothing
  /\ UNCHANGED <<events, added, channels, pollfds, bare, ready>>

(* fillActiveChannels() looks the channel of entry i up by descriptor. *)
ChannelOf_Next(i) == pollfds[(i % Len(pollfds)) + 1].fd
ChannelOf(i) == pollfds[i].fd

(* poll(2) fills revents of the entries whose descriptor is not negative. *)
poll ==
  LET revents(i) == Reported(ready[pollfds[i].fd], pollfds[i].events)
      shown == {i \in DOMAIN pollfds : pollfds[i].fd >= 0}
  IN  /\ active' = [c \in Channels |->
                      UNION {revents(i) : i \in {j \in shown : ChannelOf(j) = c}}]
      /\ UNCHANGED <<events, index, added, channels, pollfds, bare, ready>>

kernelChanges(c) ==
  /\ ready' \in {[ready EXCEPT ![c] = r] : r \in Readiness}
  /\ active' = Nothing
  /\ UNCHANGED <<events, index, added, channels, pollfds, bare>>

Next ==
  \/ \E c \in Channels : \/ updateChannel(c) \/ removeChannel(c)
                         \/ newChannel(c) \/ kernelChanges(c)
  \/ poll

Spec == Init /\ [][Next]_vars

-----------------------------------------------------------------------------
(* Properties                                                              *)

TypeOK ==
  /\ events \in [Channels -> Interests]
  /\ index \in [Channels -> Int] /\ \A c \in Channels : index[c] >= -1
  /\ \A i \in DOMAIN pollfds :
       pollfds[i] \in [fd : Channels \cup {-c - 1 : c \in Channels},
                       events : Interests]
  /\ added \in [Channels -> BOOLEAN]
  /\ channels \subseteq Channels

(* Every registered channel's index_ points at its own entry, which holds  *)
(* its events, and the array holds nothing else: the swap in               *)
(* removeChannel() keeps the indices of all other channels right.  The     *)
(* assertions of updateChannel() hold whenever a caller may make the call, *)
(* and so do those of removeChannel(), except for one kind of channel: the *)
(* entry of one whose only update was a disable is not complemented        *)
(* (PollPoller.cc:98), and PollPoller.cc:140 asserts it is.  ~Acceptor() of  *)
(* a server that never listened makes these two calls (Acceptor.cc:49).    *)
IndexesPointHome ==
  /\ Len(pollfds) = 0 => channels = {}
  /\ \A c \in channels :
       /\ index[c] + 1 \in DOMAIN pollfds
       /\ pollfds[index[c] + 1].fd \in {c, Complement(c)}
       /\ pollfds[index[c] + 1].events = events[c]
  /\ \A i \in DOMAIN pollfds : \E c \in channels : index[c] = i - 1
  /\ \A c \in Channels :
    /\ added[c] <=> c \in channels
    /\ MayUpdate(c) => UpdateAsserts(c)
    /\ MayRemove(c) => (RemoveAsserts(c) <=> c \notin bare)

(* The array implements the abstract poller: every update, removal and     *)
(* poll() is one of its steps.                                             *)
Abstract == INSTANCE Poller WITH registered <- channels
ImplementsPoller == Abstract!Spec
=============================================================================
