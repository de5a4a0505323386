---------------------------- MODULE EPollPoller -----------------------------
(***************************************************************************)
(* muduo::net::EPollPoller (muduo/net/poller/EPollPoller.cc).  The kernel  *)
(* holds the interest list; index_ of a channel says whether the channel   *)
(* is unknown (kNew), in the kernel's list (kAdded), or known to channels_ *)
(* but taken off the kernel's list because it had no interest (kDeleted).  *)
(*                                                                         *)
(* A channel is identified with its descriptor.                            *)
(***************************************************************************)
EXTENDS Integers, FiniteSets, Channel

CONSTANTS Channels,            \* the channels of the loop
          Readiness,           \* what the kernel may hold for a descriptor
          kInitEventListSize   \* initial size of events_

VARIABLES events,      \* events_ of each Channel
          index,       \* index_ of each Channel
          added,       \* addedToLoop_ of each Channel
          channels,    \* keys of channels_
          epoll,       \* the kernel's list: descriptor -> events watched
          ctlFailed,   \* an epoll_ctl() has failed
          listSize,    \* events_.size() of the poller
          ready,       \* what the kernel has for each descriptor
          active       \* after a poll(): revents_ of the channels it reported

vars == <<events, index, added, channels, epoll, ctlFailed, listSize, ready,
          active>>

Nothing == [c \in Channels |-> {}]
NotWatched == {"not watched"}

Init ==
  /\ events = Nothing
  /\ index = [c \in Channels |-> "kNew"]
  /\ added = [c \in Channels |-> FALSE]
  /\ channels = {}
  /\ epoll = [c \in Channels |-> NotWatched]
  /\ ctlFailed = FALSE
  /\ listSize = kInitEventListSize
  /\ ready = Nothing
  /\ active = Nothing

-----------------------------------------------------------------------------
(* epoll_ctl(2): ADD of a watched descriptor fails with EEXIST, MOD and    *)
(* DEL of one not watched with ENOENT.                                     *)
epoll_ctl(op, c, ev) ==
  LET watched == epoll[c] # NotWatched
      fails == (op = "ADD") <=> watched
  IN  /\ ctlFailed' = (ctlFailed \/ fails)
      /\ epoll' = IF fails THEN epoll
                  ELSE [epoll EXCEPT ![c] = IF op = "DEL" THEN NotWatched
                                            ELSE ev]

(* The operation updateChannel() chooses, and the index_ it leaves. *)
CtlOp_AddsOnlyNew(c, ev) ==
  IF index[c] = "kNew" THEN "ADD" ELSE IF ev = {} THEN "DEL" ELSE "MOD"
CtlOp(c, ev) ==
  IF index[c] \in {"kNew", "kDeleted"} THEN "ADD"
  ELSE IF ev = {} THEN "DEL" ELSE "MOD"

IndexAfter(op) == IF op = "DEL" THEN "kDeleted" ELSE "kAdded"

updateChannel(c) ==
  \E ev \in UpdatesOf(events[c]) :
    /\ events' = [events EXCEPT ![c] = ev]
    /\ added' = [added EXCEPT ![c] = TRUE]
    /\ channels' = channels \cup {c}
    /\ epoll_ctl(CtlOp(c, ev), c, ev)
    /\ index' = [index EXCEPT ![c] = IndexAfter(CtlOp(c, ev))]
    /\ active' = Nothing
    /\ UNCHANGED <<listSize, ready>>

(* removeChannel() of a registered channel without events. *)
Unwatches(c) == index[c] = "kAdded"

AddedAfterRemove_Kept == TRUE
AddedAfterRemove == FALSE

removeChannel(c) ==
  /\ c \in channels
  /\ events[c] = {}
  /\ added' = [added EXCEPT ![c] = AddedAfterRemove]
  /\ channels' = channels \ {c}
  /\ IF Unwatches(c) THEN epoll_ctl("DEL", c, {})
     ELSE UNCHANGED <<epoll, ctlFailed>>
  /\ index' = [index EXCEPT ![c] = "kNew"]
  /\ active' = Nothing
  /\ UNCHANGED <<events, listSize, ready>>

(* fillActiveChannels() gives each channel what its own event says. *)
ReventsOf_AllReady(c) == ready[c]
ReventsOf(c) == Reported(ready[c], epoll[c])

(* epoll_wait() reports at most events_.size() of the ready descriptors;   *)
(* when the list was full it is doubled for the next call.                 *)
Grows_Never(n) == FALSE
Grows(n) == n = listSize

poll ==
  LET can == {c \in Channels : /\ epoll[c] # NotWatched
                               /\ Reported(ready[c], epoll[c]) # {}}
      most == IF Cardinality(can) < listSize THEN Cardinality(can) ELSE listSize
  IN  \E got \in SUBSET can :
        /\ Cardinality(got) = most
        /\ active' = [c \in Channels |-> IF c \in got THEN ReventsOf(c) ELSE {}]
        /\ listSize' = IF Grows(most) THEN 2 * listSize ELSE listSize
        /\ UNCHANGED <<events, index, added, channels, epoll, ctlFailed, ready>>

kernelChanges(c) ==
  /\ ready' \in {[ready EXCEPT ![c] = r] : r \in Readiness}
  /\ active' = Nothing
  /\ UNCHANGED <<events, index, added, channels, epoll, ctlFailed, listSize>>

Next ==
  \/ \E c \in Channels : updateChannel(c) \/ removeChannel(c) \/ kernelChanges(c)
  \/ poll

Spec == Init /\ [][Next]_vars

-----------------------------------------------------------------------------
(* Properties                                                              *)

TypeOK ==
  /\ events \in [Channels -> Interests]
  /\ index \in [Channels -> {"kNew", "kAdded", "kDeleted"}]
  /\ added \in [Channels -> BOOLEAN] /\ \A c \in Channels : added[c] <=> c \in channels
  /\ channels \subseteq Channels
  /\ epoll \in [Channels -> Interests \cup {NotWatched}]

(* index_ mirrors the kernel: no epoll_ctl() ever fails, so update() never *)
(* reaches LOG_SYSFATAL, a channel that is registered with interest is     *)
(* watched for exactly that interest, and one that was removed is not      *)
(* watched, so epoll_wait() never returns the pointer of a removed channel *)
(* (the assertions of fillActiveChannels()).                               *)
IndexMirrorsKernel ==
  /\ ~ctlFailed
  /\ \A c \in Channels :
       /\ index[c] = "kAdded" <=> epoll[c] # NotWatched
       /\ index[c] = "kNew" <=> c \notin channels
       /\ index[c] = "kAdded" => epoll[c] = events[c]
       /\ events[c] # {} => index[c] = "kAdded"

(* The epoll poller implements the same abstract poller as the poll one.   *)
Abstract == INSTANCE Poller WITH registered <- channels
ImplementsPoller == Abstract!Spec

(* Once all descriptors stay ready and watched, repeated poll() reports    *)
(* them all in one call: the list does not stay too short.                 *)
AllReady == \A c \in Channels : epoll[c] # NotWatched /\ Reported(ready[c], epoll[c]) # {}
ReportsAll == [](<>[]AllReady => <>(\A c \in Channels : active[c] # {}))

FairSpec == Spec /\ WF_vars(poll)
=============================================================================
