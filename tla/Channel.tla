------------------------------- MODULE Channel -------------------------------
(***************************************************************************)
(* muduo::net::Channel (muduo/net/Channel.h, Channel.cc): the set of       *)
(* events a descriptor is watched for, and the dispatch of the events that *)
(* happened to the callbacks.  Everything here is a function of a          *)
(* channel's state; the modules that use channels hold that state.         *)
(***************************************************************************)
EXTENDS Sequences

(* The bits of poll(2): POLLIN, POLLPRI and POLLOUT. *)
kReadEvent == {"in", "pri"}
kWriteEvent == {"out"}

(* The values of events_. *)
Interests == {{}, kReadEvent, kWriteEvent, kReadEvent \cup kWriteEvent}

enableReading(events) == events \cup kReadEvent
disableReading(events) == events \ kReadEvent
enableWriting(events) == events \cup kWriteEvent
disableWriting(events) == events \ kWriteEvent
disableAll(events) == {}

isReading(events) == events \cap kReadEvent # {}
isWriting(events) == events \cap kWriteEvent # {}

(* What one call may make of events_; each of them calls update(). *)
UpdatesOf(events) ==
  {enableReading(events), disableReading(events),
   enableWriting(events), disableWriting(events), disableAll(events)}

(* What the kernel reports of ready for a descriptor watched for events:   *)
(* those, and errors and hang-ups always.                                  *)
Reported(ready, events) == ready \cap (events \cup {"err", "hup"})

(* handleEventWithGuard(): the callbacks that revents_ leads to, in order. *)
Callbacks(revents) ==
  (IF "hup" \in revents /\ "in" \notin revents THEN <<"close">> ELSE <<>>)
  \o (IF "err" \in revents THEN <<"error">> ELSE <<>>)
  \o (IF revents \cap kReadEvent # {} THEN <<"read">> ELSE <<>>)
  \o (IF "out" \in revents THEN <<"write">> ELSE <<>>)
=============================================================================
