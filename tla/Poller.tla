------------------------------- MODULE Poller -------------------------------
(***************************************************************************)
(* What a Poller promises the EventLoop (muduo/net/Poller.h), whichever    *)
(* system call is behind it: it knows which channels are registered, and   *)
(* poll() reports events of registered channels only, to each channel the  *)
(* events of its own descriptor, and only events it asked for (or errors   *)
(* and hang-ups).                                                          *)
(***************************************************************************)
EXTENDS Channel

CONSTANTS Channels,
          Readiness     \* what the kernel may hold for a descriptor

VARIABLES registered,   \* the channels hasChannel() answers true for
          events,       \* what each channel asked for
          ready,        \* what the kernel has for each channel's descriptor
          active        \* after a poll(): the revents of each channel

vars == <<registered, events, ready, active>>

Nothing == [c \in Channels |-> {}]

Init ==
  /\ registered = {}
  /\ events = Nothing
  /\ ready = Nothing
  /\ active = Nothing

updateChannel(c) ==
  /\ events' \in {[events EXCEPT ![c] = ev] : ev \in UpdatesOf(events[c])}
  /\ registered' = registered \cup {c}
  /\ active' = Nothing
  /\ UNCHANGED ready

removeChannel(c) ==
  /\ c \in registered
  /\ events[c] = {}
  /\ registered' = registered \ {c}
  /\ active' = Nothing
  /\ UNCHANGED <<events, ready>>

(* Not every ready channel need be reported at once. *)
poll ==
  /\ \A c \in Channels :
       active'[c] # {} =>
         /\ c \in registered
         /\ active'[c] = Reported(ready[c], events[c])
  /\ UNCHANGED <<registered, events, ready>>

(* Data, buffer space, errors and hang-ups come and go. *)
kernelChanges(c) ==
  /\ ready' \in {[ready EXCEPT ![c] = r] : r \in Readiness}
  /\ active' = Nothing
  /\ UNCHANGED <<registered, events>>

Next ==
  \/ \E c \in Channels : updateChannel(c) \/ removeChannel(c) \/ kernelChanges(c)
  \/ poll

Spec == Init /\ [][Next]_vars
=============================================================================
