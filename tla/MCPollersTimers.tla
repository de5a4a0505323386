--------------------------- MODULE MCPollersTimers ---------------------------
(***************************************************************************)
(* Instances for TLC of what an iteration of a loop rests on: the queue of *)
(* timers, the two pollers, and the walk over the active channels, in one  *)
(* state space.  A behaviour is a behaviour of one of them, `which'; the   *)
(* variables of the others keep their first values.                        *)
(***************************************************************************)
EXTENDS TimerQueue

CONSTANTS Channels, Readiness, kInitEventListSize, Conns, MaxQueued

(* A channel is its descriptor. *)
ASSUME Descriptors == Channels \subseteq Nat

VARIABLES which,
          events, index, added, channels, ready, active,    \* both pollers
          pollfds, bare,                                    \* the poll one
          epoll, ctlFailed, listSize,                       \* the epoll one
          state, watched, registered, connections, held, activeChannels, unhandled, current,
          functors, running, phase, failed

(* A descriptor has nothing, or everything at once. *)
AllOrNothing == {{}, {"in", "out", "hup"}}

Poll == INSTANCE PollPoller
EPoll == INSTANCE EPollPoller
Abstract == INSTANCE Poller WITH registered <- channels
Walk == INSTANCE Dispatch WITH pending <- functors, batch <- running

epollVars == <<events, index, added, channels, ready, active, epoll, ctlFailed, listSize>>
walkVars == <<state, watched, registered, connections, held, activeChannels, unhandled, current,
              functors, running, phase, failed>>
mcvars == <<which, pollfds, bare, epollVars, vars, walkVars>>

MCInit ==
  /\ which \in {"poll", "epoll", "timers", "walk"}
  /\ IF which = "poll"
     THEN Poll!Init /\ epoll = [c \in Channels |-> EPoll!NotWatched] /\ ctlFailed = FALSE /\ listSize = 0
     ELSE EPoll!Init /\ pollfds = <<>> /\ bare = {}
  /\ Init
  /\ Walk!Init /\ (which # "walk" => held = {})

MCNext ==
  \/ which = "poll" /\ Poll!Next /\ UNCHANGED <<which, epoll, ctlFailed, listSize, vars, walkVars>>
  \/ which = "epoll" /\ EPoll!Next /\ UNCHANGED <<which, pollfds, bare, vars, walkVars>>
  \/ which = "timers" /\ Next /\ UNCHANGED <<which, pollfds, bare, epollVars, walkVars>>
  \/ which = "walk" /\ Walk!Next /\ UNCHANGED <<which, pollfds, bare, epollVars, vars>>
  \/ which = "timers" /\ UNCHANGED mcvars   \* when the bounds are reached

(* The loop polls again and again; callbacks return, the timerfd is        *)
(* handled in every iteration in which it is readable, and time passes.    *)
MCFairness ==
  /\ WF_epollVars(which = "epoll" /\ EPoll!poll)
  /\ WF_vars(which = "timers" /\ TimerHandler)
  /\ WF_vars(which = "timers" /\ Tick)

MCSpec == MCInit /\ [][MCNext]_mcvars /\ MCFairness

-----------------------------------------------------------------------------
\* What a poller knows of its channels is right: each index_ of the poll one points at the
\* channel's own entry after any swap-removal; that of the epoll one mirrors the kernel's
\* list, so that epoll_ctl() never fails (PollPoller.cc:156, EPollPoller.cc:117).  The
\* assertions of the poll one hold but for the one at PollPoller.cc:140, which fails exactly
\* when a channel is removed whose only update was a disable (Acceptor.cc:49).
IndexesMirror ==
  /\ which = "poll" => Poll!TypeOK /\ Poll!IndexesPointHome
  /\ which = "epoll" => EPoll!TypeOK /\ EPoll!IndexMirrorsKernel

\* Both pollers implement the abstract one: an event reaches its own channel, and only one
\* that asked for it (Poller.h).
ImplementsPoller == Abstract!Spec

\* With an event list that is too short all ready channels are reported in the end, in one
\* call: the list grows (EPollPoller.cc:72).
ReportsAll == EPoll!ReportsAll

\* Whatever the handlers of one iteration do to connections that come later in its list of
\* active channels, no handler runs on a destroyed one and no assertion fails
\* (EventLoop.cc:290).
ActiveChannelsAreAlive == which = "walk" => Walk!WalkInv /\ Walk!ActiveChannelsAreAlive

\* The timerfd is armed for the first timer whenever no callback runs, so that a timer in
\* the queue runs unless it is cancelled (TimerQueue.cc:254); with it what makes
\* TimersAreSound inductive.
TimersRun ==
  [](TypeOK /\ QueueInv /\ AlarmSet) /\ TimerRunsOrIsCancelled
=============================================================================
