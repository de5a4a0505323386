SPECIFICATION Spec
CONSTANTS
  None = None
  Calls = {1, 2, 3}
  ChannelOf <- MCChannelOf
  Channels = {1, 2}
  Servers = {1, 2}
  Faulty = {2}
  BalancerKinds = {"parsed", "raw"}
  MaxDrops = 1
  EchoKinds = {"wheel", "list", "max"}
  Conns = {1, 2}
  idleSeconds = 2
  kMaxConnections = 1
  MaxTime = 8
  Jumps <- MCJumps
  MaxJumps = 1
INVARIANTS
  CallsAnsweredOnce
  RelayedApart
  ViewsAgree
  RequestsAnsweredRight
PROPERTY
  IdleExactly
CHECK_DEADLOCK FALSE
