SPECIFICATION Spec
CONSTANTS
  conA = conA
  conB = conB
  conC = conC
  conD = conD
  evil = evil
  good = good
  NoConn = NoConn
  NoHost = NoHost
  BlockedHosts = {evil}
  ClosedDelay = 1
  WaitIdle = 2
  BlockIdle = 2
  SweepInterval = 1
  Conns <- OneConn
  Keys <- OneKey
  KeyOf <- OneKeyOf
  Arrivals <- OneArrivals
  HelloLen <- OneHelloLen
  OpenSegs <- OneOpenSegs
  HostOf <- OneHostOf
  MaxSeg = 3
  MaxFlowsArg = 0
  MaxBlockedArg = 0
  MaxHeld = 3
  MaxStream = 2
  MaxPkts = 4
INVARIANTS
  TypeOK
  DecidedOnce
  BuffersBounded
  NoDanglingView
  FlowOrderKept
  BlockedHelloStopped
PROPERTIES
  LedgerKept
