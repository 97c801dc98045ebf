SPECIFICATION Spec
CONSTANTS
  conA = conA
  conB = conB
  conC = conC
  conD = conD
  evil = evil
  good = good
  NoConn = NoConn
  NoHost = NoHost
  BlockedHosts = {evil}
  ClosedDelay = 1
  WaitIdle = 2
  BlockIdle = 2
  SweepInterval = 1
  Conns <- TwoConns
  Keys <- OneKey
  KeyOf <- SharedKeyOf
  Arrivals <- TwoArrivals
  HelloLen <- TwoHelloLen
  OpenSegs <- TwoOpenSegs
  HostOf <- TwoHostOf
  MaxSeg = 2
  MaxFlowsArg = 1
  MaxBlockedArg = 1
  MaxHeld = 2
  MaxStream = 2
  MaxPkts = 4
INVARIANTS
  FlowOrderKept
PROPERTIES
  LedgerKept
