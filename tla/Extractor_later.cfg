SPECIFICATION Spec
CONSTANTS
  conA = conA
  conB = conB
  conC = conC
  conD = conD
  evil = evil
  good = good
  NoConn = NoConn
  NoHost = NoHost
  BlockedHosts = {evil}
  ClosedDelay = 1
  WaitIdle = 2
  BlockIdle = 2
  SweepInterval = 1
  Conns <- OneConn
  Keys <- OneKey
  KeyOf <- OneKeyOf
  Arrivals <- LaterArrivals
  HelloLen <- LaterHelloLen
  OpenSegs <- LaterOpenSegs
  HostOf <- LaterHostOf
  MaxSeg = 2
  MaxFlowsArg = 0
  MaxBlockedArg = 0
  MaxHeld = 3
  MaxStream = 2
  MaxPkts = 3
INVARIANTS
  AllowedFlowNotHeld
