SPECIFICATION Spec
CONSTANTS
  conA = conA
  conB = conB
  conC = conC
  conD = conD
  evil = evil
  good = good
  NoConn = NoConn
  NoHost = NoHost
  BlockedHosts = {evil}
  ClosedDelay = 1
  WaitIdle = 2
  BlockIdle = 2
  SweepInterval = 1
  Conns <- TwoConns
  Keys = {0, 1}
  KeyOf <- ZeroKeyOf
  Arrivals <- ZeroArrivals
  HelloLen <- ZeroHelloLen
  OpenSegs <- TwoOpenSegs
  HostOf <- ZeroHostOf
  MaxSeg = 1
  MaxFlowsArg = 4
  MaxBlockedArg = 1
  MaxHeld = 2
  MaxStream = 2
  MaxPkts = 3
INVARIANTS
  TableBounded
