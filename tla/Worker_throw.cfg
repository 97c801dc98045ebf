SPECIFICATION ThrowSpec
CONSTANTS
  conA = conA
  conB = conB
  evil = evil
  good = good
  NoConn = NoConn
  NoHost = NoHost
  BlockedHosts = {evil}
  ClosedDelay = 1
  WaitIdle = 2
  BlockIdle = 2
  SweepInterval = 1
  Conns <- MCConns
  Keys = {1, 2}
  KeyOf <- MCKeyOf
  Arrivals <- MCArrivals
  HelloLen <- MCHelloLen
  OpenSegs <- MCOpenSegs
  HostOf <- MCHostOf
  MaxSeg = 2
  MaxFlowsArg = 2
  MaxBlockedArg = 1
  MaxHeld = 2
  MaxStream = 2
  MaxPkts = 2
  MaxBatch = 2
INVARIANTS
  NoPacketStranded
