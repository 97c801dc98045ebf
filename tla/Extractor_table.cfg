SPECIFICATION Spec
CONSTANTS
  conA = conA
  conB = conB
  conC = conC
  conD = conD
  evil = evil
  good = good
  NoConn = NoConn
  NoHost = NoHost
  BlockedHosts = {evil}
  ClosedDelay = 1
  WaitIdle = 1
  BlockIdle = 2
  SweepInterval = 1
  Conns <- FourConns
  Keys <- FourKeys
  KeyOf <- Numbered
  Arrivals <- FourArrivals
  HelloLen <- FourHelloLen
  OpenSegs <- FourOpenSegs
  HostOf <- FourHostOf
  MaxSeg = 1
  MaxFlowsArg = 3
  MaxBlockedArg = 2
  MaxHeld = 1
  MaxStream = 1
  MaxPkts = 4
INVARIANTS
  TableBounded
  RingCovers
  OnlyBlockedHostsDropped
  NoReassemblerLeak
  GaugeFresh
