SPECIFICATION PSpec
CONSTANTS
  NotANumber = NotANumber
  Argvs <- MCArgvs
  MaxOf <- MCMaxOf
  DefaultOf <- MCDefaultOf
  QueueSpace = 4
  UllSpace = 32
  BufferFloor = 2
  MaxWorkers = 2
  MaxSignals = 2
INVARIANTS
  PTypeOK
  ExitClean
  StopFdOutlives
  NoGapUnlessStopped
  ExitCodeTruthful
  StatsReadsLiveWorkers
  ConfigFits
PROPERTIES
  ShutdownCompletes
  QueueServed
