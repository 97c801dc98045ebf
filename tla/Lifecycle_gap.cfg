SPECIFICATION PSpec
CONSTANTS
  NotANumber = NotANumber
  Argvs <- MCArgvs
  MaxOf <- MCMaxOf
  DefaultOf <- MCDefaultOf
  QueueSpace = 4
  UllSpace = 32
  BufferFloor = 2
  MaxWorkers = 2
  MaxSignals = 2
PROPERTY
  EveryQueueHasListener
