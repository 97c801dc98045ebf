SPECIFICATION ISpec
CONSTANTS
  KeyMod = 1024
  RandomLen = 2
  MaxRecord = 52
  MaxMsg = 60
  MaxStreamBytes = 50
  Lines <- MCLines
  Junk <- MCJunk
  SegLens <- MCSegLens
  Cases <- MCCases
INVARIANTS
  VerdictOfHello
  WaitsForWholeHello
  AnswerFinal
  OnlyReadsItsBytes
  PayloadFound
  OneKeyPerConnection
  LookupCorrect
