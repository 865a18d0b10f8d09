CONSTANTS
  Requests <- SomeRequests
  BlockLengths = {0, 1, 2, 3}
  BlockMax = 2
  MaxUsage = 2
  DeviceFaults <- EveryDeviceFault
  MaxCount = 4
  Transfers = 4
  DmaFaults = {"map", "prep", "submit"}
  clk_div <- imx_i2c_clk_div
  Rates = {2000000, 24000000, 66000000}
  Bitrates = {10000, 103000, 400000}
  UWord = 2147483647
SPECIFICATION OneSpec
\* Once a resume has failed the adapter is of no use any more.
CHECK_DEADLOCK FALSE
INVARIANTS
  AnswerIsTrue
  StaleHasCause
  ReadBytesAcked
  ClockRuns
  TransferIsServed
  UnboundIsReleased
  BufferIsReturned
  BusIsNotTooFast
  DelayIsAPeriod
PROPERTIES
  TransferEnds
