CONSTANTS
  NrModule = 3
  Fibers = {1, 2, 3, 4, 5, 6}
  NoFiber = NoFiber
  SeqNames <- AllNames
  Categories = {"CAT"}
  Script <- Programs
  Clients = {main}
  MainThread = main
  ExtCalls <- AllRequests
  MaxExt = 22
  MayTeardown = TRUE
  ClientIdMod = 256
SPECIFICATION TestSpec
INVARIANTS ChecksHold AssertsHold
PROPERTIES ResultsHold MainReturns
CHECK_DEADLOCK FALSE
