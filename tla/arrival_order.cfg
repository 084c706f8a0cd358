CONSTANTS
  NrModule = 2
  Fibers = {f1, f2, f3, f4}
  NoFiber = NoFiber
  SeqNames <- Names
  Categories = {"news"}
  Script <- OrderScript
  Clients = {c1}
  ExtCalls <- OrderRequests
  MaxExt = 2
  MayTeardown = FALSE
  ClientIdMod = 4
SPECIFICATION FairSpec
PROPERTIES CollectsInArrivalOrder
