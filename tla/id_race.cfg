CONSTANTS
  NrModule = 3
  Fibers = {f1, f2, f3, f4}
  NoFiber = NoFiber
  SeqNames <- Names
  Categories = {"news"}
  Script <- TwoPublishersScript
  Clients = {c1}
  ExtCalls <- TwoPublishersRequests
  MaxExt = 2
  MayTeardown = FALSE
  ClientIdMod = 256
SPECIFICATION Spec
SYMMETRY FiberSymmetry
INVARIANTS UniqueClientIds
