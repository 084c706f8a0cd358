CONSTANTS
  NrModule = 2
  Fibers = {f1, f2, f3, f4}
  NoFiber = NoFiber
  SeqNames <- Names
  Categories = {"news"}
  Script <- NotifyScript
  Clients = {c1}
  ExtCalls <- NotifyRequests
  MaxExt = 3
  MayTeardown = FALSE
  ClientIdMod = 3
SPECIFICATION Spec
SYMMETRY FiberSymmetry
INVARIANTS NotifyStopsAfterUnregister SentinelNeverGiven
