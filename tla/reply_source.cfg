CONSTANTS
  NrModule = 2
  Fibers = {f1, f2}
  NoFiber = NoFiber
  SeqNames <- Names
  Categories = {"news"}
  Script <- SourceScript
  Clients = {c1}
  ExtCalls <- SourceRequests
  MaxExt = 1
  MayTeardown = FALSE
  ClientIdMod = 4
SPECIFICATION Spec
SYMMETRY FiberSymmetry
INVARIANTS AsyncSourceIsSender
