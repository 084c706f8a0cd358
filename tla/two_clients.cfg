CONSTANTS
  NrModule = 1
  Fibers = {f1, f2}
  NoFiber = NoFiber
  SeqNames <- Names
  Categories = {"news"}
  Script <- EchoScript
  Clients = {c1, c2}
  ExtCalls <- EchoRequests
  MaxExt = 2
  MayTeardown = FALSE
  ClientIdMod = 4
SPECIFICATION Spec
SYMMETRY FiberSymmetry
INVARIANTS ClientGetsOwnReply
